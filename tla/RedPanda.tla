------------------------------- MODULE RedPanda -------------------------------
(***************************************************************************)
(* From the events of the bid-ask generators to the Kafka topics, as       *)
(* example/check_many_trading_pairs_config wires it.                       *)
(*                                                                         *)
(* Trading::OrderBookComponent (aot/strategy/market_order_book.h): one     *)
(* component per market type, its handlers on a strand of its own; a book  *)
(* per exchange and pair, whose BBO goes to the bus.  aot::                *)
(* RedPandaComponent and KafkaClient (aot/redpanda_client/                 *)
(* redpanda_client.h): the handlers on another strand turn a BBO, a report *)
(* or the trade dictionary into a message and post it to the io_context of *)
(* the producer thread.  The producer's own queue (librdkafka) and the     *)
(* broker are external: produce() queues a message, the broker takes it    *)
(* later, and destroying the producer drops what is still queued.          *)
(*                                                                         *)
(* MarketOrderBook2 models what a book does with an event; here an event   *)
(* leaves the BBO alone or makes a new one, with or without a price on each *)
(* side.  A BBO is named by its number.                                    *)
(***************************************************************************)
EXTENDS Integers, SequencesExt, FiniteSets

CONSTANTS
  Markets,        \* market types: one OrderBookComponent each
  BookPairs,          \* exchange and trading pair
  Info,           \* the pairs that exchange_trading_pairs knows
  Cycles,         \* arbitrage cycles: sequences of <<market, pair>>
  MaxAdds,        \* bound: calls of AddOrderBook
  MaxArrivals,      \* bound: arrivals of the generators
  MaxReports      \* bound: reports of the arbitrage strategy

VARIABLES
  phase,          \* "setup", "run", "closing", "closed"
  adds,           \* calls of AddOrderBook so far
  books,          \* order_books_: number of the current BBO of each book
  callbacks,      \* subscribers_ of each book's bbo_signal_emitter_
  inbox,          \* strand of each OrderBookComponent
  arrivals,         \* arrivals sent to them so far
  panda,          \* strand of the RedPandaComponent
  sent,           \* reports sent to it so far
  io,             \* io_context_ of the producer thread
  flushes,        \* the program calls WaitUntilFinished before it ends
  local,          \* the producer's queue, by topic
  topics,         \* messages the broker has, by topic
  failed,         \* ghost: messages produce() threw on or the broker refused
  dropped,        \* ghost: messages queued when the producer was destroyed
  published       \* ghost: the BBOs sent to the bus

bookVars == <<adds, books, callbacks, inbox, arrivals, published>>

kafkaVars == <<flushes, local, topics, failed, dropped>>

componentVars == <<panda, sent, io, kafkaVars>>

pandaVars == <<phase, bookVars, componentVars>>

-----------------------------------------------------------------------------

Kinds == {"MEMarketUpdate2", "ResponseNewSnapshot", "BookDiffSnapshot"}

Topics == {"orderbook", "trade", "trade_dictionary"}

\* NewBBO: the book it is of, its number, and whether it has both prices.
BBO(m, k, n, whole) == [book |-> <<m, k>>, n |-> n, whole |-> whole]

\* ArbitrageReport of a cycle's trade: its transactions are the cycle's.
Report(cycle) == [report |-> cycle]

\* TradeDictionary: a cycle is entered under the key of each of its steps.
TradeDictionary ==
  [dictionary |-> UNION { { <<cycle[i], cycle>> : i \in DOMAIN cycle } : cycle \in Cycles }]

Message(topic, content) == [topic |-> topic, content |-> content]

-----------------------------------------------------------------------------
(* What is sent of an event.                                               *)

Known(step) == step[2] \in Info

\* OrderBook of a BBO: names, and prices scaled by the pair's precision, which
\* keeps different prices different.
PrepareOrderBook(bbo) == [book |-> bbo.book, n |-> bbo.n]

\* ArbitrageReportString: every transaction, with prices where the pair is known.
ArbitrageReportString(report) ==
  [trade |-> report.report,
   priced |-> [i \in DOMAIN report.report |-> Known(report.report[i])]]

\* GetUniqueCycles.
UniqueCycles(dictionary) == { entry[2] : entry \in dictionary.dictionary }

\* Trade: the steps whose pair is known.
TradeOf(cycle) == SelectSeq(cycle, Known)

\* Trades.
Trades(dictionary) == [trades |-> [cycle \in UniqueCycles(dictionary) |-> TradeOf(cycle)]]

-----------------------------------------------------------------------------

PandaInit ==
  /\ phase = "setup"
  /\ adds = 0
  /\ books = [b \in {} |-> 0]
  /\ callbacks = [b \in {} |-> 0]
  /\ inbox = [m \in Markets |-> << >>]
  /\ arrivals = 0
  /\ panda = << >>
  /\ sent = 0
  /\ io = << >>
  /\ flushes \in BOOLEAN
  /\ local = [t \in Topics |-> << >>]
  /\ topics = [t \in Topics |-> << >>]
  /\ failed = {} /\ dropped = {}
  /\ published = {}

Put(f, x, v) == [y \in DOMAIN f \cup {x} |-> IF y = x THEN v ELSE f[y]]

\* Mutant of AddOrderBook: a known book is subscribed to again.
AddOrderBookAgain(m, k) ==
  LET b == <<m, k>> IN
  /\ phase = "setup" /\ adds < MaxAdds
  /\ adds' = adds + 1
  /\ books' = Put(books, b, 0)
  /\ callbacks' = Put(callbacks, b, IF b \in DOMAIN books THEN callbacks[b] + 1 ELSE 1)
  /\ UNCHANGED <<phase, inbox, arrivals, published, componentVars>>

\* AddOrderBook: a book is made, and its BBO subscribed to, once.
AddOrderBook(m, k) ==
  LET b == <<m, k>>
      new == b \notin DOMAIN books
  IN
  /\ phase = "setup" /\ adds < MaxAdds
  /\ adds' = adds + 1
  /\ books' = IF new THEN Put(books, b, 0) ELSE books
  /\ callbacks' = IF new THEN Put(callbacks, b, 1) ELSE callbacks
  /\ UNCHANGED <<phase, inbox, arrivals, published, componentVars>>

\* The books are made; the trade dictionary goes to the RedPandaComponent.
Start ==
  /\ phase = "setup"
  /\ phase' = "run"
  /\ panda' = Append(panda, TradeDictionary)
  /\ UNCHANGED <<bookVars, sent, io, kafkaVars>>

-----------------------------------------------------------------------------
(* OrderBookComponent.                                                     *)

\* AsyncHandleEvent of the three events: co_spawn on the strand.
AsyncHandleEvent(m, k, kind) ==
  /\ phase = "run" /\ arrivals < MaxArrivals
  /\ arrivals' = arrivals + 1
  /\ inbox' = [inbox EXCEPT ![m] = Append(@, [pair |-> k, kind |-> kind])]
  /\ UNCHANGED <<phase, adds, books, callbacks, published, componentVars>>

\* SendBBOToBus: CoBus::AsyncSend calls the subscribers' AsyncHandleEvent, and
\* the RedPandaComponent posts to its strand.
SendBBOToBus(m, k, n, whole, times) ==
  /\ panda' = panda \o [i \in 1 .. times |-> BBO(m, k, n, whole)]
  /\ published' = published \cup {BBO(m, k, n, whole)}

\* OnMarketUpdate of the book, in the handler of its event: nothing at the top
\* changes, or the emitter calls every subscriber.
OnMarketUpdate(m, k) ==
  LET b == <<m, k>>
      n == books[b] + 1
  IN
  \/ UNCHANGED <<books, panda, published>>
  \/ /\ books' = [books EXCEPT ![b] = n]
     /\ \E whole \in BOOLEAN : SendBBOToBus(m, k, n, whole, callbacks[b])

\* The next event of the strand is of this kind: an exchange or a pair without a
\* book ends the handler.
Handle(m, kind) ==
  LET event == Head(inbox[m]) IN
  /\ phase = "run"
  /\ inbox[m] # << >> /\ event.kind = kind
  /\ inbox' = [inbox EXCEPT ![m] = Tail(@)]
  /\ IF <<m, event.pair>> \in DOMAIN books
       THEN OnMarketUpdate(m, event.pair)
       ELSE UNCHANGED <<books, panda, published>>
  /\ UNCHANGED <<phase, adds, callbacks, arrivals, sent, io, kafkaVars>>

HandleNewMEMarketUpdate(m) == Handle(m, "MEMarketUpdate2")

HandleResponseNewSnapshot(m) == Handle(m, "ResponseNewSnapshot")

HandleNewDiff(m) == Handle(m, "BookDiffSnapshot")

-----------------------------------------------------------------------------
(* RedPandaComponent and KafkaClient.                                      *)

\* Mutant of AsyncHandleReport: the status of CalculatePnl is not looked at.
AsyncHandleReportAnyPair(cycle) ==
  /\ phase = "run" /\ sent < MaxReports
  /\ sent' = sent + 1
  /\ panda' = Append(panda, Report(cycle))
  /\ UNCHANGED <<phase, bookVars, io, kafkaVars>>

\* The strategy closes a trade with a profit.  CalculatePnl must know every pair;
\* SendArbitrageReportToBus calls AsyncHandleEvent of the RedPandaComponent.
AsyncHandleReport(cycle) ==
  /\ phase = "run" /\ sent < MaxReports
  /\ \A i \in DOMAIN cycle : Known(cycle[i])
  /\ sent' = sent + 1
  /\ panda' = Append(panda, Report(cycle))
  /\ UNCHANGED <<phase, bookVars, io, kafkaVars>>

\* SendMessage, SendMessageAsJson: the payload is posted to the io_context.
Post(topic, content) == io' = Append(io, Message(topic, content))

Take ==
  /\ panda # << >>
  /\ panda' = Tail(panda)
  /\ UNCHANGED <<phase, bookVars, sent, kafkaVars>>

\* ValidatePrices and the look-up of the pair.
Sendable(bbo) == Known(bbo.book) /\ bbo.whole

\* Mutant of HandleNewBBO: a BBO is sent only when nothing waits.
HandleNewBBOIdle ==
  /\ Take
  /\ "book" \in DOMAIN Head(panda)
  /\ io' = IF Sendable(Head(panda)) /\ io = << >> THEN <<Message("orderbook", PrepareOrderBook(Head(panda)))>> ELSE io

\* HandleEventAsync(NewBBO).
HandleNewBBO ==
  /\ Take
  /\ "book" \in DOMAIN Head(panda)
  /\ IF Sendable(Head(panda)) THEN Post("orderbook", PrepareOrderBook(Head(panda))) ELSE io' = io

\* HandleEventAsync(ArbitrageReport).
HandleReport ==
  /\ Take
  /\ "report" \in DOMAIN Head(panda)
  /\ Post("trade", ArbitrageReportString(Head(panda)))

\* HandleEventAsync(TradeDictionary).
HandleDictionary ==
  /\ Take
  /\ "dictionary" \in DOMAIN Head(panda)
  /\ Post("trade_dictionary", Trades(Head(panda)))

\* WaitUntilFinished posts producer_->flush().
Flush == Message("flush", << >>)

\* The producer thread: produce() queues the message, or throws and it is gone.
Produce ==
  LET m == Head(io) IN
  /\ io # << >> /\ m # Flush
  /\ io' = Tail(io)
  /\ \/ local' = [local EXCEPT ![m.topic] = Append(@, m.content)] /\ failed' = failed
     \/ failed' = failed \cup {m} /\ local' = local
  /\ UNCHANGED <<phase, bookVars, panda, sent, flushes, topics, dropped>>

\* The broker takes the next message of a topic, or the message times out; the
\* client registers no callback for either.
Deliver(t) ==
  /\ local[t] # << >> /\ phase # "closed"
  /\ local' = [local EXCEPT ![t] = Tail(@)]
  /\ \/ topics' = [topics EXCEPT ![t] = Append(@, Head(local[t]))] /\ failed' = failed
     \/ failed' = failed \cup {Message(t, Head(local[t]))} /\ topics' = topics
  /\ UNCHANGED <<phase, bookVars, panda, sent, io, flushes, dropped>>

\* flush() returns when nothing is queued.
FlushReturns ==
  /\ io # << >> /\ Head(io) = Flush
  /\ \A t \in Topics : local[t] = << >>
  /\ io' = Tail(io)
  /\ UNCHANGED <<phase, bookVars, panda, sent, kafkaVars>>

\* Mutant of Stop: nothing waits for the broker.
StopUnflushed ==
  /\ phase = "run" /\ panda = << >> /\ \A m \in Markets : inbox[m] = << >>
  /\ phase' = "closing"
  /\ UNCHANGED <<bookVars, componentVars>>

\* The component is destroyed when nothing is left on the strands (main joins the
\* thread pool first), after WaitUntilFinished if the program calls it:
\* ~KafkaClient lets go of the work guard.
Stop ==
  /\ phase = "run" /\ panda = << >> /\ \A m \in Markets : inbox[m] = << >>
  /\ phase' = "closing"
  /\ io' = IF flushes THEN Append(io, Flush) ELSE io
  /\ UNCHANGED <<bookVars, panda, sent, kafkaVars>>

\* Mutant of Join: the io_context is stopped with what it still has.
JoinAtOnce ==
  /\ phase = "closing"
  /\ phase' = "closed"
  /\ io' = << >>
  /\ UNCHANGED <<bookVars, panda, sent, kafkaVars>>

\* producer_thread_.join(): run() returns when nothing is left.  Then producer_
\* is destroyed, with what it has queued.
Join ==
  /\ phase = "closing" /\ io = << >>
  /\ phase' = "closed"
  /\ dropped' = UNION { {Message(t, local[t][i]) : i \in DOMAIN local[t]} : t \in Topics }
  /\ local' = [t \in Topics |-> << >>]
  /\ UNCHANGED <<bookVars, panda, sent, io, flushes, topics, failed>>

PandaNext ==
  \/ \E m \in Markets, k \in BookPairs : AddOrderBook(m, k)
  \/ Start
  \/ \E m \in Markets, k \in BookPairs, kind \in Kinds : AsyncHandleEvent(m, k, kind)
  \/ \E m \in Markets :
       HandleNewMEMarketUpdate(m) \/ HandleResponseNewSnapshot(m) \/ HandleNewDiff(m)
  \/ \E cycle \in Cycles : AsyncHandleReport(cycle)
  \/ HandleNewBBO \/ HandleReport \/ HandleDictionary
  \/ Produce \/ (\E t \in Topics : Deliver(t)) \/ FlushReturns
  \/ Stop \/ Join

PandaSpec == PandaInit /\ [][PandaNext]_pandaVars

\* Each strand and the producer thread run what they have, and the broker takes
\* or refuses what is queued for it.
PandaFairness ==
  /\ \A m \in Markets :
       WF_pandaVars(HandleNewMEMarketUpdate(m) \/ HandleResponseNewSnapshot(m) \/ HandleNewDiff(m))
  /\ WF_pandaVars(HandleNewBBO \/ HandleReport \/ HandleDictionary)
  /\ WF_pandaVars(Produce \/ FlushReturns)
  /\ WF_pandaVars(\E t \in Topics : Deliver(t))
  /\ WF_pandaVars(Join)

PandaFairSpec == PandaSpec /\ PandaFairness

-----------------------------------------------------------------------------

BookIds == Markets \X BookPairs

\* Types, and one callback for every book: only AddOrderBook makes one.
PandaTypeOK ==
  /\ phase \in {"setup", "run", "closing", "closed"}
  /\ DOMAIN books \subseteq BookIds
  /\ DOMAIN callbacks = DOMAIN books
  /\ \A m \in Markets : \A i \in DOMAIN inbox[m] : inbox[m][i] \in [pair : BookPairs, kind : Kinds]
  /\ \A i \in DOMAIN io : io[i].topic \in Topics \cup {"flush"}
  /\ \A b \in DOMAIN books : books[b] \in 0 .. MaxArrivals

\* The numbers of the BBOs of book b in topic "orderbook".
Shown(b) ==
  LET of == SelectSeq(topics["orderbook"], LAMBDA bbo : bbo.book = b)
  IN  [i \in DOMAIN of |-> of[i].n]

\* Through two strands and the producer's queue the BBOs of a book stay in the
\* order the book had them, and none is shown twice, although AddOrderBook may
\* be called twice for a pair.
ShownInOrder ==
  \A b \in BookIds : \A i, j \in DOMAIN Shown(b) : i < j => Shown(b)[i] < Shown(b)[j]

\* The message of a BBO.
Of(bbo) == Message("orderbook", PrepareOrderBook(bbo))

\* A BBO that can be shown is on its way, was shown, or failed: leaving the
\* program drops none that were still to be produced.  What the producer had
\* queued is dropped, and only by a program that did not wait for it; it is newer
\* than everything shown of its book.
NothingLost ==
  /\ \A bbo \in published : Sendable(bbo) =>
       \/ Contains(panda, bbo)
       \/ Contains(io, Of(bbo))
       \/ Contains(local["orderbook"] \o topics["orderbook"], PrepareOrderBook(bbo))
       \/ Of(bbo) \in failed \cup dropped
  /\ flushes => dropped = {}
  /\ \A m \in dropped : m.topic = "orderbook" =>
       \A i \in DOMAIN Shown(m.content.book) : Shown(m.content.book)[i] < m.content.n

\* A report a consumer reads has all its transactions priced, and the dictionary
\* of which it reads, or has read, the trade has the same transactions, unless
\* that dictionary failed or was dropped.
ReportIsDescribed ==
  LET lost == \E m \in failed \cup dropped : m.topic = "trade_dictionary"
      dictionary == topics["trade_dictionary"] \o local["trade_dictionary"]
  IN
  \A i \in DOMAIN topics["trade"] :
    LET report == topics["trade"][i] IN
    /\ \A j \in DOMAIN report.priced : report.priced[j]
    /\ ~lost => /\ dictionary # << >>
               /\ report.trade \in DOMAIN dictionary[1].trades
               /\ dictionary[1].trades[report.trade] = report.trade

\* The BBOs of a book are shown in the order the book had them, none twice; a
\* whole one is on its way, was shown, failed, or was queued in the producer of a
\* program that ended without WaitUntilFinished; and a report's trade is
\* described by the dictionary.
PandaShowsWhatHappened == PandaTypeOK /\ ShownInOrder /\ NothingLost /\ ReportIsDescribed

\* In the end the last whole BBO of each book is the last one shown, unless
\* it failed or the program ended without WaitUntilFinished while it was queued.
PandaLastIsShown ==
  <>[]( \A bbo \in published :
          Sendable(bbo) /\ (\A other \in published : other.book = bbo.book /\ other.whole => other.n <= bbo.n)
            => \/ Of(bbo) \in failed \cup dropped
               \/ Shown(bbo.book) # << >> /\ Last(Shown(bbo.book)) = bbo.n )

=============================================================================
