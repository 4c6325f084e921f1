------------------------------- MODULE Arbitrage -------------------------------
(***************************************************************************)
(* aot::ArbitrageStrategyComponent (aot/strategy/arbitrage/                *)
(* arbitrage_strategy.h) as example/check_many_trading_pairs_config builds *)
(* it: on the thread pool itself and not on a strand.  Every NewBBO of the *)
(* order books becomes a task; the tasks are taken from the pool's queue in *)
(* order and then run side by side, without a lock on exchange_bbo_map_ or *)
(* trades_state_.                                                          *)
(*                                                                         *)
(* A step of the model is one access to what the tasks share: a BBO being  *)
(* copied into the map, the BBO of one leg being read, is_open, an entry.  *)
(* Reading or writing a BBO while another task copies one into the same    *)
(* slot gives each field from either (a data race).  The first BBO of a key *)
(* inserts into the hash map: another task in the map at that moment is    *)
(* undefined and the component is not followed further.                    *)
(*                                                                         *)
(* A key stands for HashCombined(exchange_id, market_type, trading_pair)   *)
(* and a cycle for its hash, both taken as injective.                      *)
(***************************************************************************)
EXTENDS Integers, FiniteSets, Sequences, Functions

CONSTANTS
  Keys,           \* exchange, market and pair of an order book
  Added,          \* the cycles the program adds, in order
  KnownPairs,     \* the keys whose pair is in exchange_trading_pairs
  BBOs,           \* the BBOs the order books publish
  Invalid,        \* kPriceInvalid: the largest price
  Threads,        \* threads of the pool
  MaxBBOs         \* bound: BBOs published

VARIABLES
  task,           \* the spawned HandleNewBBO, in the order they were posted
  map,            \* exchange_bbo_map_
  trade,          \* trades_state_
  reports,        \* BusEventArbitrageReports sent
  broken          \* ghost: an insertion met another access to the map

cyclicVars == <<task, map, trade, reports, broken>>

-----------------------------------------------------------------------------
(* AddArbitrageCycle.                                                      *)

NoCycles == [dictionary |-> [k \in Keys |-> << >>], trades |-> {}]

\* A cycle is entered under the key of each of its steps, once, and has one
\* trade state.
AddArbitrageCycle(setup, cycle) ==
  LET keys == {cycle[i].key : i \in DOMAIN cycle}
  IN  [dictionary |-> [k \in Keys |->
         IF k \in keys /\ cycle \notin Range(setup.dictionary[k])
           THEN Append(setup.dictionary[k], cycle)
           ELSE setup.dictionary[k]],
       trades |-> setup.trades \cup {cycle}]

\* What the first n calls leave.
SetupAfter[n \in 0 .. Len(Added)] ==
  IF n = 0 THEN NoCycles ELSE AddArbitrageCycle(SetupAfter[n - 1], Added[n])

Setup == SetupAfter[Len(Added)]

Cycles == Setup.trades

Legs == {"kBuy", "kSell"}

\* A cycle is found under a key once, and one found has a step.
SoundSetup(setup) ==
  /\ setup.trades \subseteq Seq([key : Keys, operation : Legs])
  /\ setup.dictionary \in [Keys -> Seq(setup.trades)]
  /\ \A k \in Keys : /\ IsInjective(setup.dictionary[k])
                     /\ << >> \notin Range(setup.dictionary[k])

\* What the constants are: any calls of AddArbitrageCycle, and books that publish
\* any prices, crossed ones and missing ones included.
ArbitrageAssumption ==
  /\ MaxBBOs \in Nat /\ Invalid \in Int
  /\ BBOs \subseteq [bid : Int, ask : Int]
  /\ Added \in Seq(Seq([key : Keys, operation : Legs]))

-----------------------------------------------------------------------------

CyclicNoBBO == [bid |-> Invalid, ask |-> Invalid]

\* The bid of x with the ask of y is no BBO, or one with the bid above the ask, as
\* a book without bids has it as well.
Odd(x, y) == x # y \/ x.bid > y.ask

\* HandleNewBBO for one event.  Ghosts: odd, a quote of this evaluation is Odd;
\* foreign, an entry price is another task's.
NewTask(k, b) ==
  [key |-> k, bbo |-> b, pc |-> "queued", todo |-> << >>, cycle |-> << >>, step |-> 1,
   quote |-> [l \in Legs |-> CyclicNoBBO], profit |-> 0, odd |-> FALSE, foreign |-> FALSE]

CyclicInit ==
  /\ task = << >>
  /\ map = [k \in {} |-> CyclicNoBBO]
  /\ trade = [c \in Cycles |-> [open |-> FALSE, entry |-> [l \in Legs |-> Invalid],
                                by |-> [l \in Legs |-> 0]]]
  /\ reports = {}
  /\ broken = FALSE

CyclicRunning == {i \in DOMAIN task : task[i].pc \notin {"queued", "done"}}

\* Task i is at pc, and the component can still be followed.
At(i, pc) == ~broken /\ task[i].pc = pc

\* Other tasks that copy a BBO into the slot of k.
Writers(i, k) == {j \in CyclicRunning \ {i} : task[j].pc = "write" /\ task[j].key = k}

\* AsyncHandleEvent(BusEventNewBBO): co_spawn on the pool.
AsyncHandleEvent(k, b) ==
  /\ ~broken /\ Len(task) < MaxBBOs
  /\ task' = Append(task, NewTask(k, b))
  /\ UNCHANGED <<map, trade, reports, broken>>

\* A free thread takes the oldest task of the pool's queue.
HandleNewBBO(i) ==
  /\ At(i, "queued")
  /\ \A j \in 1 .. i - 1 : task[j].pc # "queued"
  /\ Cardinality(CyclicRunning) < Threads
  /\ task' = [task EXCEPT ![i].pc = "write"]
  /\ UNCHANGED <<map, trade, reports, broken>>

\* The end of AddOrUpdateBBO: try_emplace has inserted the BBO, or the BBO has
\* been copied over the old one.
AddOrUpdateBBO(i) ==
  LET k == task[i].key
      insert == k \notin DOMAIN map
      race == \E j \in CyclicRunning \ {i} : task[j].pc \in {"write", "read"}
      copies == {task[j].bbo : j \in Writers(i, k) \cup {i}}
  IN
  /\ At(i, "write")
  /\ \E x, y \in IF insert THEN {task[i].bbo} ELSE copies :
       map' = [l \in DOMAIN map \cup {k} |->
                 IF l = k THEN [bid |-> x.bid, ask |-> y.ask, odd |-> Odd(x, y)] ELSE map[l]]
  /\ broken' \in IF insert /\ race THEN BOOLEAN ELSE {FALSE}
  /\ task' = [task EXCEPT ![i].pc = "next", ![i].todo = Setup.dictionary[k]]
  /\ UNCHANGED <<trade, reports>>

\* The loop over equal_range.
NextCycle(i) ==
  /\ At(i, "next")
  /\ \/ /\ task[i].todo = << >>
        /\ task' = [task EXCEPT ![i].pc = "done"]
     \/ /\ task[i].todo # << >>
        /\ task' = [task EXCEPT ![i].pc = "read", ![i].cycle = Head(task[i].todo),
                                ![i].todo = Tail(task[i].todo)]
  /\ UNCHANGED <<map, trade, reports, broken>>

\* The evaluation of a cycle returns.
Returned(t) == [NewTask(t.key, t.bbo) EXCEPT !.pc = "next", !.todo = t.todo]

-----------------------------------------------------------------------------
(* EvaluateOpportunityArbitrageCycle.                                      *)

Valid(quotes) == \A l \in Legs : quotes[l].bid # Invalid /\ quotes[l].ask # Invalid

\* Mutant of ReadLeg: a step without a BBO is waited for.
ReadLegWaits(i) ==
  LET step == task[i].cycle[task[i].step]
      last == task[i].step = Len(task[i].cycle)
  IN
  /\ At(i, "read")
  /\ step.key \in DOMAIN map
  /\ task' = [task EXCEPT ![i].quote[step.operation] =
                 [bid |-> map[step.key].bid, ask |-> map[step.key].ask],
                          ![i].step = IF last THEN 1 ELSE @ + 1,
                          ![i].pc = IF last THEN "check" ELSE "read"]
  /\ UNCHANGED <<map, trade, reports, broken>>

\* One step of the cycle: without a BBO the cycle is skipped; otherwise both
\* prices are read, the opening and the exit price of the leg.
ReadLeg(i) ==
  LET step == task[i].cycle[task[i].step]
      last == task[i].step = Len(task[i].cycle)
      seen == {[bid |-> map[step.key].bid, ask |-> map[step.key].ask]}
                \cup {task[j].bbo : j \in Writers(i, step.key)}
  IN
  /\ At(i, "read")
  /\ IF step.key \notin DOMAIN map
       THEN task' = [task EXCEPT ![i] = Returned(@)]
       ELSE \E x, y \in seen :
              LET quotes == [task[i].quote EXCEPT ![step.operation] =
                               [bid |-> x.bid, ask |-> y.ask]]
              IN task' = [task EXCEPT ![i] =
                   IF last /\ ~Valid(quotes) THEN Returned(@)
                   ELSE [@ EXCEPT !.quote = quotes,
                                  !.odd = task[i].odd \/ Odd(x, y) \/ map[step.key].odd,
                                  !.step = IF last THEN 1 ELSE task[i].step + 1,
                                  !.pc = IF last THEN "check" ELSE "read"]]
  /\ UNCHANGED <<map, trade, reports, broken>>

\* if (!trade_state.IsOpened()), and the opening condition.
CheckOpen(i) ==
  LET quotes == task[i].quote IN
  /\ At(i, "check")
  /\ task' = [task EXCEPT ![i].pc =
       IF ~trade[task[i].cycle].open /\ quotes["kSell"].bid > quotes["kBuy"].ask
         THEN "open" ELSE "opened"]
  /\ UNCHANGED <<map, trade, reports, broken>>

\* is_open = true.
Open(i) ==
  /\ At(i, "open")
  /\ trade' = [trade EXCEPT ![task[i].cycle].open = TRUE]
  /\ task' = [task EXCEPT ![i].pc = "buy"]
  /\ UNCHANGED <<map, reports, broken>>

EntryPrice(quotes, l) == IF l = "kBuy" THEN quotes[l].ask ELSE quotes[l].bid

\* The entry of the buying, then of the selling transaction.
Enter(i, l) ==
  /\ At(i, IF l = "kBuy" THEN "buy" ELSE "sell")
  /\ trade' = [trade EXCEPT ![task[i].cycle].entry[l] = EntryPrice(task[i].quote, l),
                            ![task[i].cycle].by[l] = i]
  /\ task' = [task EXCEPT ![i].pc = IF l = "kBuy" THEN "sell" ELSE "opened"]
  /\ UNCHANGED <<map, reports, broken>>

\* if (trade_state.IsOpened()).
CheckOpened(i) ==
  /\ At(i, "opened")
  /\ task' = [task EXCEPT ![i] = IF trade[task[i].cycle].open THEN [@ EXCEPT !.pc = "entries"]
                                 ELSE Returned(@)]
  /\ UNCHANGED <<map, trade, reports, broken>>

\* profit_or_loss_buy, from the entry price of the buying transaction.
ReadBuyEntry(i) ==
  LET t == trade[task[i].cycle] IN
  /\ At(i, "entries")
  /\ task' = [task EXCEPT ![i].profit = task[i].quote["kBuy"].bid - t.entry["kBuy"],
                          ![i].foreign = t.by["kBuy"] # i,
                          ![i].pc = "sellEntry"]
  /\ UNCHANGED <<map, trade, reports, broken>>

\* Mutant of SellProfit: the selling leg has the sign of the buying one.
SellLoss(quotes, price) == quotes["kSell"].ask - price

\* profit_or_loss_sell.
SellProfit(quotes, price) == price - quotes["kSell"].ask

\* ... and of the selling one, read after it.  The sign of the sum is the sign of
\* the percentage.
ReadSellEntry(i) ==
  LET t == trade[task[i].cycle] IN
  /\ At(i, "sellEntry")
  /\ task' = [task EXCEPT ![i].profit = @ + SellProfit(task[i].quote, t.entry["kSell"]),
                          ![i].foreign = @ \/ t.by["kSell"] # i,
                          ![i].pc = "close"]
  /\ UNCHANGED <<map, trade, reports, broken>>

\* Mutant of Close: a loss returns before the trade is closed.
CloseOnProfit(i) ==
  /\ At(i, "close")
  /\ trade' = IF task[i].profit <= 0 THEN trade
              ELSE [trade EXCEPT ![task[i].cycle].open = FALSE]
  /\ task' = [task EXCEPT ![i] = IF @.profit <= 0 THEN Returned(@)
                                 ELSE [@ EXCEPT !.pc = "report"]]
  /\ UNCHANGED <<map, reports, broken>>

\* is_open = false; stop_loss, at 0 as well, ends the evaluation.
Close(i) ==
  /\ At(i, "close")
  /\ trade' = [trade EXCEPT ![task[i].cycle].open = FALSE]
  /\ task' = [task EXCEPT ![i] = IF @.profit <= 0 THEN Returned(@)
                                 ELSE [@ EXCEPT !.pc = "report"]]
  /\ UNCHANGED <<map, reports, broken>>

\* CalculatePnl of the trade: it fails when the pair of a transaction is unknown.
CalculatePnl(cycle) == \A n \in DOMAIN cycle : cycle[n].key \in KnownPairs

\* The exits, the PnL and SendArbitrageReportToBus.
SendArbitrageReportToBus(i) ==
  /\ At(i, "report")
  /\ reports' = IF CalculatePnl(task[i].cycle)
                  THEN reports \cup {[cycle |-> task[i].cycle, task |-> i,
                                      raced |-> task[i].odd \/ task[i].foreign]}
                  ELSE reports
  /\ task' = [task EXCEPT ![i] = Returned(@)]
  /\ UNCHANGED <<map, trade, broken>>

Run(i) ==
  \/ HandleNewBBO(i) \/ AddOrUpdateBBO(i) \/ NextCycle(i) \/ ReadLeg(i)
  \/ CheckOpen(i) \/ Open(i) \/ (\E l \in Legs : Enter(i, l)) \/ CheckOpened(i)
  \/ ReadBuyEntry(i) \/ ReadSellEntry(i) \/ Close(i) \/ SendArbitrageReportToBus(i)

CyclicNext ==
  \/ \E k \in Keys, b \in BBOs : AsyncHandleEvent(k, b)
  \/ \E i \in DOMAIN task : Run(i)

CyclicSpec == CyclicInit /\ [][CyclicNext]_cyclicVars

\* The pool's threads take every task and run it to its end.
CyclicFairness == \A i \in 1 .. MaxBBOs : WF_cyclicVars(i \in DOMAIN task /\ Run(i))

CyclicFairSpec == CyclicSpec /\ CyclicFairness

-----------------------------------------------------------------------------

\* Types of the tasks and of what they share.
CyclicTypeOK ==
  /\ \A i \in DOMAIN task :
       /\ task[i].key \in Keys /\ task[i].bbo \in BBOs /\ task[i].profit \in Int
       /\ task[i].cycle \in Cycles \cup {<< >>}
       /\ task[i].step \in DOMAIN task[i].cycle \cup {1}
  /\ DOMAIN map \subseteq Keys
  /\ DOMAIN trade = Cycles
  /\ \A r \in reports : r.cycle \in Cycles

\* However the tasks overlap, a trade is open only while some task that will
\* still look at is_open evaluates its cycle: none is left open for good, and
\* none is held over to the next BBO.
NothingLeftOpen ==
  broken \/ \A c \in Cycles : trade[c].open =>
    \E i \in CyclicRunning :
      /\ task[i].cycle = c
      /\ task[i].pc \in {"buy", "sell", "opened", "entries", "sellEntry", "close"}

\* EvaluateOpportunityArbitrageCycle opens and closes with the same quotes, so an
\* evaluation of its own makes no profit: a report is sent only when a task closed
\* what another had opened, or a quote it read was Odd, half of a BBO another task
\* was writing or one its book published crossed.
ReportNeedsRace == \A r \in reports : r.raced

\* A trade is open only while a task that will close it evaluates its cycle, and
\* a report is sent only when two tasks raced or a book was crossed.
CyclicNothingLeftOpen == CyclicTypeOK /\ NothingLeftOpen /\ ReportNeedsRace

\* Every BBO is evaluated against all cycles of its key, a cycle whose other
\* book has not spoken yet included, and all trades end closed.
Settled ==
  <>[](broken \/ ( /\ \A i \in DOMAIN task : task[i].pc = "done"
                   /\ \A c \in Cycles : ~trade[c].open ))

\* The BBO that the order book of k has published last.
Latest(k) == task[CHOOSE i \in DOMAIN task :
                    task[i].key = k /\ \A j \in i + 1 .. Len(task) : task[j].key # k].bbo

\* When nothing runs the map holds the last BBO of each book.
MapIsLatest ==
  (\A i \in DOMAIN task : task[i].pc = "done") /\ ~broken =>
    \A k \in DOMAIN map : map[k].bid = Latest(k).bid /\ map[k].ask = Latest(k).ask

=============================================================================
