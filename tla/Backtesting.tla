----------------------------- MODULE Backtesting -----------------------------
(***************************************************************************)
(* The backtesting program (example/backtesting/main.cpp): the rows of a    *)
(* history file go from OHLCVI through backtesting::KLineService's thread   *)
(* and a bounded queue to the thread of backtesting::TradeEngine, while the *)
(* main thread starts both services, waits for four seconds of silence and  *)
(* then destroys the services in the reverse order of their declaration.    *)
(*                                                                         *)
(* Starting and stopping rest on sleep_for(1s).  `punctual' says whether    *)
(* the scheduler is fast enough for the sleeps to mean something: a thread  *)
(* that can run has done so when a sleep ends.  What the program promises   *)
(* only under it says so.  A decimal of the file is a number of tenths of   *)
(* the pair's tick.                                                         *)
(***************************************************************************)
EXTENDS Integers, Sequences, FiniteSetsExt

CONSTANTS
  Files,       \* history files: sequences of rows
  NoPath,      \* in place of a file: the configuration names none
  Capacity,    \* bound: elements the external queue holds without allocating
  Bulk         \* bound: elements of one try_dequeue_bulk (50 in the code)

VARIABLES
  punctual,    \* threads run within a second
  file,        \* the history file, or NoPath
  history,     \* OHLCVI::ohlcv_history_
  next,        \* OHLCVI's iterator, as the number of rows handed out
  external,    \* external_ohlcv_queue
  main,        \* the statement the main thread is at, and the service it is about
  thread,      \* per service: state of its std::thread
  run,         \* per service: run_
  needMore,    \* KLineService::Run: need_fetch_more
  pushing,     \* KLineService::Run: klines of the batch not pushed yet
  batch,       \* TradeEngine::Run: klines of the batch not processed yet
  klines,      \* TradeEngine::klines_ is not null
  derived,     \* backtesting::TradeEngine's part of the engine exists
  shown,       \* ghost: the values bbo_ of the backtesting book has had
  fault        \* undefined behaviour or signal that ended the process

replayVars == <<punctual, file, history, next, external, main, thread, run, needMore,
                pushing, batch, klines, derived, shown, fault>>

Services == {"engine", "kline"}
Row      == [match : BOOLEAN, open : Nat, volume : Nat]

(* What the constants are. *)
ReplayAssumption ==
  /\ Files \subseteq Seq(Row)
  /\ Capacity \in Nat \ {0} /\ Bulk \in Nat \ {0}

(* static_cast<int>(price_prec * stod(text)): truncated, and the product of a *)
(* decimal that is a whole number of ticks can fall short of it.              *)
Ticks(tenths) ==
  {tenths \div 10} \union IF tenths = 0 THEN {} ELSE {(tenths - 1) \div 10}

(* The klines OHLCVI::Init may read from a row the pattern matches. *)
KLines(row) == [open : Ticks(row.open), volume : Ticks(row.volume)]

(* What OnNewKLine of the backtesting book leaves in bbo_. *)
BBOOf(kline) == [price |-> kline.open, qty |-> kline.volume \div kline.open]

ReplayInit ==
  /\ punctual \in BOOLEAN
  /\ file \in Files \union {NoPath}
  /\ history = << >> /\ next = 0 /\ external = << >>
  /\ main = <<"construct", "engine">>
  /\ thread = [s \in Services |-> "none"]
  /\ run = [s \in Services |-> FALSE]
  /\ needMore = TRUE
  /\ pushing = << >> /\ batch = << >>
  /\ klines = TRUE /\ derived = TRUE
  /\ shown = << >> /\ fault = "none"

Ended == {<<"return", "main">>, <<"crash", "main">>}

Crash(what) == main' = <<"crash", "main">> /\ fault' = what

consumer == <<batch, klines, derived, shown>>
producer == <<next, needMore, pushing>>

-------------------------------------------------------------------------------
(* The main thread. *)

(* Mutant of the code: the locals declared in the other order. *)
EngineIsDestroyedFirst == "engine"

(* The engine is declared first, so the KLine service is destroyed first. *)
FirstDestroyed == "kline"

(* Where main goes on when the destructor of s has returned. *)
DestructorOf(s)   == IF s = "engine" THEN <<"~derived", s>> ELSE <<"stop", s>>
AfterDestroyed(s) ==
  IF s # FirstDestroyed THEN <<"return", "main">>
  ELSE DestructorOf(CHOOSE t \in Services : t # s)

(* The rows OHLCVI::Init takes from the file, line by line. *)
Matched(rows) ==
  LET upTo[n \in 0 .. Len(rows)] ==
        IF n = 0 THEN << >>
        ELSE IF rows[n].match THEN Append(upTo[n - 1], rows[n]) ELSE upTo[n - 1]
  IN  upTo[Len(rows)]

(* Constructors: OHLCVI's Init reads the whole file.  Without a path main    *)
(* returns at once, and only the engine exists to be destroyed.             *)
Construct ==
  /\ main = <<"construct", "engine">>
  /\ IF file = NoPath
     THEN main' = DestructorOf("engine") /\ UNCHANGED history
     ELSE LET rows == Matched(file)
          IN  /\ main' = <<"start", "engine">>
              /\ history' \in {h \in [DOMAIN rows -> UNION {KLines(rows[i]) : i \in DOMAIN rows}] :
                                 \A i \in DOMAIN rows : h[i] \in KLines(rows[i])}
  /\ UNCHANGED <<punctual, file, external, thread, run, producer, consumer, fault>>

(* Start() up to the sleep of createAndStartThread. *)
Start(s) ==
  /\ main = <<"start", s>>
  /\ run' = [run EXCEPT ![s] = TRUE]
  /\ thread' = [thread EXCEPT ![s] = "created"]
  /\ main' = <<"starting", s>>
  /\ UNCHANGED <<punctual, file, history, external, producer, consumer, fault>>

(* Mutant of the code: createAndStartThread returns without its sleep. *)
StartedAtOnce(s) ==
  /\ main = <<"starting", s>>
  /\ thread' = [thread EXCEPT ![s] = IF @ = "created" THEN "orphan" ELSE @]
  /\ main' = IF s = "engine" THEN <<"start", "kline">> ELSE <<"wait", "engine">>
  /\ UNCHANGED <<punctual, file, history, external, run, producer, consumer, fault>>

(* createAndStartThread returns: the thread's lambda holds references into   *)
(* the frames that end here.                                                 *)
Started(s) ==
  /\ main = <<"starting", s>>
  /\ punctual => thread[s] # "created"
  /\ thread' = [thread EXCEPT ![s] = IF @ = "created" THEN "orphan" ELSE @]
  /\ main' = IF s = "engine" THEN <<"start", "kline">> ELSE <<"wait", "engine">>
  /\ UNCHANGED <<punctual, file, history, external, run, producer, consumer, fault>>

(* Nothing is left that would make the engine call time_manager_.Update(). *)
Silent ==
  ~needMore /\ pushing = << >> /\ external = << >> /\ batch = << >>

(* GetDownTimeInS() reaches 4 and the statistics are printed. *)
SilentFor4s ==
  /\ main = <<"wait", "engine">>
  /\ punctual => Silent
  /\ main' = DestructorOf(FirstDestroyed)
  /\ UNCHANGED <<punctual, file, history, external, thread, run, producer, consumer, fault>>

(* backtesting::~TradeEngine destroys its order_book_, and the engine is a   *)
(* Trading::TradeEngine from here on, before run_ is lowered.                *)
DestroyDerived ==
  /\ main = <<"~derived", "engine">>
  /\ derived' = FALSE
  /\ main' = <<"stop", "engine">>
  /\ UNCHANGED <<punctual, file, history, external, thread, run, producer, batch, klines,
                 shown, fault>>

(* stop() of the KLine service, run_ = false in ~TradeEngine; then the sleep. *)
Stop(s) ==
  /\ main = <<"stop", s>>
  /\ run' = [run EXCEPT ![s] = FALSE]
  /\ main' = IF s = "engine" THEN <<"null", s>> ELSE <<"join", s>>
  /\ UNCHANGED <<punctual, file, history, external, thread, producer, consumer, fault>>

(* ~TradeEngine after its sleep: klines_ = nullptr, with the thread not yet  *)
(* joined.                                                                   *)
NullQueues ==
  /\ main = <<"null", "engine">>
  /\ punctual => thread["engine"] \in {"none", "ended"}
  /\ klines' = FALSE
  /\ main' = <<"join", "engine">>
  /\ UNCHANGED <<punctual, file, history, external, thread, run, producer, batch, derived,
                 shown, fault>>

(* if (thread_) thread_->join() *)
Join(s) ==
  /\ main = <<"join", s>>
  /\ thread[s] \in {"none", "ended"}
  /\ main' = AfterDestroyed(s)
  /\ UNCHANGED <<punctual, file, history, external, thread, run, producer, consumer, fault>>

Main ==
  \/ Construct \/ SilentFor4s \/ DestroyDerived \/ NullQueues
  \/ \E s \in Services : Start(s) \/ Started(s) \/ Stop(s) \/ Join(s)

-------------------------------------------------------------------------------
(* The threads of the services. *)

(* The lambda of createAndStartThread: it forwards func by reference. *)
Begin(s) ==
  /\ main \notin Ended
  /\ \/ /\ thread[s] = "created"
        /\ thread' = [thread EXCEPT ![s] = "running"]
        /\ UNCHANGED <<main, fault>>
     \/ /\ thread[s] = "orphan"
        /\ Crash("dangling")
        /\ UNCHANGED thread
  /\ UNCHANGED <<punctual, file, history, external, run, producer, consumer>>

(* Mutant of the code: LaunchOne hands out two rows at a time. *)
LaunchTwo ==
  [more |-> next < Len(history), rows |-> SubSeq(history, next + 1, Min({next + 2, Len(history)}))]

(* OHLCVI::LaunchOne.  Its queue is empty here: Run drains it in each round, *)
(* so that try_enqueue succeeds.                                             *)
LaunchOne ==
  [more |-> next < Len(history), rows |-> SubSeq(history, next + 1, Min({next + 1, Len(history)}))]

(* KLineService::Run up to the loop over the batch: the loop pushes element  *)
(* [0] of the array once for every kline of the batch.                       *)
Fetch ==
  /\ main \notin Ended
  /\ thread["kline"] = "running" /\ run["kline"] /\ pushing = << >>
  /\ needMore
  /\ LET launched == LaunchOne
     IN  /\ needMore' = launched.more
         /\ next' = next + Len(launched.rows)
         /\ pushing' = [i \in DOMAIN launched.rows |-> launched.rows[1]]
  /\ UNCHANGED <<punctual, file, history, external, main, thread, run, consumer, fault>>

(* Mutant of the code: a kline the queue has no room for is dropped. *)
PushOrDrop ==
  /\ main \notin Ended
  /\ thread["kline"] = "running" /\ pushing # << >>
  /\ external' = IF Len(external) < Capacity THEN Append(external, Head(pushing)) ELSE external
  /\ pushing' = Tail(pushing)
  /\ UNCHANGED <<punctual, file, history, main, thread, run, next, needMore, consumer, fault>>

(* while (!external_kline_lfqueue_->try_enqueue(...)): until it succeeds,    *)
(* whatever run_ says.                                                       *)
Push ==
  /\ main \notin Ended
  /\ thread["kline"] = "running" /\ pushing # << >>
  /\ Len(external) < Capacity
  /\ external' = Append(external, Head(pushing))
  /\ pushing' = Tail(pushing)
  /\ UNCHANGED <<punctual, file, history, main, thread, run, next, needMore, consumer, fault>>

KLineEnds ==
  /\ main \notin Ended
  /\ thread["kline"] = "running" /\ ~run["kline"] /\ pushing = << >>
  /\ thread' = [thread EXCEPT !["kline"] = "ended"]
  /\ UNCHANGED <<punctual, file, history, external, main, run, producer, consumer, fault>>

(* while (run_) of backtesting::TradeEngine::Run. *)
EngineLoop ==
  /\ main \notin Ended
  /\ thread["engine"] = "running" /\ batch = << >>
  /\ thread' = [thread EXCEPT !["engine"] = IF run["engine"] THEN "in loop" ELSE "ended"]
  /\ UNCHANGED <<punctual, file, history, external, main, run, producer, consumer, fault>>

(* klines_->try_dequeue_bulk *)
Dequeue ==
  /\ main \notin Ended
  /\ thread["engine"] = "in loop"
  /\ \/ /\ klines
        /\ LET n == Min({Bulk, Len(external)})
           IN  /\ batch' = SubSeq(external, 1, n)
               /\ external' = SubSeq(external, n + 1, Len(external))
        /\ thread' = [thread EXCEPT !["engine"] = "running"]
        /\ UNCHANGED <<main, fault>>
     \/ /\ ~klines
        /\ Crash("null")
        /\ UNCHANGED <<batch, external, thread>>
  /\ UNCHANGED <<punctual, file, history, run, producer, klines, derived, shown>>

(* OnNewKLine, a virtual call, for the next kline of the batch.  Of a        *)
(* Trading::TradeEngine it reads strategy_, which nobody has set.            *)
OnNewKLine ==
  /\ main \notin Ended
  /\ thread["engine"] = "running" /\ batch # << >>
  /\ \/ /\ derived /\ Head(batch).open > 0
        /\ shown' = Append(shown, BBOOf(Head(batch)))
        /\ batch' = Tail(batch)
        /\ UNCHANGED <<main, fault>>
     \/ /\ derived /\ Head(batch).open = 0
        /\ Crash("division")
        /\ UNCHANGED <<batch, shown>>
     \/ /\ ~derived
        /\ Crash("derived")
        /\ UNCHANGED <<batch, shown>>
  /\ UNCHANGED <<punctual, file, history, external, thread, run, producer, klines, derived>>

KLineThread  == Begin("kline") \/ Fetch \/ Push \/ KLineEnds
EngineThread == Begin("engine") \/ EngineLoop \/ Dequeue \/ OnNewKLine

ReplayNext == Main \/ KLineThread \/ EngineThread

ReplaySpec == ReplayInit /\ [][ReplayNext]_replayVars

(* The operating system runs every thread, and main's wait ends because the  *)
(* history does.                                                             *)
ReplayFairness == WF_replayVars(Main) /\ WF_replayVars(KLineThread) /\ WF_replayVars(EngineThread)

ReplayFairSpec == ReplaySpec /\ ReplayFairness

-------------------------------------------------------------------------------
KLine == [open : Nat, volume : Nat]

ReplayTypeOK ==
  /\ punctual \in BOOLEAN /\ file \in Files \union {NoPath}
  /\ history \in Seq(KLine) /\ next \in 0 .. Len(history)
  /\ external \in Seq(KLine) /\ Len(external) <= Capacity
  /\ main \in Ended \union ({"construct", "start", "starting", "wait", "~derived", "stop",
                             "null", "join"} \X Services)
  /\ thread \in [Services -> {"none", "created", "orphan", "running", "in loop", "ended"}]
  /\ run \in [Services -> BOOLEAN]
  /\ needMore \in BOOLEAN /\ klines \in BOOLEAN /\ derived \in BOOLEAN
  /\ pushing \in Seq(KLine) /\ batch \in Seq(KLine) /\ Len(batch) <= Bulk
  /\ shown \in Seq([price : Nat, qty : Nat])
  /\ fault \in {"none", "dangling", "division", "null", "derived"}

(* The backtesting book runs through the rows of the history file that       *)
(* OHLCVI parsed, in the file's order and each of them once, although        *)
(* KLineService::Run pushes element [0] of its batch whatever the index.     *)
ReplayInOrder ==
  /\ Len(shown) <= Len(history)
  /\ \A i \in DOMAIN shown :
       history[i].open > 0 /\ shown[i] = BBOOf(history[i])

(* Where threads run within a second, the sleeps of createAndStartThread and *)
(* ~TradeEngine and main's order of destruction keep the engine's thread off *)
(* dead frames, null queues and the destroyed book: the only way for the     *)
(* process to die is OnNewKLine's division by an opening price of zero.      *)
NoLifetimeFault == punctual => fault \in {"none", "division"}

(* Where threads run within a second, four seconds of silence mean that the  *)
(* engine has been through the whole file when main prints the statistics    *)
(* and starts to destroy.                                                    *)
StatisticsAreComplete ==
  punctual /\ main[1] \in {"~derived", "stop", "null", "join", "return"} =>
    Len(shown) = Len(history)

(* The backtesting book sees the klines of the file in the file's order, all *)
(* of them when main prints the statistics, and on a machine that runs       *)
(* threads within a second no thread touches a service that has been         *)
(* destroyed.                                                                *)
ReplayIsWhole ==
  ReplayTypeOK /\ ReplayInOrder /\ StatisticsAreComplete /\ NoLifetimeFault

(* The program ends, whenever main stops waiting: neither join waits for a   *)
(* thread that cannot end, because the engine drains the queue for as long   *)
(* as KLineService may be pushing to it.                                     *)
Ends == <>(main \in Ended)
==============================================================================
