---------------------------- MODULE BidAskGenerator ----------------------------
(***************************************************************************)
(* binance::BidAskGeneratorComponent with SpotPolicy (aot/Binance.h): the   *)
(* coroutine handlers that join the REST snapshots and the websocket diffs  *)
(* of one trading pair into the feed the order book consumes.               *)
(*                                                                         *)
(* All three handlers run on one strand, so each is one atomic action; what *)
(* interleaves with them is the exchange, the websocket stream and the      *)
(* snapshot requests and answers in flight.  The state of a trading pair is *)
(* touched only by the events of that pair, so one pair is modelled.        *)
(*                                                                         *)
(* A diff is the interval of exchange update ids it covers, a snapshot the  *)
(* last update id it contains, and the consumer's book the set of update    *)
(* ids applied to it.  Levels carry absolute quantities, so applying a diff *)
(* that overlaps the book is a union.                                       *)
(***************************************************************************)
EXTENDS Naturals, Sequences

CONSTANTS
  FirstId,    \* exchange's last update id when the program starts
  MaxId,      \* bound: last update id the exchange publishes
  MaxBatch    \* bound: update ids covered by one diff

ASSUME ConstantsAssumption ==
  /\ FirstId \in Nat \ {0}
  /\ MaxId \in Nat
  /\ FirstId <= MaxId
  /\ MaxBatch \in Nat \ {0}

VARIABLES
  needMakeSnapshot,            \* state_map_[pair].need_make_snapshot
  diffPacketLost,              \* .diff_packet_lost
  needProcessCurrentSnapshot,  \* .need_process_current_snapshot
  needProcessCurrentDiff,      \* .need_process_current_diff
  lastIdDiffBookEvent,         \* .last_id_diff_book_event
  snapshot,                    \* .snapshot.lastUpdateId
  tracked,                     \* request_bbo_ contains the pair
  registered,                  \* snapshot_callback_ and diff_callback_ are set
  exchId,                      \* exchange: last update id
  stream,                      \* diffs in flight on the websocket, in order
  asked,                       \* snapshot requests not yet answered
  answers,                     \* answers[i]: snapshot answers of id i in flight
  book,                        \* consumer: update ids in its book
  late                         \* history: a snapshot answer was stored while
                               \* the pair was synchronised, and no snapshot
                               \* has been emitted since

pairState == <<needMakeSnapshot, diffPacketLost, needProcessCurrentSnapshot,
               needProcessCurrentDiff, lastIdDiffBookEvent>>
network   == <<exchId, stream, asked, answers>>
vars      == <<pairState, snapshot, tracked, registered, network, book, late>>

Ids   == 0 .. MaxId
Diffs == [first : Ids, last : Ids]

-------------------------------------------------------------------------------
(* BidAskState's member initialisers; operator[] of state_map_ creates it so. *)
Init ==
  /\ needMakeSnapshot = TRUE
  /\ diffPacketLost = TRUE
  /\ needProcessCurrentSnapshot = FALSE
  /\ needProcessCurrentDiff = FALSE
  /\ lastIdDiffBookEvent = 0
  /\ snapshot = 0
  /\ tracked = FALSE /\ registered = FALSE
  /\ exchId = FirstId /\ stream = << >>
  /\ asked = 0 /\ answers = [i \in Ids |-> 0]
  /\ book = {} /\ late = FALSE

(* The constructor of BidAskGeneratorCallbackBatchHandler. *)
RegisterCallbacks ==
  /\ ~registered
  /\ registered' = TRUE
  /\ UNCHANGED <<pairState, snapshot, tracked, network, book, late>>

(* A pair that is tracked already is only logged.  The handlers are wired   *)
(* before the first BusEventRequestBBOPrice is sent, in every program.      *)
HandleTrackingNewTradingPair ==
  /\ registered
  /\ ~tracked
  /\ tracked' = TRUE     \* RequestSubscribeToDiff<true>: the stream is live
  /\ UNCHANGED <<pairState, snapshot, registered, network, book, late>>

(* The answer replaces the stored snapshot whatever the pair is doing. *)
HandleNewSnapshotEvent ==
  \E i \in Ids :
    /\ answers[i] > 0
    /\ answers' = [answers EXCEPT ![i] = @ - 1]
    /\ snapshot' = i
    /\ late' = (late \/ ~needMakeSnapshot)
    /\ UNCHANGED <<pairState, tracked, registered, exchId, stream, asked, book>>

-------------------------------------------------------------------------------
(* Mutants of the code, for the checks of the properties below. *)
OnlyBackwardJumpIsLoss(diff) == diff.first < lastIdDiffBookEvent + 1

AnyOlderSnapshotIsSync(diff) == diff.last >= snapshot + 1

SnapshotInsideDiff(diff) == diff.first <= snapshot /\ diff.last >= snapshot + 1

(* SpotPolicy *)
CheckPacketLoss(diff) == diff.first # lastIdDiffBookEvent + 1

SetLastProcessedDiffId(diff) == lastIdDiffBookEvent' = diff.last

SnapshotAndDiffNowSync(diff) ==
  /\ diff.first <= snapshot + 1
  /\ diff.last >= snapshot + 1

(* Spawned on the same strand: nothing is asked for a pair not tracked. *)
RequestNewSnapshot == asked' = IF tracked THEN asked + 1 ELSE asked

(* "[OUTDATED DIFF] ... Awaiting newer diff." *)
AwaitNewerDiff(diff, make, process) ==
  /\ diff.last <= snapshot
  /\ needMakeSnapshot' = make
  /\ needProcessCurrentSnapshot' = process
  /\ UNCHANGED <<needProcessCurrentDiff, asked, book, late>>

(* "[REQUESTING NEW SNAPSHOT]" *)
AskForSnapshot(diff, process) ==
  /\ diff.last > snapshot
  /\ needMakeSnapshot' = TRUE
  /\ needProcessCurrentSnapshot' = process
  /\ RequestNewSnapshot
  /\ UNCHANGED <<needProcessCurrentDiff, book, late>>

(* BidAskGeneratorCallbackBatchHandler: a snapshot replaces the consumer's  *)
(* book, a diff is applied on top of it.  Without callbacks nothing leaves. *)
Emit(diff, process) ==
  /\ needMakeSnapshot' = FALSE
  /\ needProcessCurrentSnapshot' = FALSE
  /\ needProcessCurrentDiff' = (needProcessCurrentDiff \/ process)
  /\ book' = IF ~registered THEN book
             ELSE (IF process THEN 1 .. snapshot ELSE book) \union
                  (IF needProcessCurrentDiff' THEN diff.first .. diff.last ELSE {})
  /\ late' = (late /\ ~process)
  /\ UNCHANGED asked

HandleBookDiffSnapshotEvent ==
  /\ stream # << >>
  /\ LET diff    == Head(stream)
         lost    == CheckPacketLoss(diff)
         sync    == needMakeSnapshot /\ SnapshotAndDiffNowSync(diff)
         make    == needMakeSnapshot /\ ~sync
         process == needProcessCurrentSnapshot \/ sync
     IN  /\ stream' = Tail(stream)
         /\ diffPacketLost' = lost
         /\ SetLastProcessedDiffId(diff)
         /\ \/ (make \/ lost) /\ AwaitNewerDiff(diff, make, process)
            \/ (make \/ lost) /\ AskForSnapshot(diff, process)
            \/ ~(make \/ lost) /\ Emit(diff, process)
  /\ UNCHANGED <<snapshot, tracked, registered, exchId, answers>>

(* AsyncStop: the subscription ends, the pair is forgotten.  Diffs and      *)
(* answers already in flight still arrive.                                  *)
HandleCancellation ==
  /\ needMakeSnapshot' = TRUE
  /\ diffPacketLost' = TRUE
  /\ needProcessCurrentSnapshot' = FALSE
  /\ needProcessCurrentDiff' = FALSE
  /\ lastIdDiffBookEvent' = 0
  /\ snapshot' = 0
  /\ tracked' = FALSE
  /\ UNCHANGED <<registered, network, book, late>>

-------------------------------------------------------------------------------
(* External: the exchange and the connections to it. *)
Publish ==
  \E n \in 1 .. MaxBatch :
    /\ exchId + n <= MaxId
    /\ exchId' = exchId + n
    /\ stream' = IF tracked
                 THEN Append(stream, [first |-> exchId + 1, last |-> exchId + n])
                 ELSE stream
    /\ UNCHANGED <<pairState, snapshot, tracked, registered, asked, answers,
                   book, late>>

LoseDiff ==
  /\ stream # << >>
  /\ stream' = Tail(stream)
  /\ UNCHANGED <<pairState, snapshot, tracked, registered, exchId, asked,
                 answers, book, late>>

AnswerSnapshot ==
  /\ asked > 0
  /\ asked' = asked - 1
  /\ answers' = [answers EXCEPT ![exchId] = @ + 1]
  /\ UNCHANGED <<pairState, snapshot, tracked, registered, exchId, stream,
                 book, late>>

(* Connection error, or a body the parser does not accept. *)
LoseRequest ==
  /\ asked > 0
  /\ asked' = asked - 1
  /\ UNCHANGED <<pairState, snapshot, tracked, registered, exchId, stream,
                 answers, book, late>>

Environment == Publish \/ LoseDiff \/ AnswerSnapshot \/ LoseRequest

Next ==
  \/ RegisterCallbacks
  \/ HandleTrackingNewTradingPair
  \/ HandleNewSnapshotEvent
  \/ HandleBookDiffSnapshotEvent
  \/ HandleCancellation
  \/ Environment

Spec == Init /\ [][Next]_vars

(* The same system when no snapshot answer is stored once the pair is       *)
(* synchronised: every request has been answered or lost by then.           *)
NextOnTime ==
  \/ RegisterCallbacks
  \/ HandleTrackingNewTradingPair
  \/ HandleNewSnapshotEvent /\ needMakeSnapshot
  \/ HandleBookDiffSnapshotEvent
  \/ HandleCancellation
  \/ Environment

SpecOnTime == Init /\ [][NextOnTime]_vars

-------------------------------------------------------------------------------
(* The types of the variables; a diff covers at least one update id. *)
TypeOK ==
  /\ needMakeSnapshot \in BOOLEAN
  /\ diffPacketLost \in BOOLEAN
  /\ needProcessCurrentSnapshot \in BOOLEAN
  /\ needProcessCurrentDiff \in BOOLEAN
  /\ lastIdDiffBookEvent \in Ids
  /\ snapshot \in Ids
  /\ tracked \in BOOLEAN
  /\ registered \in BOOLEAN
  /\ exchId \in Ids
  /\ stream \in Seq(Diffs)
  /\ asked \in Nat
  /\ answers \in [Ids -> Nat]
  /\ book \in SUBSET Ids
  /\ late \in BOOLEAN

(* The consumer's book is the exchange's book as of some update id: no      *)
(* update is missing in the middle.  HandleBookDiffSnapshotEvent's packet   *)
(* loss check and the snapshot it asks for are there to ensure this.        *)
Contiguous == \E n \in Ids : book = 1 .. n

(* As long as no snapshot answer was stored while the pair was synchronised *)
(* (HandleNewSnapshotEvent does not look), the feed has no gap, and while   *)
(* the generator thinks it is synchronised the book is exactly at the last  *)
(* diff it processed.                                                       *)
GapOnlyAfterLateSnapshot ==
  ~late => /\ Contiguous
           /\ ~needMakeSnapshot => book = 1 .. lastIdDiffBookEvent

(* A resynchronisation never takes the consumer back to an older book, in   *)
(* whatever order snapshot answers arrive and even after a gap or a restart *)
(* of the component: an old snapshot is emitted only with a diff that       *)
(* straddles it.                                                            *)
NeverRollsBack == [][book \subseteq book']_vars

(* Diffs arrive in the order of their ids, after everything processed and   *)
(* everything in the book.                                                  *)
StreamInOrder ==
  /\ \A i \in 1 .. Len(stream) :
       /\ stream[i].first <= stream[i].last
       /\ stream[i].last <= exchId
       /\ lastIdDiffBookEvent < stream[i].first
       /\ \A b \in book : b < stream[i].first
  /\ \A i, j \in 1 .. Len(stream) : i < j => stream[i].last < stream[j].first

(* Once a snapshot has been emitted diffs flow, and a stored snapshot that  *)
(* is not a late answer is older than the last diff processed.              *)
SyncState ==
  ~needMakeSnapshot =>
    /\ needProcessCurrentDiff
    /\ ~needProcessCurrentSnapshot
    /\ ~late => snapshot < lastIdDiffBookEvent

(* The inductive invariant behind the properties of the generator: what the *)
(* handlers rely on between two events of a pair.                           *)
GeneratorInv ==
  /\ StreamInOrder
  /\ SyncState
  /\ \A b \in book : 1 <= b /\ b <= exchId
  /\ lastIdDiffBookEvent <= exchId
  /\ tracked \/ stream # << >> => registered
  /\ GapOnlyAfterLateSnapshot

(* The feed promised to the order book (HandleBookDiffSnapshotEvent's       *)
(* emissions as seen by a consumer).                                        *)
Feed == INSTANCE BookFeed

(* The generator implements that promise: each of its steps leaves the      *)
(* consumer's book alone or takes it to a later state of the exchange.      *)
ImplementsFeed == Feed!FeedSpec

(* With answers at any time, the generator keeps the same promise in every   *)
(* step after which no late answer is waiting to be emitted: what            *)
(* HandleBookDiffSnapshotEvent emits while a late answer is stored is the    *)
(* only way for the consumer's book to leave the exchange's history, and     *)
(* emitting that answer brings it back.                                      *)
FeedUnlessLate == Feed!FeedInit /\ [][~late' => Feed!Advance]_book
===============================================================================
