--------------------------- MODULE BybitGenerator ---------------------------
(***************************************************************************)
(* The Bybit feed of one trading pair: the parser and the response handler *)
(* that turn websocket messages into events, and                           *)
(* bybit::BidAskGeneratorComponent, which joins snapshots and deltas and   *)
(* resubscribes when it misses a delta.                                    *)
(*                                                                         *)
(* A book is the set of the exchange's update ids it contains, a delta the *)
(* one id it brings, a snapshot the last id it contains.  Messages reach   *)
(* the generator's strand in the order the exchange sent them, and         *)
(* requests reach the exchange in the order they were made (WssFeed).      *)
(***************************************************************************)
EXTENDS Naturals, Sequences

CONSTANTS
  BybitFirstId,     \* the exchange's update id when the program starts
  BybitMaxId,       \* bound: last update id
  MaxLost,     \* bound: deltas that never arrive
  MaxOdd,      \* bound: messages that are no well-formed delta or snapshot
  MaxStops     \* bound: unsubscriptions and AsyncStop

VARIABLES
  state,       \* state_map_[pair]
  bTracked,     \* request_bbo_ contains the pair
  requests,    \* subscription requests on their way: TRUE to subscribe
  subscribed,  \* exchange: deltas are sent
  bExchId,      \* exchange: last update id
  bStream,      \* messages on their way
  reading,     \* ReadLoop of the session is alive
  lost, odd, stops,   \* counters for the bounds
  bBook,        \* consumer: update ids in its bBook
  lossy,       \* ghost: a delta was missed and no newer snapshot emitted since
  owed,        \* ghost: a new subscription is owed for it
  repeated     \* ghost: a snapshot came with the id of the one stored

world == <<subscribed, bExchId, lost, odd>>
bybitVars == <<state, bTracked, requests, world, stops, bStream, reading, bBook, lossy, owed,
          repeated>>

BybitIds == 0 .. BybitMaxId

\* What the update ids of an exchange are.
IdsAssumption == BybitFirstId \in Nat /\ BybitMaxId \in Nat /\ BybitFirstId <= BybitMaxId

-----------------------------------------------------------------------------

\* BidAskState; snapshot is its lastUpdateId.
BidAskState ==
  [needMake |-> TRUE, needSnapshot |-> FALSE, needDiff |-> FALSE,
   last |-> 0, snapshot |-> 0]

BybitInit ==
  /\ state = BidAskState /\ bTracked = FALSE
  /\ requests = << >> /\ subscribed = FALSE /\ bExchId = BybitFirstId
  /\ bStream = << >> /\ reading = TRUE /\ lost = 0 /\ odd = 0
  /\ stops = 0
  /\ bBook = {} /\ lossy = FALSE /\ owed = FALSE /\ repeated = FALSE

-----------------------------------------------------------------------------
\* Messages.  bad stands for a missing field or a pair that is not configured.

Delta(i)    == [type |-> "delta", id |-> i, bad |-> FALSE]
Snapshot(i) == [type |-> "snapshot", id |-> i, bad |-> FALSE]
Api         == [type |-> "api", id |-> 0, bad |-> FALSE]

Odd == {[type |-> "delta", id |-> 0, bad |-> TRUE],
        [type |-> "snapshot", id |-> 0, bad |-> TRUE],
        [type |-> "other", id |-> 0, bad |-> FALSE]}

\* ParserManager::DetermineType; what has no handler gives the first alternative
\* of ParsedData, a default BookDiffSnapshot.
DetermineType(m) == IF m.type = "other" THEN "delta" ELSE m.type

\* FamilyBookEventGetter::ParserResponse::Parse gives {} for a bad message, a
\* default BookSnapshot: std::get of a BookDiffSnapshot throws.
Throws(m) == m.type = "delta" /\ m.bad

\* Only what was parsed completely carries exchange_id = kBybit.
FromBybit(m) == m.type \in {"delta", "snapshot"} /\ ~m.bad

-----------------------------------------------------------------------------
\* The generator's handlers, on its strand.

\* RequestSubscribeToDiff<subscribe>, for each element of the sequence.
RequestSubscribe(kinds) ==
  requests' = IF bTracked THEN requests \o kinds ELSE requests

\* A pair that is tracked already is only logged; the request is sent anyway.
\* Bound: the program asks when no request is on its way, for a change.
BybitHandleTrackingNewTradingPair ==
  /\ requests = << >>
  /\ requests' = <<~subscribed>>
  /\ subscribed => stops < MaxStops
  /\ stops' = IF subscribed THEN stops + 1 ELSE stops
  /\ bTracked' = TRUE
  /\ owed' = (owed /\ ~subscribed)
  /\ UNCHANGED <<state, world, bStream, reading, bBook, lossy, repeated>>

\* Mutant of HandleNewSnapshotEvent: last_id_diff_book_event keeps its value.
SnapshotKeepsLastId(i) ==
  IF i = state.snapshot THEN [state EXCEPT !.needSnapshot = FALSE]
    ELSE [state EXCEPT !.needSnapshot = TRUE, !.snapshot = i]

BybitHandleNewSnapshotEvent(i) ==
  IF i = state.snapshot THEN [state EXCEPT !.needSnapshot = FALSE]
    ELSE [state EXCEPT !.needSnapshot = TRUE, !.snapshot = i, !.last = i]

\* Mutant of PacketLost: no delta is missed.
NeverLost(i) == FALSE

PacketLost(i) == i # state.last + 1

\* Mutant of Resubscribe: the two coroutines run in the other order.
SubscribeFirst == RequestSubscribe(<<TRUE, FALSE>>)

\* Unsubscribe, and subscribe again for a new snapshot.
Resubscribe == RequestSubscribe(<<FALSE, TRUE>>)

\* A delta that does not follow: nothing is emitted.
HandleLoss(i) ==
  /\ PacketLost(i)
  /\ state' = [state EXCEPT !.last = i]
  /\ Resubscribe
  /\ lossy' = TRUE /\ owed' = (owed \/ bTracked)
  /\ UNCHANGED bBook

\* Mutant of HandleNext: need_process_current_snapshot is not reset.
HandleNextKeepsFlag(i) ==
  LET process == state.needSnapshot \/ (state.needMake /\ i = state.snapshot + 1)
  IN /\ ~PacketLost(i)
     /\ state' = [state EXCEPT !.last = i, !.needMake = FALSE,
                               !.needSnapshot = process, !.needDiff = TRUE]
     /\ bBook' = (IF process THEN 1 .. state.snapshot ELSE bBook) \cup {i}
     /\ UNCHANGED <<requests, lossy, owed>>

\* The snapshot callback replaces the consumer's book, the diff callback adds to
\* it.  need_process_current_diff is never taken back.
HandleNext(i) ==
  LET sync    == state.needMake /\ i = state.snapshot + 1
      process == state.needSnapshot \/ sync
      diff    == state.needDiff \/ process
  IN /\ ~PacketLost(i)
     /\ state' = [state EXCEPT !.last = i, !.needMake = @ /\ ~sync,
                               !.needSnapshot = FALSE, !.needDiff = diff]
     /\ bBook' = (IF process THEN 1 .. state.snapshot ELSE bBook)
                  \cup (IF diff THEN {i} ELSE {})
     /\ lossy' = (lossy /\ ~(process /\ i = state.snapshot + 1))
     /\ owed' = (owed /\ lossy')
     /\ UNCHANGED requests

BybitHandleBookDiffSnapshotEvent(i) == HandleLoss(i) \/ HandleNext(i)

\* OrderBookWebSocketResponseHandler::HandleResponse and the event it sends.
HandleResponse ==
  /\ bStream # << >> /\ reading
  /\ LET m == Head(bStream)
     IN /\ bStream' = Tail(bStream)
        /\ reading' = ~Throws(m)
        /\ repeated' = (repeated \/ m = Snapshot(state.snapshot))
        /\ IF FromBybit(m) /\ DetermineType(m) = "delta"
             THEN BybitHandleBookDiffSnapshotEvent(m.id)
             ELSE /\ state' = IF FromBybit(m) THEN BybitHandleNewSnapshotEvent(m.id)
                                ELSE state
                  /\ UNCHANGED <<requests, bBook, lossy, owed>>
  /\ UNCHANGED <<bTracked, world, stops>>

\* AsyncStop: the websocket session is closed, with or without the requests on
\* their way, and the pair is forgotten.
BybitHandleCancellation ==
  /\ bTracked /\ stops < MaxStops
  /\ stops' = stops + 1
  /\ state' = BidAskState /\ bTracked' = FALSE
  /\ subscribed' = FALSE /\ owed' = FALSE
  /\ requests' \in {requests, << >>}
  /\ UNCHANGED <<bExchId, bStream, reading, lost, odd, bBook, lossy, repeated>>

-----------------------------------------------------------------------------
\* External: the exchange.

BybitPublish ==
  /\ bExchId < BybitMaxId
  /\ bExchId' = bExchId + 1
  /\ \/ /\ bStream' = IF subscribed THEN Append(bStream, Delta(bExchId + 1)) ELSE bStream
        /\ UNCHANGED lost
     \/ subscribed /\ lost < MaxLost /\ lost' = lost + 1 /\ UNCHANGED bStream
  /\ UNCHANGED <<state, stops, bTracked, requests, subscribed, odd, reading,
                 bBook, lossy, owed, repeated>>

\* A subscription starts with a snapshot; subscribing twice is an error.
Answer ==
  /\ requests # << >>
  /\ requests' = Tail(requests)
  /\ subscribed' = Head(requests)
  /\ bStream' = bStream \o (IF Head(requests) /\ ~subscribed
                            THEN <<Api, Snapshot(bExchId)>> ELSE <<Api>>)
  /\ UNCHANGED <<state, stops, bTracked, bExchId, lost, odd, reading, bBook,
                 lossy, owed, repeated>>

SendOdd ==
  /\ odd < MaxOdd /\ subscribed
  /\ odd' = odd + 1
  /\ \E m \in Odd : bStream' = Append(bStream, m)
  /\ UNCHANGED <<state, stops, bTracked, requests, subscribed, bExchId, lost,
                 reading, bBook, lossy, owed, repeated>>

BybitNext ==
  \/ BybitHandleTrackingNewTradingPair \/ HandleResponse \/ BybitHandleCancellation
  \/ BybitPublish \/ Answer \/ SendOdd

BybitSpec == BybitInit /\ [][BybitNext]_bybitVars

\* The sessions carry requests and messages, and the strand runs.  Nothing makes
\* the exchange publish.
BybitFairness == WF_bybitVars(HandleResponse) /\ WF_bybitVars(Answer)

BybitFairSpec == BybitSpec /\ BybitFairness

-----------------------------------------------------------------------------

\* The types of the variables.
BybitTypeOK ==
  /\ state.last \in BybitIds /\ state.snapshot \in BybitIds
  /\ requests \in Seq(BOOLEAN)
  /\ bExchId \in BybitIds /\ bBook \subseteq BybitIds
  /\ \A k \in DOMAIN bStream : bStream[k].id <= bExchId

BybitContiguous == \E n \in BybitIds : bBook = 1 .. n

\* The consumer's book has a gap only from the delta after a missed one to the
\* snapshot of the new subscription; outside that time it is exactly at the
\* last delta handled.  The generator goes on emitting deltas in between.
GapOnlyAfterLoss ==
  ~lossy /\ ~repeated =>
    /\ BybitContiguous
    /\ state.needDiff /\ ~state.needSnapshot => bBook = 1 .. state.last

\* A missed delta is never forgotten: until the book is whole again there is a
\* subscription on its way, its snapshot is on its way, or it has arrived and
\* waits for the next delta.
LossIsPursued ==
  owed /\ reading /\ ~repeated =>
    \/ \E k \in DOMAIN requests : requests[k]
    \/ \E k \in DOMAIN bStream : bStream[k].type = "snapshot"
    \/ state.needSnapshot

\* Both, in a state of its types.
BybitLossIsKnown == BybitTypeOK /\ GapOnlyAfterLoss /\ LossIsPursued

\* ... so the book becomes whole again with the first delta that follows the
\* snapshot of a new subscription.
BybitLossIsRepaired ==
  owed ~> \/ ~owed \/ ~reading \/ repeated
          \/ state.needSnapshot /\ state.last = state.snapshot

\* What the consumer has without a gap, from the first update on.
Whole == {n \in bBook : 1 .. n \subseteq bBook}

\* The promise of the feed, for the part of the consumer's book without a gap.
BybitFeed == INSTANCE BookFeed WITH MaxId <- BybitMaxId, book <- Whole

\* That part only moves forward to later states of the exchange's book: no
\* snapshot emitted late and no restart takes the consumer back.
BybitImplementsFeed == BybitFeed!FeedSpec

=============================================================================
