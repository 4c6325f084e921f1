------------------------ MODULE BidAskGenerator_proofs ------------------------
(***************************************************************************)
(* Proofs about the bid/ask generator and about how soon it is synchronised *)
(* again, for every FirstId, MaxId and MaxBatch; and, in the second half,   *)
(* about the feed of Bybit.                                                 *)
(***************************************************************************)
EXTENDS BidAskResync, BybitGenerator, Integers, TLAPS

-------------------------------------------------------------------------------
(* What taking the first diff off the stream leaves.                        *)
LEMMA HeadTailFacts ==
  ASSUME NEW S, NEW s \in Seq(S), s # << >>
  PROVE  /\ Head(s) \in S
         /\ Head(s) = s[1]
         /\ 1 \in 1 .. Len(s)
         /\ Tail(s) \in Seq(S)
         /\ Len(Tail(s)) = Len(s) - 1
         /\ \A i \in 1 .. Len(Tail(s)) : Tail(s)[i] = s[i + 1] /\ i + 1 \in 1 .. Len(s)
<1>1. Len(s) \in Nat /\ Len(s) > 0
  OBVIOUS
<1>2. Head(s) = s[1] /\ s[1] \in S /\ 1 \in 1 .. Len(s)
  BY <1>1
<1>3. Tail(s) \in Seq(S) /\ Len(Tail(s)) = Len(s) - 1
  OBVIOUS
<1>4. ASSUME NEW i \in 1 .. Len(Tail(s))
      PROVE  Tail(s)[i] = s[i + 1] /\ i + 1 \in 1 .. Len(s)
  BY <1>1, <1>3
<1> QED
  BY <1>2, <1>3, <1>4, Zenon

(* What publishing a diff makes of the stream.                              *)
LEMMA AppendFacts ==
  ASSUME NEW S, NEW s \in Seq(S), NEW e \in S
  PROVE  /\ Len(s) \in Nat
         /\ Len(Append(s, e)) = Len(s) + 1
         /\ Append(s, e)[Len(s) + 1] = e
         /\ \A i \in 1 .. Len(s) : Append(s, e)[i] = s[i]
OBVIOUS

(* The ids of a diff, of the exchange and of the pair are numbers.          *)
LEMMA IdsAreNat ==
  /\ \A i \in Ids : i \in Nat
  /\ \A d \in Diffs : d.first \in Nat /\ d.last \in Nat
<1>1. \A i \in Ids : i \in Nat
  BY ConstantsAssumption DEF Ids
<1>2. \A d \in Diffs : d.first \in Ids /\ d.last \in Ids
  BY Zenon DEF Diffs
<1> QED
  BY <1>1, <1>2, Zenon

(* The diffs on the stream are diffs.                                       *)
LEMMA StreamElements ==
  ASSUME TypeOK
  PROVE  \A i \in 1 .. Len(stream) :
           stream[i] \in Diffs /\ stream[i].first \in Nat /\ stream[i].last \in Nat
<1>1. \A i \in 1 .. Len(stream) : stream[i] \in Diffs
  BY DEF TypeOK
<1> QED
  BY <1>1, IdsAreNat, Zenon

(* Every handler and every step of the exchange keeps the variables typed.  *)
LEMMA TypeStep == TypeOK /\ [Next]_vars => TypeOK'
<1> SUFFICES ASSUME TypeOK, [Next]_vars PROVE TypeOK'
  OBVIOUS
<1> USE ConstantsAssumption DEF TypeOK, Ids, Diffs
<1>1. CASE RegisterCallbacks
  BY <1>1, Zenon DEF RegisterCallbacks, pairState, network
<1>2. CASE HandleTrackingNewTradingPair
  BY <1>2, Zenon DEF HandleTrackingNewTradingPair, pairState, network
<1>3. CASE HandleNewSnapshotEvent
  <2>1. answers \in [Ids -> Nat]
    OBVIOUS
  <2> HIDE ConstantsAssumption DEF TypeOK, Ids, Diffs
  <2>2. PICK i \in Ids :
          /\ answers[i] > 0 /\ answers' = [answers EXCEPT ![i] = @ - 1]
          /\ snapshot' = i /\ late' = (late \/ ~needMakeSnapshot)
          /\ UNCHANGED <<pairState, tracked, registered, exchId, stream, asked, book>>
    BY <1>3, Zenon DEF HandleNewSnapshotEvent
  <2>3. answers' \in [Ids -> Nat]
    BY <2>1, <2>2
  <2>4. late' \in BOOLEAN
    BY <2>2, Zenon
  <2> QED
    BY <2>2, <2>3, <2>4, Zenon DEF TypeOK, pairState
<1>4. CASE HandleBookDiffSnapshotEvent
  <2> DEFINE diff == Head(stream)
             sync == needMakeSnapshot /\ SnapshotAndDiffNowSync(diff)
             make == needMakeSnapshot /\ ~sync
             process == needProcessCurrentSnapshot \/ sync
  <2>1. /\ diff \in [first : 0 .. MaxId, last : 0 .. MaxId]
        /\ stream' \in Seq([first : 0 .. MaxId, last : 0 .. MaxId])
    BY <1>4, HeadTailFacts, Zenon DEF HandleBookDiffSnapshotEvent
  <2>2. /\ lastIdDiffBookEvent' = diff.last
        /\ diffPacketLost' \in BOOLEAN
        /\ UNCHANGED <<snapshot, tracked, registered, exchId, answers>>
    BY <1>4, Zenon DEF HandleBookDiffSnapshotEvent, SetLastProcessedDiffId, CheckPacketLoss
  <2>3. \/ AwaitNewerDiff(diff, make, process)
        \/ AskForSnapshot(diff, process)
        \/ Emit(diff, process)
    BY <1>4, Zenon DEF HandleBookDiffSnapshotEvent
  <2>4. make \in BOOLEAN /\ process \in BOOLEAN
    OBVIOUS
  <2> HIDE DEF diff, sync, make, process
  <2>5. /\ needMakeSnapshot' \in BOOLEAN
        /\ needProcessCurrentSnapshot' \in BOOLEAN
        /\ needProcessCurrentDiff' \in BOOLEAN
        /\ late' \in BOOLEAN
    BY <2>3, <2>4, Zenon DEF AwaitNewerDiff, AskForSnapshot, Emit
  <2>6. asked' \in Nat
    BY <2>3 DEF AwaitNewerDiff, AskForSnapshot, RequestNewSnapshot, Emit
  <2>7. book' \in SUBSET (0 .. MaxId)
    <3>1. CASE book' = book
      BY <3>1, Zenon
    <3>2. CASE Emit(diff, process) /\ registered
      <4>1. \A a \in Nat, b \in 0 .. MaxId : a .. b \subseteq 0 .. MaxId
        OBVIOUS
      <4>2. diff.first \in Nat /\ 1 \in Nat
        BY <2>1
      <4>3. /\ diff.first .. diff.last \subseteq 0 .. MaxId
            /\ 1 .. snapshot \subseteq 0 .. MaxId
        BY <2>1, <4>1, <4>2, Zenon
      <4>4. book' \subseteq (1 .. snapshot) \union book \union (diff.first .. diff.last)
        BY <3>2, Zenon DEF Emit
      <4> QED
        BY <4>3, <4>4, Zenon
    <3> QED
      BY <2>3, <3>1, <3>2, Zenon DEF AwaitNewerDiff, AskForSnapshot, Emit
  <2> QED
    BY <2>1, <2>2, <2>5, <2>6, <2>7, Zenon
<1>5. CASE HandleCancellation
  <2>1. /\ needMakeSnapshot' \in BOOLEAN
        /\ diffPacketLost' \in BOOLEAN
        /\ needProcessCurrentSnapshot' \in BOOLEAN
        /\ needProcessCurrentDiff' \in BOOLEAN
        /\ tracked' \in BOOLEAN
    BY <1>5, Zenon DEF HandleCancellation
  <2>2. lastIdDiffBookEvent' \in 0 .. MaxId /\ snapshot' \in 0 .. MaxId
    BY <1>5 DEF HandleCancellation
  <2> QED
    BY <1>5, <2>1, <2>2, Zenon DEF HandleCancellation, network
<1>6. CASE Publish
  <2>1. PICK n \in 1 .. MaxBatch :
          /\ exchId + n <= MaxId
          /\ exchId' = exchId + n
          /\ stream' = IF tracked
               THEN Append(stream, [first |-> exchId + 1, last |-> exchId + n])
               ELSE stream
    BY <1>6, Zenon DEF Publish
  <2>2. exchId' \in 0 .. MaxId /\ exchId + 1 \in 0 .. MaxId
    BY <2>1
  <2>3. [first |-> exchId + 1, last |-> exchId + n] \in
          [first : 0 .. MaxId, last : 0 .. MaxId]
    BY <2>1, <2>2, Zenon
  <2>4. stream' \in Seq([first : 0 .. MaxId, last : 0 .. MaxId])
    <3>1. Append(stream, [first |-> exchId + 1, last |-> exchId + n])
            \in Seq([first : 0 .. MaxId, last : 0 .. MaxId])
      BY <2>3
    <3> QED
      BY <2>1, <3>1, Zenon
  <2> QED
    BY <1>6, <2>2, <2>4, Zenon DEF Publish, pairState
<1>7. CASE LoseDiff
  BY <1>7 DEF LoseDiff, pairState
<1>8. CASE AnswerSnapshot
  BY <1>8 DEF AnswerSnapshot, pairState
<1>9. CASE LoseRequest
  BY <1>9 DEF LoseRequest, pairState
<1>10. CASE UNCHANGED vars
  BY <1>10, Zenon DEF vars, pairState, network
<1> QED
  BY <1>1, <1>2, <1>3, <1>4, <1>5, <1>6, <1>7, <1>8, <1>9, <1>10, Zenon
     DEF Next, Environment

(* Type correctness of the generator.                                       *)
THEOREM TypeCorrect == Spec => []TypeOK
<1>1. Init => TypeOK
  <2> SUFFICES ASSUME Init PROVE TypeOK
    OBVIOUS
  <2>1. /\ needMakeSnapshot \in BOOLEAN
        /\ diffPacketLost \in BOOLEAN
        /\ needProcessCurrentSnapshot \in BOOLEAN
        /\ needProcessCurrentDiff \in BOOLEAN
        /\ tracked \in BOOLEAN
        /\ registered \in BOOLEAN
        /\ late \in BOOLEAN
    BY Zenon DEF Init
  <2>2. lastIdDiffBookEvent \in Ids /\ snapshot \in Ids /\ exchId \in Ids
    BY ConstantsAssumption DEF Init, Ids
  <2>3. stream \in Seq(Diffs) /\ asked \in Nat /\ answers \in [Ids -> Nat]
    BY DEF Init
  <2> QED
    BY <2>1, <2>2, <2>3, Zenon DEF TypeOK, Init
<1> QED
  BY <1>1, TypeStep, PTL DEF Spec
-------------------------------------------------------------------------------
(* A step that leaves the pair's state, the book and the stream alone keeps *)
(* the invariant if the exchange only advances.                             *)
LEMMA QuietStep ==
  ASSUME TypeOK, TypeOK', GeneratorInv,
         UNCHANGED <<pairState, snapshot, stream, book, late>>,
         exchId <= exchId',
         registered => registered', tracked' => tracked \/ registered'
  PROVE  GeneratorInv'
<1>1. StreamInOrder'
  <2>1. exchId \in Nat /\ exchId' \in Nat
    BY IdsAreNat, Zenon DEF TypeOK
  <2>2. \A i \in 1 .. Len(stream) : stream[i].last \in Nat
    BY StreamElements, Zenon
  <2> QED
    BY <2>1, <2>2 DEF GeneratorInv, StreamInOrder, pairState
<1>2. SyncState'
  BY Zenon DEF GeneratorInv, SyncState, pairState
<1>3. GapOnlyAfterLateSnapshot'
  BY Zenon DEF GeneratorInv, GapOnlyAfterLateSnapshot, Contiguous, pairState
<1>4. (\A b \in book : 1 <= b /\ b <= exchId)' /\ (lastIdDiffBookEvent <= exchId)'
  BY DEF GeneratorInv, TypeOK, Ids, pairState
<1> QED
  BY <1>1, <1>2, <1>3, <1>4, Zenon DEF GeneratorInv

(* Taking the first diff off the stream, processed or lost, keeps the rest  *)
(* in order.                                                                *)
LEMMA TailInOrder ==
  ASSUME TypeOK, TypeOK', GeneratorInv, stream # << >>,
         stream' = Tail(stream), exchId' = exchId,
         lastIdDiffBookEvent' \in {lastIdDiffBookEvent, Head(stream).last},
         \A b \in book' : b \in book \/ b <= Head(stream).last
  PROVE  StreamInOrder'
<1> DEFINE d == Head(stream)
<1>1. /\ d \in Diffs
      /\ d = stream[1]
      /\ 1 \in 1 .. Len(stream)
      /\ \A i \in 1 .. Len(stream') : stream'[i] = stream[i + 1] /\ i + 1 \in 1 .. Len(stream)
  BY HeadTailFacts, Zenon DEF TypeOK
<1>2. \A i \in 1 .. Len(stream') : d.last < stream'[i].first
  <2>1. \A j \in 1 .. Len(stream) : 1 < j => d.last < stream[j].first
    BY <1>1, Zenon DEF GeneratorInv, StreamInOrder
  <2>2. \A i \in 1 .. Len(stream') : 1 < i + 1
    OBVIOUS
  <2> QED
    BY <1>1, <2>1, <2>2, Zenon
<1>3. \A i, j \in 1 .. Len(stream') : i < j => stream'[i].last < stream'[j].first
  BY <1>1 DEF GeneratorInv, StreamInOrder
<1>4. ASSUME NEW i \in 1 .. Len(stream')
      PROVE  /\ stream'[i].first <= stream'[i].last
             /\ stream'[i].last <= exchId'
             /\ lastIdDiffBookEvent' < stream'[i].first
             /\ \A b \in book' : b < stream'[i].first
  <2>1. stream'[i] \in Diffs
    BY DEF TypeOK
  <2>2. stream'[i].first <= stream'[i].last /\ stream'[i].last <= exchId'
    BY <1>1, Zenon DEF GeneratorInv, StreamInOrder
  <2>3. lastIdDiffBookEvent' < stream'[i].first
    BY <1>1, <1>2, Zenon DEF GeneratorInv, StreamInOrder
  <2>4. \A b \in book' : b < stream'[i].first
    <3> TAKE b \in book'
    <3>1. b \in Nat /\ d.last \in Nat /\ stream'[i].first \in Nat
      BY <1>1, <2>1, IdsAreNat, Zenon DEF TypeOK
    <3>2. CASE b \in book
      BY <1>1, <3>2, Zenon DEF GeneratorInv, StreamInOrder
    <3>3. CASE b <= d.last
      BY <1>2, <3>1, <3>3
    <3> QED
      BY <3>2, <3>3, Zenon
  <2> QED
    BY <2>2, <2>3, <2>4, Zenon
<1> QED
  BY <1>3, <1>4, Zenon DEF StreamInOrder
-------------------------------------------------------------------------------
(* What the diff handler does to the book: it leaves it alone, appends the  *)
(* diff that follows the last one, or replaces it by the snapshot and the   *)
(* diff that straddles it, which is the book as of the diff's last id.      *)
LEMMA DiffStep ==
  ASSUME TypeOK, TypeOK', GeneratorInv, HandleBookDiffSnapshotEvent
  PROVE  GeneratorInv' /\ book \subseteq book'
<1> DEFINE diff == Head(stream)
           missed == CheckPacketLoss(diff)
           sync == needMakeSnapshot /\ SnapshotAndDiffNowSync(diff)
           make == needMakeSnapshot /\ ~sync
           process == needProcessCurrentSnapshot \/ sync
<1>1. /\ stream # << >>
      /\ stream' = Tail(stream)
      /\ lastIdDiffBookEvent' = diff.last
      /\ UNCHANGED <<snapshot, tracked, registered, exchId, answers>>
  BY Zenon DEF HandleBookDiffSnapshotEvent, SetLastProcessedDiffId
<1>2. /\ diff \in Diffs
      /\ diff.first <= diff.last
      /\ diff.last <= exchId
      /\ lastIdDiffBookEvent < diff.first
      /\ \A b \in book : b < diff.first
  BY <1>1, HeadTailFacts, Zenon DEF TypeOK, GeneratorInv, StreamInOrder
<1>3. /\ diff.first \in Nat /\ diff.last \in Nat /\ snapshot \in Nat
      /\ lastIdDiffBookEvent \in Nat /\ exchId \in Nat
      /\ \A b \in book : b \in Nat /\ 1 <= b
  BY <1>2, IdsAreNat, Zenon DEF TypeOK, GeneratorInv
<1>4. registered /\ registered'
  BY <1>1, Zenon DEF GeneratorInv
<1> HIDE DEF diff
<1>5. CASE (make \/ missed) /\ AwaitNewerDiff(diff, make, process)
  <2>1. book' = book /\ late' = late /\ diff.last <= snapshot
    BY <1>5, Zenon DEF AwaitNewerDiff
  <2>2. ~sync
    BY <1>3, <2>1 DEF SnapshotAndDiffNowSync
  <2>3. needMakeSnapshot' = needMakeSnapshot
    BY <1>5, <2>2, Zenon DEF AwaitNewerDiff, TypeOK
  <2>4. needMakeSnapshot \/ late
    BY <1>2, <1>3, <2>1 DEF GeneratorInv, SyncState
  <2>5. StreamInOrder'
    BY <1>1, <2>1, TailInOrder, Zenon DEF diff
  <2>6. SyncState'
    <3>1. needProcessCurrentDiff' = needProcessCurrentDiff
      BY <1>5, Zenon DEF AwaitNewerDiff
    <3>2. needProcessCurrentSnapshot' = process
      BY <1>5, Zenon DEF AwaitNewerDiff
    <3> QED
      BY <2>1, <2>2, <2>3, <2>4, <3>1, <3>2, Zenon DEF GeneratorInv, SyncState
  <2>7. GapOnlyAfterLateSnapshot'
    BY <2>1, <2>3, <2>4, Zenon DEF GeneratorInv, GapOnlyAfterLateSnapshot, Contiguous
  <2> QED
    BY <1>1, <1>2, <1>4, <2>1, <2>5, <2>6, <2>7, Zenon DEF GeneratorInv
<1>6. CASE (make \/ missed) /\ AskForSnapshot(diff, process)
  <2>1. book' = book /\ late' = late /\ needMakeSnapshot'
    BY <1>6, Zenon DEF AskForSnapshot
  <2>2. StreamInOrder'
    BY <1>1, <2>1, TailInOrder, Zenon DEF diff
  <2>3. SyncState'
    BY <2>1, Zenon DEF SyncState
  <2>4. GapOnlyAfterLateSnapshot'
    BY <2>1, Zenon DEF GeneratorInv, GapOnlyAfterLateSnapshot, Contiguous
  <2> QED
    BY <1>1, <1>2, <1>4, <2>1, <2>2, <2>3, <2>4, Zenon DEF GeneratorInv
<1>7. CASE ~(make \/ missed) /\ Emit(diff, process)
  <2>1. /\ diff.first = lastIdDiffBookEvent + 1
        /\ needMakeSnapshot => SnapshotAndDiffNowSync(diff)
    BY <1>7, Zenon DEF CheckPacketLoss
  <2>2. process <=> needMakeSnapshot
    BY <1>7, <2>1, Zenon DEF GeneratorInv, SyncState
  <2>3. ~needMakeSnapshot' /\ ~needProcessCurrentSnapshot' /\ needProcessCurrentDiff'
    BY <1>7, <2>2, Zenon DEF Emit, GeneratorInv, SyncState
  <2>4. CASE needMakeSnapshot
    <3>1. book' = (1 .. snapshot) \union (diff.first .. diff.last) /\ ~late'
      BY <1>4, <1>7, <2>2, <2>3, <2>4, Zenon DEF Emit
    <3>2. diff.first <= snapshot + 1 /\ snapshot + 1 <= diff.last
      BY <1>3, <2>1, <2>4, Zenon DEF SnapshotAndDiffNowSync
    <3>3. book' = 1 .. diff.last
      BY <1>3, <2>1, <3>1, <3>2
    <3>4. \A b \in book : b \in 1 .. diff.last
      BY <1>2, <1>3
    <3>5. StreamInOrder'
      BY <1>1, <1>3, <3>3, TailInOrder DEF diff
    <3>6. SyncState'
      BY <1>1, <1>3, <2>3, <3>2 DEF SyncState
    <3>7. GapOnlyAfterLateSnapshot'
      BY <1>1, <1>2, <3>3, Zenon DEF GapOnlyAfterLateSnapshot, Contiguous, Diffs
    <3>8. (\A b \in book : 1 <= b /\ b <= exchId)'
      BY <1>1, <1>2, <1>3, <3>3
    <3> QED
      BY <1>1, <1>2, <1>4, <3>3, <3>4, <3>5, <3>6, <3>7, <3>8, Zenon DEF GeneratorInv
  <2>5. CASE ~needMakeSnapshot
    <3>1. book' = book \union (diff.first .. diff.last) /\ (late' <=> late)
      BY <1>4, <1>7, <2>2, <2>3, <2>5, Zenon DEF Emit
    <3>2. StreamInOrder'
      BY <1>1, <1>3, <3>1, TailInOrder DEF diff
    <3>3. SyncState'
      BY <1>1, <1>2, <1>3, <2>3, <2>5, <3>1 DEF GeneratorInv, SyncState
    <3>4. ASSUME ~late' PROVE book' = 1 .. diff.last
      <4>1. book = 1 .. lastIdDiffBookEvent
        BY <2>5, <3>1, <3>4, Zenon DEF GeneratorInv, GapOnlyAfterLateSnapshot
      <4> QED
        BY <1>2, <1>3, <2>1, <3>1, <4>1
    <3>5. GapOnlyAfterLateSnapshot'
      BY <1>1, <1>2, <3>4, Zenon DEF GapOnlyAfterLateSnapshot, Contiguous, Diffs
    <3>6. (\A b \in book : 1 <= b /\ b <= exchId)'
      BY <1>1, <1>2, <1>3, <2>1, <3>1 DEF GeneratorInv
    <3> QED
      BY <1>1, <1>2, <1>4, <3>1, <3>2, <3>3, <3>5, <3>6, Zenon DEF GeneratorInv
  <2> QED
    BY <2>4, <2>5, Zenon
<1> QED
  BY <1>5, <1>6, <1>7, Zenon DEF HandleBookDiffSnapshotEvent, diff
-------------------------------------------------------------------------------
(* Every step keeps the invariant and never takes an update id out of the   *)
(* consumer's book.                                                         *)
LEMMA GeneratorStep ==
  ASSUME TypeOK, TypeOK', GeneratorInv, [Next]_vars
  PROVE  GeneratorInv' /\ book \subseteq book'
<1>0. exchId \in Nat
  BY IdsAreNat, Zenon DEF TypeOK
<1>1. CASE RegisterCallbacks
  BY <1>0, <1>1, QuietStep DEF RegisterCallbacks, network
<1>2. CASE HandleTrackingNewTradingPair
  BY <1>0, <1>2, QuietStep DEF HandleTrackingNewTradingPair, network
<1>3. CASE HandleNewSnapshotEvent
  <2>1. /\ UNCHANGED <<pairState, tracked, registered, exchId, stream, asked, book>>
        /\ late' = (late \/ ~needMakeSnapshot)
    BY <1>3, Zenon DEF HandleNewSnapshotEvent
  <2>2. StreamInOrder'
    BY <2>1, Zenon DEF GeneratorInv, StreamInOrder, pairState
  <2>3. SyncState'
    BY <2>1, Zenon DEF GeneratorInv, SyncState, pairState
  <2>4. GapOnlyAfterLateSnapshot'
    BY <2>1, Zenon DEF GeneratorInv, GapOnlyAfterLateSnapshot, Contiguous, pairState
  <2> QED
    BY <2>1, <2>2, <2>3, <2>4, Zenon DEF GeneratorInv, pairState
<1>4. CASE HandleBookDiffSnapshotEvent
  BY <1>4, DiffStep, Zenon
<1>5. CASE HandleCancellation
  <2>1. /\ UNCHANGED <<registered, network, book, late>>
        /\ lastIdDiffBookEvent' = 0
        /\ needMakeSnapshot' /\ ~tracked'
    BY <1>5, Zenon DEF HandleCancellation
  <2>2. StreamInOrder'
    <3>1. \A i \in 1 .. Len(stream) : 0 < stream[i].first
      <4> TAKE i \in 1 .. Len(stream)
      <4>1. stream[i].first \in Nat /\ lastIdDiffBookEvent \in Nat
        BY StreamElements, IdsAreNat, Zenon DEF TypeOK
      <4> QED
        BY <4>1 DEF GeneratorInv, StreamInOrder
    <3> QED
      BY <2>1, <3>1, Zenon DEF GeneratorInv, StreamInOrder, network
  <2>3. SyncState' /\ GapOnlyAfterLateSnapshot'
    BY <2>1, Zenon DEF GeneratorInv, SyncState, GapOnlyAfterLateSnapshot, Contiguous
  <2> QED
    BY <1>0, <2>1, <2>2, <2>3 DEF GeneratorInv, network
<1>6. CASE Publish
  <2>1. PICK n \in 1 .. MaxBatch :
          /\ exchId + n <= MaxId
          /\ exchId' = exchId + n
          /\ stream' = IF tracked
               THEN Append(stream, [first |-> exchId + 1, last |-> exchId + n])
               ELSE stream
    BY <1>6, Zenon DEF Publish
  <2>2. UNCHANGED <<pairState, snapshot, tracked, registered, book, late>>
    BY <1>6, Zenon DEF Publish
  <2>3. n \in Nat /\ n >= 1 /\ exchId < exchId'
    BY <1>0, <2>1, ConstantsAssumption
  <2>4. CASE ~tracked
    BY <1>0, <2>1, <2>2, <2>3, <2>4, QuietStep
  <2>5. CASE tracked
    <3> DEFINE d == [first |-> exchId + 1, last |-> exchId + n]
    <3>1. /\ Len(stream') = Len(stream) + 1
          /\ Len(stream) \in Nat
          /\ stream'[Len(stream) + 1] = d
          /\ \A i \in 1 .. Len(stream) : stream'[i] = stream[i]
      <4>1. stream' \in Seq(Diffs) /\ stream' = Append(stream, d)
        BY <2>1, <2>5, Zenon DEF TypeOK
      <4>2. exchId + 1 \in Ids /\ exchId + n \in Ids
        BY <1>0, <2>1, <2>3, ConstantsAssumption DEF TypeOK, Ids
      <4>3. d \in Diffs /\ stream \in Seq(Diffs)
        BY <4>2, Zenon DEF Diffs, TypeOK
      <4> HIDE DEF d
      <4> QED
        BY <4>1, <4>3, AppendFacts
    <3>2. d.first = exchId + 1 /\ d.last = exchId'
      BY <2>1, Zenon
    <3>3. \A i \in 1 .. Len(stream) : stream[i].last \in Nat /\ stream[i].last <= exchId
      BY StreamElements, Zenon DEF GeneratorInv, StreamInOrder
    <3>4. /\ lastIdDiffBookEvent \in Nat /\ lastIdDiffBookEvent <= exchId
          /\ \A b \in book : b \in Nat /\ b <= exchId
      BY IdsAreNat, Zenon DEF TypeOK, GeneratorInv
    <3>a. lastIdDiffBookEvent' = lastIdDiffBookEvent /\ book' = book
      BY <2>2, Zenon DEF pairState
    <3> HIDE DEF d
    <3>5. StreamInOrder'
      <4>1. ASSUME NEW i \in 1 .. Len(stream')
            PROVE  /\ stream'[i].first <= stream'[i].last
                   /\ stream'[i].last <= exchId'
                   /\ lastIdDiffBookEvent' < stream'[i].first
                   /\ \A b \in book' : b < stream'[i].first
        <5>1. CASE i \in 1 .. Len(stream)
          BY <1>0, <2>1, <2>3, <3>1, <3>3, <3>a, <5>1 DEF GeneratorInv, StreamInOrder
        <5>2. CASE i = Len(stream) + 1
          BY <1>0, <2>1, <2>3, <3>1, <3>2, <3>4, <3>a, <5>2
        <5> QED
          BY <3>1, <5>1, <5>2
      <4>2. ASSUME NEW i \in 1 .. Len(stream'), NEW j \in 1 .. Len(stream'), i < j
            PROVE  stream'[i].last < stream'[j].first
        <5>1. i \in 1 .. Len(stream)
          BY <3>1, <4>2
        <5>2. CASE j \in 1 .. Len(stream)
          BY <3>1, <4>2, <5>1, <5>2, Zenon DEF GeneratorInv, StreamInOrder
        <5>3. CASE j = Len(stream) + 1
          BY <1>0, <3>1, <3>2, <3>3, <5>1, <5>3
        <5> QED
          BY <3>1, <5>2, <5>3
      <4> QED
        BY <4>1, <4>2, Zenon DEF StreamInOrder
    <3>6. SyncState' /\ GapOnlyAfterLateSnapshot'
      BY <2>2, Zenon DEF GeneratorInv, SyncState, GapOnlyAfterLateSnapshot, Contiguous, pairState
    <3>7. (\A b \in book : 1 <= b /\ b <= exchId)' /\ (lastIdDiffBookEvent <= exchId)'
      BY <1>0, <2>1, <2>3, <3>4, <3>a DEF GeneratorInv
    <3> QED
      BY <2>2, <2>5, <3>5, <3>6, <3>7, Zenon DEF GeneratorInv
  <2> QED
    BY <2>4, <2>5, Zenon
<1>7. CASE LoseDiff
  <2>1. /\ stream # << >> /\ stream' = Tail(stream)
        /\ UNCHANGED <<pairState, snapshot, tracked, registered, exchId, book, late>>
    BY <1>7, Zenon DEF LoseDiff
  <2>2. StreamInOrder'
    BY <2>1, TailInOrder, Zenon DEF pairState
  <2>3. SyncState' /\ GapOnlyAfterLateSnapshot'
    BY <2>1, Zenon DEF GeneratorInv, SyncState, GapOnlyAfterLateSnapshot, Contiguous, pairState
  <2> QED
    BY <2>1, <2>2, <2>3, Zenon DEF GeneratorInv, pairState
<1>8. CASE AnswerSnapshot
  BY <1>0, <1>8, QuietStep DEF AnswerSnapshot
<1>9. CASE LoseRequest
  BY <1>0, <1>9, QuietStep DEF LoseRequest
<1>10. CASE UNCHANGED vars
  BY <1>0, <1>10, QuietStep DEF vars, network
<1> QED
  BY <1>1, <1>2, <1>3, <1>4, <1>5, <1>6, <1>7, <1>8, <1>9, <1>10, Zenon
     DEF Next, Environment
(* The first state satisfies the invariant.                                 *)
LEMMA GeneratorInit == Init => GeneratorInv
<1> SUFFICES ASSUME Init PROVE GeneratorInv
  OBVIOUS
<1>1. Len(stream) = 0 /\ stream = << >> /\ book = {}
  BY Zenon DEF Init
<1>2. StreamInOrder
  BY <1>1 DEF StreamInOrder
<1>3. SyncState
  BY Zenon DEF Init, SyncState
<1>4. Contiguous
  <2>1. 0 \in Ids /\ 1 .. 0 = {}
    BY ConstantsAssumption DEF Ids
  <2> QED
    BY <1>1, <2>1, Zenon DEF Contiguous
<1>5. lastIdDiffBookEvent <= exchId
  BY ConstantsAssumption DEF Init
<1>6. needMakeSnapshot /\ ~tracked
  BY Zenon DEF Init
<1> QED
  BY <1>1, <1>2, <1>3, <1>4, <1>5, <1>6, Zenon DEF GeneratorInv, GapOnlyAfterLateSnapshot

(* What the handlers rely on between two events always holds.               *)
THEOREM Invariance == Spec => []GeneratorInv
<1>1. TypeOK /\ TypeOK' /\ GeneratorInv /\ [Next]_vars => GeneratorInv'
  BY GeneratorStep, Zenon
<1> QED
  BY <1>1, TypeCorrect, GeneratorInit, PTL DEF Spec

(* The feed has no gap, and is exactly at the last processed diff while     *)
(* synchronised, unless HandleNewSnapshotEvent stored an answer while the   *)
(* pair was already synchronised.                                           *)
THEOREM GapsComeFromLateSnapshots == Spec => []GapOnlyAfterLateSnapshot
<1>1. GeneratorInv => GapOnlyAfterLateSnapshot
  BY Zenon DEF GeneratorInv
<1> QED
  BY <1>1, Invariance, PTL

(* No step of any handler takes the consumer's book back.                   *)
THEOREM Monotone == Spec => NeverRollsBack
<1>1. TypeOK /\ TypeOK' /\ GeneratorInv /\ [Next]_vars => [book \subseteq book']_vars
  BY GeneratorStep, Zenon
<1> QED
  BY <1>1, TypeCorrect, Invariance, PTL DEF Spec, NeverRollsBack

(* A step after which no late answer is stored takes the consumer's book to *)
(* a later state of the exchange, or leaves it alone.                       *)
LEMMA AdvanceStep ==
  ASSUME TypeOK, TypeOK', GeneratorInv, GeneratorInv', ~late', [Next]_vars
  PROVE  [Feed!Advance]_book
<1>1. book \subseteq book'
  BY GeneratorStep, Zenon
<1>2. PICK n \in Ids : book' = 1 .. n
  BY Zenon DEF GeneratorInv, GapOnlyAfterLateSnapshot, Contiguous
<1> QED
  BY <1>1, <1>2, Zenon DEF Feed!Advance, Ids

(* Whatever the snapshot answers do, HandleBookDiffSnapshotEvent's emissions *)
(* implement the feed except while a late answer is stored.                  *)
THEOREM FeedExceptForLateAnswers == Spec => FeedUnlessLate
<1>1. Init => Feed!FeedInit
  BY Zenon DEF Init, Feed!FeedInit
<1>2. TypeOK /\ TypeOK' /\ GeneratorInv /\ GeneratorInv' /\ [Next]_vars
        => [~late' => Feed!Advance]_book
  BY AdvanceStep, Zenon
<1> QED
  BY <1>1, <1>2, TypeCorrect, Invariance, PTL DEF Spec, FeedUnlessLate

(* When every snapshot answer is stored before the pair is synchronised,    *)
(* the generator implements the feed promised to the order book.            *)
THEOREM RefinesFeed == SpecOnTime => ImplementsFeed
<1>1. [NextOnTime]_vars => [Next]_vars
  BY Zenon DEF NextOnTime, Next
<1>2. SpecOnTime => Spec
  BY <1>1, PTL DEF SpecOnTime, Spec
<1>3. Init => ~late /\ Feed!FeedInit
  BY Zenon DEF Init, Feed!FeedInit
<1>4. ~late /\ [NextOnTime]_vars => ~late'
  <2> SUFFICES ASSUME ~late, [NextOnTime]_vars PROVE ~late'
    OBVIOUS
  <2>1. CASE HandleNewSnapshotEvent /\ needMakeSnapshot
    BY <2>1, Zenon DEF HandleNewSnapshotEvent
  <2>2. CASE HandleBookDiffSnapshotEvent
    BY <2>2, Zenon DEF HandleBookDiffSnapshotEvent, AwaitNewerDiff, AskForSnapshot, Emit
  <2>3. CASE RegisterCallbacks \/ HandleTrackingNewTradingPair \/ HandleCancellation
    BY <2>3, Zenon DEF RegisterCallbacks, HandleTrackingNewTradingPair, HandleCancellation
  <2>4. CASE Environment
    BY <2>4, Zenon DEF Environment, Publish, LoseDiff, AnswerSnapshot, LoseRequest
  <2>5. CASE UNCHANGED vars
    BY <2>5, Zenon DEF vars
  <2> QED
    BY <2>1, <2>2, <2>3, <2>4, <2>5, Zenon DEF NextOnTime
<1>5. TypeOK /\ TypeOK' /\ GeneratorInv /\ GeneratorInv' /\ ~late' /\ [Next]_vars
        => [Feed!Advance]_book
  BY AdvanceStep, Zenon
<1> QED
  BY <1>1, <1>2, <1>3, <1>4, <1>5, TypeCorrect, Invariance, PTL
     DEF SpecOnTime, ImplementsFeed, Feed!FeedSpec

-------------------------------------------------------------------------------
(* Counting the calm diffs adds nothing to what the generator does.         *)
LEMMA ResyncIsGenerator == [ResyncNext]_resyncVars => [Next]_vars
BY Zenon DEF ResyncNext, resyncVars, Next, Environment

(* Nothing was calm at the start.                                          *)
LEMMA CalmInit == ResyncInit => CalmInv
BY ConstantsAssumption DEF ResyncInit, Init, CalmInv, Ids

(* A diff is published: it is calm if all is quiet, and the one after a     *)
(* calm diff finds a synchronised pair or the snapshot it needs.            *)
LEMMA PublishStep ==
  ASSUME TypeOK, TypeOK', CalmInv, Publish,
         calm' = IF ~tracked \/ ~Quiet THEN 0 ELSE IF calm = 0 THEN 1 ELSE 2
  PROVE  CalmInv'
<1>0. /\ exchId \in Ids /\ exchId \in Nat /\ snapshot \in Nat
      /\ lastIdDiffBookEvent \in Nat /\ exchId' \in Nat
  BY IdsAreNat, Zenon DEF TypeOK
<1>1. PICK n \in 1 .. MaxBatch :
        /\ exchId' = exchId + n
        /\ stream' = IF tracked
                     THEN Append(stream, [first |-> exchId + 1, last |-> exchId + n])
                     ELSE stream
        /\ UNCHANGED <<pairState, snapshot, tracked, registered, asked, answers, book, late>>
  BY Zenon DEF Publish
<1>2. n \in Nat /\ n > 0
  BY ConstantsAssumption
<1>3. /\ calm' \in 0 .. 2
      /\ snapshot' <= exchId'
      /\ \A i \in Ids : answers'[i] > 0 => i <= exchId'
  BY <1>0, <1>1, <1>2, IdsAreNat DEF CalmInv
<1>4. CASE ~tracked \/ ~Quiet
  BY <1>3, <1>4 DEF CalmInv
<1>5. CASE tracked /\ Quiet
  <2> DEFINE e == [first |-> exchId + 1, last |-> exchId + n]
  <2>1. stream' = <<e>>
    BY <1>1, <1>5 DEF Quiet
  <2>2. stream' # << >> /\ Len(stream') = 1 /\ stream'[1] = e
    BY <2>1, Zenon
  <2>3. e.first = exchId + 1 /\ e.last = exchId + n
    OBVIOUS
  <2>4. tracked' /\ asked' = 0 /\ NoAnswers'
    BY <1>1, <1>5, Zenon DEF Quiet, NoAnswers
  <2>5. stream'[1].last = exchId' /\ snapshot' < stream'[1].first
    BY <1>0, <1>1, <2>2, <2>3 DEF CalmInv
  <2>6. ASSUME calm' = 2
        PROVE  /\ stream'[1].first = lastIdDiffBookEvent' + 1
               /\ needMakeSnapshot' => snapshot' = lastIdDiffBookEvent'
    <3>1. calm > 0 /\ stream = << >>
      BY <1>5, <2>6 DEF Quiet, CalmInv
    <3>2. lastIdDiffBookEvent = exchId
      BY <3>1, Zenon DEF CalmInv
    <3>3. needMakeSnapshot => snapshot = exchId
      BY <1>0, <1>5, <3>1 DEF CalmInv, Quiet, NoAnswers
    <3> QED
      BY <1>1, <2>2, <2>3, <3>2, <3>3, Zenon DEF pairState
  <2> QED
    BY <1>3, <2>2, <2>4, <2>5, <2>6, Zenon DEF CalmInv
<1> QED
  BY <1>4, <1>5, Zenon

(* An answer is stored: in calm it is the one that the first diff asked     *)
(* for, and names the exchange's last update.                               *)
LEMMA SnapshotStep ==
  ASSUME TypeOK, TypeOK', CalmInv, HandleNewSnapshotEvent, calm' = calm
  PROVE  CalmInv'
<1>1. PICK i \in Ids :
        /\ answers[i] > 0
        /\ answers' = [answers EXCEPT ![i] = @ - 1]
        /\ snapshot' = i
        /\ UNCHANGED <<pairState, tracked, registered, exchId, stream, asked, book>>
  BY Zenon DEF HandleNewSnapshotEvent
<1>2. answers \in [Ids -> Nat] /\ exchId \in Ids
  BY Zenon DEF TypeOK
<1>3. /\ calm' \in 0 .. 2
      /\ snapshot' <= exchId'
      /\ \A j \in Ids : answers'[j] > 0 => j <= exchId'
  BY <1>1, <1>2, IdsAreNat, Zenon DEF CalmInv
<1>4. ~NoAnswers
  BY <1>1 DEF NoAnswers
<1>5. CASE calm = 0
  BY <1>3, <1>5 DEF CalmInv
<1>6. CASE calm > 0
  <2>1. /\ stream = << >> /\ tracked /\ lastIdDiffBookEvent = exchId
        /\ calm = 1 /\ asked = 0
        /\ answers = [j \in Ids |-> IF j = exchId THEN 1 ELSE 0]
    BY <1>1, <1>2, <1>4, <1>6, Zenon DEF CalmInv, NoAnswers
  <2>2. i = exchId
    BY <1>1, <2>1
  <2>3. NoAnswers'
    BY <1>1, <1>2, <2>1, <2>2 DEF NoAnswers
  <2> QED
    BY <1>1, <1>3, <2>1, <2>2, <2>3, Zenon DEF CalmInv, pairState
<1> QED
  BY <1>5, <1>6 DEF CalmInv

(* A diff is handled: in calm it is newer than the stored snapshot, so the  *)
(* first of two asks for a snapshot unless the pair is synchronised, and    *)
(* the second straddles it.                                                 *)
LEMMA CalmDiffStep ==
  ASSUME TypeOK, TypeOK', GeneratorInv, CalmInv, HandleBookDiffSnapshotEvent,
         calm' = calm
  PROVE  CalmInv'
<1> DEFINE diff == Head(stream)
           missed == CheckPacketLoss(diff)
           sync == needMakeSnapshot /\ SnapshotAndDiffNowSync(diff)
           make == needMakeSnapshot /\ ~sync
           process == needProcessCurrentSnapshot \/ sync
<1>1. /\ stream # << >> /\ stream' = Tail(stream)
      /\ lastIdDiffBookEvent' = diff.last
      /\ \/ (make \/ missed) /\ AwaitNewerDiff(diff, make, process)
         \/ (make \/ missed) /\ AskForSnapshot(diff, process)
         \/ ~(make \/ missed) /\ Emit(diff, process)
      /\ UNCHANGED <<snapshot, tracked, registered, exchId, answers>>
  BY Zenon DEF HandleBookDiffSnapshotEvent, SetLastProcessedDiffId
<1>2. /\ calm' \in 0 .. 2
      /\ snapshot' <= exchId'
      /\ \A i \in Ids : answers'[i] > 0 => i <= exchId'
  BY <1>1, Zenon DEF CalmInv
<1>3. CASE calm = 0
  BY <1>2, <1>3 DEF CalmInv
<1>4. CASE calm > 0
  <2>1. /\ tracked /\ asked = 0 /\ NoAnswers
        /\ Len(stream) = 1 /\ stream[1].last = exchId /\ snapshot < stream[1].first
    BY <1>1, <1>4, Zenon DEF CalmInv
  <2>2. stream \in Seq(Diffs)
    BY Zenon DEF TypeOK
  <2>3. diff = stream[1] /\ diff \in Diffs /\ 1 \in 1 .. Len(stream)
    BY <1>1, <2>2, HeadTailFacts, Zenon
  <2>4. stream' = << >>
    BY <1>1, <2>1, <2>2
  <2>5. /\ diff.first \in Nat /\ diff.last \in Nat /\ diff.first <= diff.last
        /\ snapshot \in Nat /\ lastIdDiffBookEvent \in Nat
    BY <2>3, IdsAreNat, Zenon DEF TypeOK, GeneratorInv, StreamInOrder
  <2>6. ~(diff.last <= snapshot)
    BY <2>1, <2>3, <2>5
  <2>7. tracked' /\ lastIdDiffBookEvent' = exchId' /\ NoAnswers'
    BY <1>1, <2>1, <2>3, Zenon DEF NoAnswers
  <2>8. calm \in {1, 2}
    BY <1>4 DEF CalmInv
  <2>9. CASE ~(make \/ missed) /\ Emit(diff, process)
    <3>1. ~needMakeSnapshot' /\ asked' = 0
      BY <2>1, <2>9, Zenon DEF Emit
    <3> QED
      BY <1>2, <2>4, <2>7, <3>1, Zenon DEF CalmInv
  <2>10. CASE (make \/ missed) /\ AskForSnapshot(diff, process)
    <3>1. asked' = 1
      BY <2>1, <2>10 DEF AskForSnapshot, RequestNewSnapshot
    <3>2. calm = 1
      <4>1. SUFFICES ASSUME calm = 2 PROVE FALSE
        BY <2>8, Zenon
      <4>2. /\ diff.first = lastIdDiffBookEvent + 1
            /\ needMakeSnapshot => snapshot = lastIdDiffBookEvent
        BY <1>1, <2>3, <4>1, Zenon DEF CalmInv
      <4>3. ~missed
        BY <4>2, Zenon DEF CheckPacketLoss
      <4>4. ~make
        BY <2>5, <4>2 DEF SnapshotAndDiffNowSync
      <4> QED
        BY <2>10, <4>3, <4>4, Zenon
    <3> QED
      BY <1>2, <2>4, <2>7, <3>1, <3>2, Zenon DEF CalmInv
  <2> QED
    BY <1>1, <2>6, <2>9, <2>10, Zenon DEF AwaitNewerDiff
<1>5. calm \in 0 .. 2
  BY Zenon DEF CalmInv
<1>6. calm = 0 \/ calm > 0
  BY <1>5
<1> QED
  BY <1>3, <1>4, <1>6, Zenon

(* An answer leaves the exchange, with its last update id.                  *)
LEMMA AnswerStep ==
  ASSUME TypeOK, TypeOK', CalmInv, AnswerSnapshot, calm' = calm
  PROVE  CalmInv'
<1>1. /\ asked > 0 /\ asked' = asked - 1
      /\ answers' = [answers EXCEPT ![exchId] = @ + 1]
      /\ UNCHANGED <<pairState, snapshot, tracked, registered, exchId, stream, book, late>>
  BY Zenon DEF AnswerSnapshot
<1>2. answers \in [Ids -> Nat] /\ exchId \in Ids /\ exchId \in Nat /\ asked \in Nat
  BY IdsAreNat, Zenon DEF TypeOK
<1>3. /\ calm' \in 0 .. 2
      /\ snapshot' <= exchId'
      /\ \A i \in Ids : answers'[i] > 0 => i <= exchId'
  <2>1. calm \in 0 .. 2 /\ snapshot <= exchId /\ \A i \in Ids : answers[i] > 0 => i <= exchId
    BY Zenon DEF CalmInv
  <2>2. calm' \in 0 .. 2 /\ snapshot' <= exchId'
    BY <1>1, <2>1, Zenon
  <2>3. ASSUME NEW i \in Ids, answers'[i] > 0 PROVE i <= exchId'
    <3>1. CASE i = exchId
      BY <1>1, <1>2, <3>1
    <3>2. CASE i # exchId
      BY <1>1, <1>2, <2>1, <2>3, <3>2
    <3> QED
      BY <3>1, <3>2, Zenon
  <2> QED
    BY <2>2, <2>3, Zenon
<1>4. CASE calm = 0
  <2>1. ~(calm' > 0)
    BY <1>4
  <2> QED
    BY <1>3, <2>1 DEF CalmInv
<1>5. CASE calm > 0
  <2>1. /\ stream = << >> /\ tracked /\ lastIdDiffBookEvent = exchId
        /\ calm = 1 /\ asked = 1 /\ NoAnswers
    BY <1>1, <1>5 DEF CalmInv
  <2> DEFINE one == [j \in Ids |-> IF j = exchId THEN 1 ELSE 0]
  <2>2. answers' = one
    <3>1. answers' \in [Ids -> Nat] /\ one \in [Ids -> Nat]
      BY <1>1, <1>2
    <3>2. ASSUME NEW j \in Ids PROVE answers'[j] = one[j]
      BY <1>1, <1>2, <2>1, <3>2 DEF NoAnswers
    <3> HIDE DEF one
    <3> QED
      BY <3>1, <3>2
  <2>3. /\ stream' = << >> /\ tracked' /\ lastIdDiffBookEvent' = exchId'
        /\ calm' = 1 /\ asked' = 0 /\ exchId' = exchId
    BY <1>1, <2>1 DEF pairState
  <2>4. answers' = [j \in Ids |-> IF j = exchId' THEN 1 ELSE 0]
    BY <2>2, <2>3, Zenon
  <2> HIDE DEF one
  <2> QED
    BY <1>3, <2>3, <2>4, Zenon DEF CalmInv
<1>6. calm \in 0 .. 2
  BY Zenon DEF CalmInv
<1>7. calm = 0 \/ calm > 0
  BY <1>6
<1> QED
  BY <1>4, <1>5, <1>7, Zenon

(* Every step keeps the count of calm diffs right.                         *)
LEMMA CalmStep ==
  ASSUME TypeOK, TypeOK', GeneratorInv, CalmInv, [ResyncNext]_resyncVars
  PROVE  CalmInv'
<1>1. CASE /\ Publish
           /\ calm' = IF ~tracked \/ ~Quiet THEN 0 ELSE IF calm = 0 THEN 1 ELSE 2
  BY <1>1, PublishStep, Zenon
<1>2. CASE LoseDiff /\ calm' = 0
  BY <1>2 DEF LoseDiff, CalmInv
<1>3. CASE LoseRequest /\ calm' = 0
  BY <1>3 DEF LoseRequest, CalmInv
<1>4. CASE HandleCancellation /\ calm' = 0
  <2>1. snapshot' = 0 /\ exchId' = exchId /\ answers' = answers /\ exchId \in Nat
    BY <1>4, IdsAreNat, Zenon DEF HandleCancellation, network, TypeOK
  <2> QED
    BY <1>4, <2>1 DEF CalmInv
<1>5. CASE RegisterCallbacks /\ calm' = calm
  BY <1>5, Zenon DEF RegisterCallbacks, CalmInv, pairState, network, NoAnswers
<1>6. CASE HandleTrackingNewTradingPair /\ calm' = calm
  BY <1>6, Zenon DEF HandleTrackingNewTradingPair, CalmInv, pairState, network, NoAnswers
<1>7. CASE HandleNewSnapshotEvent /\ calm' = calm
  BY <1>7, SnapshotStep, Zenon
<1>8. CASE HandleBookDiffSnapshotEvent /\ calm' = calm
  BY <1>8, CalmDiffStep, Zenon
<1>9. CASE AnswerSnapshot /\ calm' = calm
  BY <1>9, AnswerStep
<1>10. CASE UNCHANGED resyncVars
  BY <1>10, Zenon DEF resyncVars, vars, CalmInv, pairState, network, NoAnswers
<1> QED
  BY <1>1, <1>2, <1>3, <1>4, <1>5, <1>6, <1>7, <1>8, <1>9, <1>10, Zenon DEF ResyncNext

-------------------------------------------------------------------------------
(* A behaviour with the count is a behaviour of the generator.             *)
LEMMA ResyncImpliesSpec == ResyncSpec => Spec
<1>1. ResyncInit => Init
  BY Zenon DEF ResyncInit
<1> QED
  BY <1>1, ResyncIsGenerator, PTL DEF ResyncSpec, Spec

(* CalmInv is an invariant: what HandleBookDiffSnapshotEvent and            *)
(* HandleNewSnapshotEvent find once the exchange is calm.                   *)
THEOREM CalmInvariance == ResyncSpec => []CalmInv
<1>1. TypeOK /\ TypeOK' /\ GeneratorInv /\ CalmInv /\ [ResyncNext]_resyncVars => CalmInv'
  BY CalmStep, Zenon
<1> QED
  BY <1>1, CalmInit, ResyncImpliesSpec, TypeCorrect, Invariance, PTL DEF ResyncSpec

(* Whatever was lost, late or cancelled before, the second diff published   *)
(* in calm leaves the generator synchronised, with the exchange's book at   *)
(* the consumer unless a late answer is stored.                             *)
THEOREM CalmSynchronises == ResyncSpec => []SynchronisedWhenCalm
<1>1. GeneratorInv /\ CalmInv => SynchronisedWhenCalm
  BY DEF GeneratorInv, GapOnlyAfterLateSnapshot, CalmInv, SynchronisedWhenCalm
<1> QED
  BY <1>1, CalmInvariance, ResyncImpliesSpec, Invariance, PTL

(* RequestNewSnapshot runs at most once in a calm exchange.                 *)
THEOREM CalmNeedsOneRequest == ResyncSpec => []OneRequestWhenCalm
<1>1. TypeOK /\ CalmInv => OneRequestWhenCalm
  BY DEF TypeOK, CalmInv, OneRequestWhenCalm
<1> QED
  BY <1>1, CalmInvariance, ResyncImpliesSpec, TypeCorrect, PTL

(* Two diffs and one request of a calm exchange repair the feed.             *)
THEOREM CalmRecovers == ResyncSpec => []RecoversWhenCalm
<1>1. SynchronisedWhenCalm /\ OneRequestWhenCalm => RecoversWhenCalm
  BY Zenon DEF RecoversWhenCalm
<1> QED
  BY <1>1, CalmSynchronises, CalmNeedsOneRequest, PTL

-----------------------------------------------------------------------------
(* The Bybit feed, for all update ids and all bounds on lost and odd       *)
(* messages, unsubscriptions and stops.                                    *)

Message == [type : {"delta", "snapshot", "api", "other"}, id : BybitIds, bad : BOOLEAN]

States == [needMake : BOOLEAN, needSnapshot : BOOLEAN, needDiff : BOOLEAN,
           last : BybitIds, snapshot : BybitIds]

(* The types the proofs need.                                              *)
Types ==
  /\ state \in States
  /\ bTracked \in BOOLEAN /\ subscribed \in BOOLEAN /\ reading \in BOOLEAN
  /\ lossy \in BOOLEAN /\ owed \in BOOLEAN /\ repeated \in BOOLEAN
  /\ requests \in Seq(BOOLEAN)
  /\ bExchId \in BybitIds
  /\ bStream \in Seq(Message)
  /\ \A k \in 1 .. Len(bStream) : bStream[k].id <= bExchId
  /\ bBook \in SUBSET BybitIds

(* What the generator's handler makes of the first message.                *)
LEMMA HeadMessage ==
  ASSUME Types, HandleResponse
  PROVE  /\ Head(bStream) \in Message /\ Head(bStream).id <= bExchId
         /\ Head(bStream) = bStream[1] /\ Len(bStream) \in Nat \ {0}
         /\ bStream' = Tail(bStream) /\ bStream' \in Seq(Message) /\ Len(bStream') = Len(bStream) - 1
         /\ \A k \in 1 .. Len(bStream') : bStream'[k] = bStream[k + 1] /\ k + 1 \in 1 .. Len(bStream)
         /\ UNCHANGED <<bTracked, subscribed, bExchId>>
<1>1. bStream \in Seq(Message) /\ bStream # << >> /\ bStream' = Tail(bStream)
  BY Zenon DEF Types, HandleResponse
<1>2. Head(bStream) \in Message /\ Head(bStream) = bStream[1] /\ Len(bStream) \in Nat \ {0}
  BY <1>1
<1>3. Head(bStream).id <= bExchId
  BY <1>2 DEF Types
<1>4. bStream' \in Seq(Message) /\ Len(bStream') = Len(bStream) - 1
  BY <1>1
<1>5. \A k \in 1 .. Len(bStream') : bStream'[k] = bStream[k + 1] /\ k + 1 \in 1 .. Len(bStream)
  BY <1>1, <1>2, <1>4
<1>6. UNCHANGED <<bTracked, subscribed, bExchId>>
  BY Zenon DEF HandleResponse, world
<1> QED
  BY <1>1, <1>2, <1>3, <1>4, <1>5, <1>6, Zenon

(* The three things a message may be: a delta in order, a delta that does  *)
(* not follow, a snapshot; anything else is dropped.                       *)
LEMMA ResponseCases ==
  ASSUME Types, HandleResponse, NEW m, m = Head(bStream)
  PROVE  /\ reading' = ~Throws(m)
         /\ repeated' = (repeated \/ m = Snapshot(state.snapshot))
         /\ \/ FromBybit(m) /\ m.type = "delta" /\ HandleLoss(m.id)
            \/ FromBybit(m) /\ m.type = "delta" /\ HandleNext(m.id)
            \/ /\ FromBybit(m) /\ m = Snapshot(m.id)
               /\ state' = BybitHandleNewSnapshotEvent(m.id)
               /\ UNCHANGED <<requests, bBook, lossy, owed>>
            \/ ~FromBybit(m) /\ UNCHANGED <<state, requests, bBook, lossy, owed>>
<1>1. m \in Message
  BY HeadMessage, Zenon
<1>2. FromBybit(m) /\ m.type # "delta" => m = Snapshot(m.id)
  BY <1>1, Zenon DEF Message, FromBybit, Snapshot
<1>3. FromBybit(m) => (DetermineType(m) = "delta" <=> m.type = "delta")
  BY Zenon DEF FromBybit, DetermineType
<1> QED
  BY <1>2, <1>3, Zenon DEF HandleResponse, BybitHandleBookDiffSnapshotEvent

(* The start.                                                              *)
LEMMA InitTypes ==
  ASSUME IdsAssumption, BybitInit
  PROVE  Types
<1>1. 0 \in BybitIds /\ BybitFirstId \in BybitIds
  BY DEF IdsAssumption, BybitIds
<1>2. state \in States
  BY <1>1, Zenon DEF BybitInit, BidAskState, States
<1>3. requests = << >> /\ bStream = << >> /\ bBook = {}
  BY Zenon DEF BybitInit
<1>4. requests \in Seq(BOOLEAN) /\ bStream \in Seq(Message)
  BY <1>3
<1>5. \A k \in 1 .. Len(bStream) : FALSE
  BY <1>3
<1> QED
  BY <1>1, <1>2, <1>3, <1>4, <1>5, Zenon DEF BybitInit, Types

(* The generator's handler keeps the types.                                *)
LEMMA ResponseTypes ==
  ASSUME IdsAssumption, Types, HandleResponse
  PROVE  Types'
<1> DEFINE m == Head(bStream)
<1>1. m \in Message /\ m.id <= bExchId
  BY HeadMessage, Zenon
<1>2. /\ reading' = ~Throws(m)
      /\ repeated' = (repeated \/ m = Snapshot(state.snapshot))
      /\ \/ FromBybit(m) /\ m.type = "delta" /\ HandleLoss(m.id)
         \/ FromBybit(m) /\ m.type = "delta" /\ HandleNext(m.id)
         \/ /\ FromBybit(m) /\ m = Snapshot(m.id)
            /\ state' = BybitHandleNewSnapshotEvent(m.id)
            /\ UNCHANGED <<requests, bBook, lossy, owed>>
         \/ ~FromBybit(m) /\ UNCHANGED <<state, requests, bBook, lossy, owed>>
  BY ResponseCases, Zenon
<1> HIDE DEF m
<1>3. m.id \in BybitIds
  BY <1>1, Zenon DEF Message
<1>4. bStream' \in Seq(Message) /\ \A k \in 1 .. Len(bStream') : bStream'[k].id <= bExchId'
  BY HeadMessage, Zenon DEF Types
<1>5. UNCHANGED <<bTracked, subscribed, bExchId>>
  BY HeadMessage, Zenon
<1>6. reading' \in BOOLEAN /\ repeated' \in BOOLEAN
  BY <1>2, Zenon DEF Throws
<1>7. state' \in States
  <2>1. CASE HandleLoss(m.id)
    BY <1>3, <2>1, Zenon DEF HandleLoss, Types, States
  <2>2. CASE HandleNext(m.id)
    BY <1>3, <2>2, Zenon DEF HandleNext, Types, States
  <2>3. CASE state' = BybitHandleNewSnapshotEvent(m.id)
    BY <1>3, <2>3, Zenon DEF BybitHandleNewSnapshotEvent, Types, States
  <2>4. CASE state' = state
    BY <2>4, Zenon DEF Types
  <2> QED
    BY <1>2, <2>1, <2>2, <2>3, <2>4, Zenon
<1>8. requests' \in Seq(BOOLEAN)
  <2>1. requests \in Seq(BOOLEAN) /\ <<FALSE, TRUE>> \in Seq(BOOLEAN)
    BY DEF Types
  <2>2. requests \o <<FALSE, TRUE>> \in Seq(BOOLEAN)
    BY <2>1
  <2>3. requests' \in {requests, requests \o <<FALSE, TRUE>>}
    BY <1>2, Zenon DEF HandleLoss, HandleNext, Resubscribe, RequestSubscribe
  <2> QED
    BY <2>1, <2>2, <2>3, Zenon
<1>9. lossy' \in BOOLEAN /\ owed' \in BOOLEAN
  BY <1>2, Zenon DEF HandleLoss, HandleNext, Types
<1>10. bBook' \in SUBSET BybitIds
  <2>1. bBook \in SUBSET BybitIds /\ 1 .. state.snapshot \in SUBSET BybitIds /\ {m.id} \in SUBSET BybitIds
    BY <1>3 DEF Types, BybitIds, States, IdsAssumption
  <2>2. CASE HandleNext(m.id)
    BY <2>1, <2>2, Zenon DEF HandleNext
  <2>3. CASE bBook' = bBook
    BY <2>1, <2>3, Zenon
  <2> QED
    BY <1>2, <2>2, <2>3, Zenon DEF HandleLoss
<1> QED
  BY <1>4, <1>5, <1>6, <1>7, <1>8, <1>9, <1>10, Zenon DEF Types

(* A message appended to the stream, with an id the exchange has reached.  *)
LEMMA AppendMessage ==
  ASSUME Types, NEW m \in Message, NEW n \in BybitIds, bExchId <= n, m.id <= n
  PROVE  /\ Append(bStream, m) \in Seq(Message)
         /\ Len(Append(bStream, m)) = Len(bStream) + 1 /\ Len(bStream) \in Nat
         /\ Append(bStream, m)[Len(bStream) + 1] = m
         /\ \A k \in 1 .. Len(bStream) : Append(bStream, m)[k] = bStream[k]
         /\ \A k \in 1 .. Len(bStream) + 1 : Append(bStream, m)[k].id <= n
<1>1. bStream \in Seq(Message) /\ \A k \in 1 .. Len(bStream) : bStream[k].id <= bExchId
  BY Zenon DEF Types
<1>2. /\ Append(bStream, m) \in Seq(Message)
      /\ Len(Append(bStream, m)) = Len(bStream) + 1 /\ Len(bStream) \in Nat
      /\ Append(bStream, m)[Len(bStream) + 1] = m
      /\ \A k \in 1 .. Len(bStream) : Append(bStream, m)[k] = bStream[k]
  BY <1>1
<1>3. ASSUME NEW k \in 1 .. Len(bStream) + 1 PROVE Append(bStream, m)[k].id <= n
  <2>1. CASE k = Len(bStream) + 1
    BY <1>2, <2>1, Zenon
  <2>2. CASE k \in 1 .. Len(bStream)
    <3>1. bStream[k] \in Message /\ bStream[k].id <= bExchId
      BY <1>1, <2>2
    <3>2. bStream[k].id \in Int /\ bExchId \in Int /\ n \in Int
      BY <3>1 DEF Message, BybitIds, Types
    <3> QED
      BY <1>2, <2>2, <3>1, <3>2
  <2> QED
    BY <1>2, <2>1, <2>2
<1> QED
  BY <1>2, <1>3, Zenon

(* What the exchange adds to the stream: at most one delta or snapshot, at *)
(* the end, and with the exchange's latest id.                             *)
Grows ==
  /\ Len(bStream) \in Nat /\ Len(bStream') \in Nat /\ Len(bStream) <= Len(bStream')
  /\ \A k \in 1 .. Len(bStream) : bStream'[k] = bStream[k]
  /\ \A k \in Len(bStream) + 1 .. Len(bStream') :
       FromBybit(bStream'[k]) =>
         /\ k = Len(bStream') /\ bExchId <= bStream'[k].id
         /\ bStream'[k].type = "delta" => bExchId < bStream'[k].id
  /\ bExchId <= bExchId'
  /\ UNCHANGED <<state, bTracked, reading, bBook, lossy, owed, repeated>>

(* A step of the exchange that appends one message.                        *)
LEMMA AppendGrows ==
  ASSUME Types, NEW m \in Message, bExchId' \in BybitIds, bExchId <= bExchId', m.id <= bExchId',
         bStream' = Append(bStream, m),
         FromBybit(m) => bExchId <= m.id /\ (m.type = "delta" => bExchId < m.id),
         UNCHANGED <<state, bTracked, reading, bBook, lossy, owed, repeated>>,
         requests' \in Seq(BOOLEAN), subscribed' \in BOOLEAN
  PROVE  Types' /\ Grows
<1>1. /\ bStream' \in Seq(Message)
      /\ Len(bStream') = Len(bStream) + 1 /\ Len(bStream) \in Nat
      /\ bStream'[Len(bStream) + 1] = m
      /\ \A k \in 1 .. Len(bStream) : bStream'[k] = bStream[k]
      /\ \A k \in 1 .. Len(bStream) + 1 : bStream'[k].id <= bExchId'
  BY AppendMessage, Zenon
<1>2. Types'
  BY <1>1, Zenon DEF Types
<1>3. \A k \in Len(bStream) + 1 .. Len(bStream') : k = Len(bStream) + 1 /\ k = Len(bStream')
  BY <1>1
<1> QED
  BY <1>1, <1>2, <1>3 DEF Grows

(* Publish brings a delta, or loses it.                                    *)
LEMMA PublishGrows ==
  ASSUME IdsAssumption, Types, BybitPublish
  PROVE  Types' /\ Grows /\ UNCHANGED <<requests, subscribed>>
<1>1. bExchId \in BybitIds /\ bExchId' = bExchId + 1 /\ bExchId < BybitMaxId
  BY Zenon DEF Types, BybitPublish
<1>2. bExchId' \in BybitIds /\ bExchId <= bExchId' /\ bExchId < bExchId'
  BY <1>1 DEF BybitIds, IdsAssumption
<1>3. /\ UNCHANGED <<requests, subscribed, state, bTracked, reading, bBook, lossy, owed, repeated>>
      /\ requests \in Seq(BOOLEAN) /\ subscribed \in BOOLEAN
  BY Zenon DEF BybitPublish, Types
<1>4. CASE bStream' = Append(bStream, Delta(bExchId + 1))
  <2> DEFINE m == Delta(bExchId + 1)
  <2>1. m \in Message /\ m.id = bExchId'
    BY <1>1, <1>2, Zenon DEF Delta, Message
  <2> HIDE DEF m
  <2>2. bStream' = Append(bStream, m) /\ m.id <= bExchId'
    BY <1>2, <1>4, <2>1 DEF m, BybitIds
  <2> QED
    BY <1>2, <1>3, <2>1, <2>2, AppendGrows, Zenon
<1>5. CASE bStream' = bStream
  <2>1. Len(bStream) \in Nat /\ \A k \in 1 .. Len(bStream) : bStream[k].id \in Int /\ bStream[k].id <= bExchId
    <3>1. bStream \in Seq(Message) /\ \A k \in 1 .. Len(bStream) : bStream[k].id <= bExchId
      BY Zenon DEF Types
    <3>2. Len(bStream) \in Nat /\ \A k \in 1 .. Len(bStream) : bStream[k] \in Message
      BY <3>1
    <3> QED
      BY <3>1, <3>2 DEF Message, BybitIds
  <2>2. \A k \in 1 .. Len(bStream') : bStream'[k].id <= bExchId'
    BY <1>1, <1>2, <1>5, <2>1 DEF BybitIds
  <2>3. Types'
    BY <1>2, <1>3, <1>5, <2>2, Zenon DEF Types
  <2> QED
    BY <1>2, <1>3, <1>5, <2>1, <2>3 DEF Grows
<1> QED
  BY <1>4, <1>5, Zenon DEF BybitPublish

(* A message that is no well-formed delta or snapshot.                     *)
LEMMA SendOddGrows ==
  ASSUME IdsAssumption, Types, SendOdd
  PROVE  Types' /\ Grows /\ UNCHANGED <<requests, subscribed>>
<1>1. PICK m \in Odd : bStream' = Append(bStream, m)
  BY Zenon DEF SendOdd
<1>2. /\ UNCHANGED <<requests, subscribed, bExchId, state, bTracked, reading, bBook, lossy, owed, repeated>>
      /\ requests \in Seq(BOOLEAN) /\ subscribed \in BOOLEAN /\ bExchId \in BybitIds /\ 0 \in BybitIds
  BY DEF SendOdd, Types, IdsAssumption, BybitIds
<1>3. m \in Message /\ m.id = 0 /\ ~FromBybit(m)
  <2> DEFINE O(t, b) == [type |-> t, id |-> 0, bad |-> b]
  <2>1. m \in {O("delta", TRUE), O("snapshot", TRUE), O("other", FALSE)}
    BY Zenon DEF Odd
  <2>2. O("delta", TRUE) \in Message /\ O("snapshot", TRUE) \in Message
        /\ O("other", FALSE) \in Message
    BY <1>2, Zenon DEF Message
  <2>3. ~FromBybit(O("delta", TRUE)) /\ ~FromBybit(O("snapshot", TRUE))
        /\ ~FromBybit(O("other", FALSE))
    BY Zenon DEF FromBybit
  <2>4. O("delta", TRUE).id = 0 /\ O("snapshot", TRUE).id = 0 /\ O("other", FALSE).id = 0
    OBVIOUS
  <2> HIDE DEF O
  <2> QED
    BY <2>1, <2>2, <2>3, <2>4, Zenon
<1>4. m.id <= bExchId' /\ bExchId <= bExchId' /\ bExchId' \in BybitIds
  BY <1>2, <1>3 DEF BybitIds
<1> QED
  BY <1>1, <1>2, <1>3, <1>4, AppendGrows, Zenon

(* The exchange answers a request: a snapshot comes unless it was          *)
(* subscribed already.                                                     *)
LEMMA AnswerGrows ==
  ASSUME IdsAssumption, Types, Answer
  PROVE  /\ Types' /\ Grows
         /\ requests # << >> /\ requests' = Tail(requests) /\ subscribed' = Head(requests)
         /\ Head(requests) /\ ~subscribed =>
              /\ 1 <= Len(bStream')
              /\ bStream'[Len(bStream')] = Snapshot(bExchId)
<1>0. /\ requests # << >> /\ requests' = Tail(requests) /\ subscribed' = Head(requests)
      /\ UNCHANGED <<bExchId, state, bTracked, reading, bBook, lossy, owed, repeated>>
  BY Zenon DEF Answer
<1>1. /\ bStream' = bStream \o (IF Head(requests) /\ ~subscribed
                               THEN <<Api, Snapshot(bExchId)>> ELSE <<Api>>)
  BY Zenon DEF Answer
<1>2. /\ requests \in Seq(BOOLEAN) /\ bStream \in Seq(Message) /\ bExchId \in BybitIds /\ 0 \in BybitIds
      /\ \A k \in 1 .. Len(bStream) : bStream[k].id <= bExchId
  BY DEF Types, IdsAssumption, BybitIds
<1>3. requests' \in Seq(BOOLEAN) /\ subscribed' \in BOOLEAN
  BY <1>0, <1>2
<1>4. /\ Api \in Message /\ Api.id = 0 /\ ~FromBybit(Api)
      /\ Snapshot(bExchId) \in Message /\ Snapshot(bExchId).id = bExchId
      /\ Snapshot(bExchId).type = "snapshot"
  BY <1>2, Zenon DEF Api, Snapshot, Message, FromBybit
<1>5. bExchId <= bExchId /\ 0 <= bExchId
  BY <1>2 DEF BybitIds
<1> DEFINE snap == Snapshot(bExchId)
<1> HIDE DEF snap
<1>6. CASE Head(requests) /\ ~subscribed
  <2>1. bStream' = bStream \o <<Api, snap>>
    BY <1>1, <1>6, Zenon DEF snap
  <2>2. snap \in Message /\ snap.id = bExchId /\ snap.type = "snapshot"
    BY <1>4, Zenon DEF snap
  <2>3. /\ bStream' \in Seq(Message) /\ Len(bStream) \in Nat /\ Len(bStream') = Len(bStream) + 2
        /\ \A k \in 1 .. Len(bStream) : bStream'[k] = bStream[k]
        /\ bStream'[Len(bStream) + 1] = Api /\ bStream'[Len(bStream) + 2] = snap
    BY <1>2, <1>4, <2>1, <2>2
  <2>4. \A k \in 1 .. Len(bStream') : k \in 1 .. Len(bStream) \/ k = Len(bStream) + 1 \/ k = Len(bStream) + 2
    BY <2>3
  <2>5. \A k \in 1 .. Len(bStream') : bStream'[k].id <= bExchId'
    BY <1>0, <1>2, <1>4, <1>5, <2>2, <2>3, <2>4, Zenon
  <2>6. Types'
    BY <1>0, <1>3, <2>3, <2>5, Zenon DEF Types
  <2>7. \A k \in Len(bStream) + 1 .. Len(bStream') : k = Len(bStream) + 1 \/ k = Len(bStream) + 2
    BY <2>3
  <2>8. ~FromBybit(bStream'[Len(bStream) + 1]) /\ Len(bStream) <= Len(bStream')
        /\ bExchId <= bStream'[Len(bStream) + 2].id /\ bStream'[Len(bStream) + 2].type # "delta"
    BY <1>4, <1>5, <2>2, <2>3
  <2>9. ASSUME NEW k \in Len(bStream) + 1 .. Len(bStream'), FromBybit(bStream'[k])
        PROVE  /\ k = Len(bStream') /\ bExchId <= bStream'[k].id
               /\ bStream'[k].type = "delta" => bExchId < bStream'[k].id
    <3>1. k = Len(bStream) + 2
      BY <2>7, <2>8, <2>9, Zenon
    <3> QED
      BY <2>3, <2>8, <3>1, Zenon
  <2>10. Grows
    <3>1. bExchId <= bExchId' /\ Len(bStream') \in Nat /\ Len(bStream) \in Nat
      BY <1>0, <1>5, <2>3
    <3>2. UNCHANGED <<state, bTracked, reading, bBook, lossy, owed, repeated>>
      BY <1>0, Zenon
    <3>3. \A k \in 1 .. Len(bStream) : bStream'[k] = bStream[k]
      BY <2>3, Zenon
    <3> QED
      BY <2>8, <2>9, <3>1, <3>2, <3>3, Zenon DEF Grows
  <2>11. 1 <= Len(bStream') /\ bStream'[Len(bStream')] = Snapshot(bExchId)
    BY <2>3 DEF snap
  <2> QED
    BY <1>0, <2>6, <2>10, <2>11, Zenon
<1>7. CASE ~(Head(requests) /\ ~subscribed)
  <2>1. bStream' = bStream \o <<Api>>
    BY <1>1, <1>7, Zenon
  <2>2. bStream' = Append(bStream, Api)
    BY <1>2, <1>4, <2>1
  <2>3. Types' /\ Grows
    BY <1>0, <1>2, <1>3, <1>4, <1>5, <2>2, AppendGrows, Zenon
  <2> QED
    BY <1>0, <1>7, <2>3, Zenon
<1> QED
  BY <1>6, <1>7, Zenon

(* The other two handlers keep the types.                                  *)
LEMMA TrackingTypes ==
  ASSUME Types, BybitHandleTrackingNewTradingPair
  PROVE  /\ Types' /\ requests = << >> /\ requests' = <<~subscribed>>
         /\ owed' = (owed /\ ~subscribed) /\ bTracked'
         /\ UNCHANGED <<state, subscribed, bExchId, bStream, reading, bBook, lossy, repeated>>
<1>1. /\ requests = << >> /\ requests' = <<~subscribed>>
      /\ owed' = (owed /\ ~subscribed) /\ bTracked' = TRUE
      /\ UNCHANGED <<state, subscribed, bExchId, bStream, reading, bBook, lossy, repeated>>
  BY Zenon DEF BybitHandleTrackingNewTradingPair, world
<1>2. requests' \in Seq(BOOLEAN)
  <2>1. (~subscribed) \in BOOLEAN
    OBVIOUS
  <2>2. <<~subscribed>> \in Seq(BOOLEAN)
    BY <2>1
  <2> QED
    BY <1>1, <2>2, Zenon
<1>3. owed' \in BOOLEAN /\ bTracked' \in BOOLEAN
  BY <1>1, Zenon
<1> QED
  BY <1>1, <1>2, <1>3, Zenon DEF Types

(* Types of the members after a cancellation.                              *)
LEMMA CancellationTypes ==
  ASSUME IdsAssumption, Types, BybitHandleCancellation
  PROVE  /\ Types' /\ state' = BidAskState /\ ~owed' /\ ~subscribed'
         /\ requests' = requests \/ requests' = << >>
         /\ UNCHANGED <<bExchId, bStream, reading, bBook, lossy, repeated>>
<1>1. /\ state' = BidAskState /\ bTracked' = FALSE /\ subscribed' = FALSE /\ owed' = FALSE
      /\ requests' = requests \/ requests' = << >>
      /\ UNCHANGED <<bExchId, bStream, reading, bBook, lossy, repeated>>
  BY Zenon DEF BybitHandleCancellation
<1>2. state' \in States
  BY <1>1 DEF BidAskState, States, IdsAssumption, BybitIds
<1>3. requests' \in Seq(BOOLEAN)
  <2>1. requests \in Seq(BOOLEAN) /\ << >> \in Seq(BOOLEAN)
    BY DEF Types
  <2> QED
    BY <1>1, <2>1, Zenon
<1> QED
  BY <1>1, <1>2, <1>3, Zenon DEF Types

-----------------------------------------------------------------------------
(* Why a consumer without a known loss has no gap: a snapshot that waits    *)
(* for the next delta is the last thing handled, so that this delta         *)
(* follows it.                                                              *)
GapInv ==
  ~lossy /\ ~repeated =>
    /\ BybitContiguous
    /\ state.needDiff /\ ~state.needSnapshot => bBook = 1 .. state.last
    /\ state.needSnapshot => state.last = state.snapshot

(* Two intervals and what one delta adds to them.                          *)
LEMMA NextInterval ==
  ASSUME IdsAssumption, NEW n \in BybitIds, NEW i \in BybitIds, i = n + 1
  PROVE  (1 .. n) \cup {i} = 1 .. i
  BY DEF BybitIds, IdsAssumption

(* A delta in order.                                                       *)
LEMMA GapNext ==
  ASSUME IdsAssumption, Types, GapInv, NEW i \in BybitIds, HandleNext(i), ~lossy', ~repeated
  PROVE  /\ BybitContiguous'
         /\ state'.needDiff => bBook' = 1 .. state'.last
         /\ state'.needSnapshot = FALSE
<1> DEFINE sync == state.needMake /\ i = state.snapshot + 1
           process == state.needSnapshot \/ sync
           diff == state.needDiff \/ process
<1>1. /\ i = state.last + 1
      /\ state' = [state EXCEPT !.last = i, !.needMake = @ /\ ~sync,
                                !.needSnapshot = FALSE, !.needDiff = diff]
      /\ bBook' = (IF process THEN 1 .. state.snapshot ELSE bBook)
                   \cup (IF diff THEN {i} ELSE {})
      /\ lossy' = (lossy /\ ~(process /\ i = state.snapshot + 1))
  BY Zenon DEF HandleNext, PacketLost
<1>2. state \in States
  BY Zenon DEF Types
<1>3. state'.last = i /\ state'.needSnapshot = FALSE /\ state'.needDiff = diff
  BY <1>1, <1>2, Zenon DEF States
<1>4. state.last \in BybitIds /\ state.snapshot \in BybitIds
  BY <1>2, Zenon DEF States
<1>5. CASE process
  <2>1. i = state.snapshot + 1
    <3>1. CASE lossy
      BY <1>1, <1>5, <3>1, Zenon
    <3>2. CASE ~lossy
      BY <1>1, <1>5, <3>2, Zenon DEF GapInv
    <3> QED
      BY <3>1, <3>2, Zenon
  <2>2. bBook' = (1 .. state.snapshot) \cup {i}
    BY <1>1, <1>5, Zenon
  <2>3. bBook' = 1 .. i
    BY <1>4, <2>1, <2>2, NextInterval, Zenon
  <2> QED
    BY <1>3, <2>3, Zenon DEF BybitContiguous
<1>6. CASE ~process
  <2>1. ~lossy
    BY <1>1, <1>6, Zenon
  <2>2. CASE state.needDiff
    <3>1. bBook = 1 .. state.last
      BY <1>6, <2>1, <2>2, Zenon DEF GapInv
    <3>2. bBook' = bBook \cup {i}
      BY <1>1, <1>6, <2>2, Zenon
    <3>3. bBook' = 1 .. i
      BY <1>1, <1>4, <3>1, <3>2, NextInterval, Zenon
    <3> QED
      BY <1>3, <3>3 DEF BybitContiguous
  <2>3. CASE ~state.needDiff
    <3>1. ~diff
      BY <1>6, <2>3, Zenon
    <3>2. bBook' = bBook
      BY <1>1, <1>6, <3>1, Zenon
    <3> QED
      BY <1>3, <2>1, <3>1, <3>2, Zenon DEF BybitContiguous, GapInv
  <2> QED
    BY <2>2, <2>3, Zenon
<1> QED
  BY <1>5, <1>6, Zenon

(* A message handled.                                                      *)
LEMMA GapResponse ==
  ASSUME IdsAssumption, Types, GapInv, HandleResponse
  PROVE  GapInv'
<1> SUFFICES ASSUME ~lossy', ~repeated'
             PROVE  /\ BybitContiguous'
                    /\ state'.needDiff /\ ~state'.needSnapshot => bBook' = 1 .. state'.last
                    /\ state'.needSnapshot => state'.last = state'.snapshot
  BY Zenon DEF GapInv
<1> DEFINE m == Head(bStream)
<1>1. m \in Message
  BY HeadMessage, Zenon
<1>2. /\ repeated' = (repeated \/ m = Snapshot(state.snapshot))
      /\ \/ HandleLoss(m.id)
         \/ HandleNext(m.id)
         \/ /\ m = Snapshot(m.id)
            /\ state' = BybitHandleNewSnapshotEvent(m.id)
            /\ UNCHANGED <<requests, bBook, lossy, owed>>
         \/ UNCHANGED <<state, requests, bBook, lossy, owed>>
  BY ResponseCases, Zenon
<1> HIDE DEF m
<1>3. m.id \in BybitIds /\ ~repeated /\ m # Snapshot(state.snapshot)
  BY <1>1, <1>2, Zenon DEF Message
<1>4. CASE HandleLoss(m.id)
  BY <1>4, Zenon DEF HandleLoss
<1>5. CASE HandleNext(m.id)
  BY <1>3, <1>5, GapNext, Zenon
<1>6. CASE /\ m = Snapshot(m.id) /\ state' = BybitHandleNewSnapshotEvent(m.id)
           /\ UNCHANGED <<requests, bBook, lossy, owed>>
  <2>1. m.id # state.snapshot
    BY <1>3, <1>6, Zenon
  <2>2. state' = [state EXCEPT !.needSnapshot = TRUE, !.snapshot = m.id, !.last = m.id]
    BY <1>6, <2>1, Zenon DEF BybitHandleNewSnapshotEvent
  <2>3. state'.needSnapshot = TRUE /\ state'.last = m.id /\ state'.snapshot = m.id
    BY <2>2, Zenon DEF Types, States
  <2>4. BybitContiguous'
    BY <1>3, <1>6, Zenon DEF GapInv, BybitContiguous
  <2> QED
    BY <2>3, <2>4, Zenon
<1>7. CASE UNCHANGED <<state, requests, bBook, lossy, owed>>
  BY <1>3, <1>7, Zenon DEF GapInv, BybitContiguous
<1> QED
  BY <1>2, <1>4, <1>5, <1>6, <1>7, Zenon

(* A step that leaves the generator and its consumer alone.                *)
LEMMA GapUntouched ==
  ASSUME GapInv, UNCHANGED <<state, bBook, lossy, repeated>>
  PROVE  GapInv'
  BY Zenon DEF GapInv, BybitContiguous

(* A stop: the state is new, the book stays.                               *)
LEMMA GapCancellation ==
  ASSUME IdsAssumption, Types, GapInv, BybitHandleCancellation
  PROVE  GapInv'
<1>1. state' = BidAskState /\ UNCHANGED <<bBook, lossy, repeated>>
  BY CancellationTypes, Zenon
<1>2. state'.needDiff = FALSE /\ state'.needSnapshot = FALSE
  BY <1>1, Zenon DEF BidAskState
<1>3. BybitContiguous <=> BybitContiguous'
  BY <1>1, Zenon DEF BybitContiguous
<1> QED
  BY <1>1, <1>2, <1>3, Zenon DEF GapInv

-----------------------------------------------------------------------------
(* Why a loss is pursued.  A request to subscribe never meets a            *)
(* subscription: it comes after a request to unsubscribe, or the exchange  *)
(* knows of none.  So it brings a snapshot, and the snapshot counts unless *)
(* another delta is missed before the next one, which asks again.          *)
Asked == \E k \in 1 .. Len(requests) : requests[k] = TRUE

Coming == \E k \in 1 .. Len(bStream) : bStream[k].type = "snapshot" /\ bStream[k].bad = FALSE

Arrived == state.needSnapshot = TRUE /\ state.last = state.snapshot

Alternate ==
  /\ requests # << >> /\ requests[1] = TRUE => subscribed = FALSE
  /\ \A k \in 1 .. Len(requests) - 1 : requests[k] = TRUE => requests[k + 1] = FALSE

PursuitInv ==
  /\ owed => bTracked
  /\ Alternate
  /\ owed /\ reading /\ ~repeated => Asked \/ Coming \/ Arrived

(* Resubscribe asks, and what it asks for alternates.                      *)
LEMMA ResubscribeAsks ==
  ASSUME requests \in Seq(BOOLEAN), Alternate, requests' = requests \o <<FALSE, TRUE>>,
         subscribed' = subscribed
  PROVE  Alternate' /\ Asked'
<1> DEFINE n == Len(requests)
<1>1. /\ n \in Nat /\ Len(requests') = n + 2
      /\ \A k \in 1 .. n : requests'[k] = requests[k]
      /\ requests'[n + 1] = FALSE /\ requests'[n + 2] = TRUE
  OBVIOUS
<1>2. requests # << >> <=> n > 0
  OBVIOUS
<1> HIDE DEF n
<1>3. Asked'
  BY <1>1 DEF Asked
<1>4. requests'[1] = TRUE => subscribed' = FALSE
  BY <1>1, <1>2 DEF Alternate
<1>5. ASSUME NEW k \in 1 .. Len(requests') - 1, requests'[k] = TRUE PROVE requests'[k + 1] = FALSE
  <2>1. CASE k \in 1 .. n - 1
    <3>1. requests'[k] = requests[k] /\ requests'[k + 1] = requests[k + 1]
      BY <1>1, <2>1
    <3> QED
      BY <1>5, <2>1, <3>1, Zenon DEF Alternate, n
  <2>2. CASE k = n
    BY <1>1, <2>2, Zenon
  <2>3. CASE k = n + 1
    BY <1>1, <1>5, <2>3, Zenon
  <2>4. k \in 1 .. n + 1
    <3>1. Len(requests') = n + 2 /\ n \in Nat
      BY <1>1, Zenon
    <3> QED
      BY <3>1
  <2>5. n \in Nat
    BY <1>1, Zenon
  <2>6. k \in 1 .. n - 1 \/ k = n \/ k = n + 1
    BY <2>4, <2>5
  <2> QED
    BY <2>1, <2>2, <2>3, <2>6, Zenon
<1> QED
  BY <1>3, <1>4, <1>5, Zenon DEF Alternate

(* A snapshot on its way stays so when another message is handled.         *)
LEMMA ComingStays ==
  ASSUME Types, HandleResponse, Coming,
         Head(bStream).type # "snapshot" \/ Head(bStream).bad # FALSE
  PROVE  Coming'
<1>1. PICK k \in 1 .. Len(bStream) : bStream[k].type = "snapshot" /\ bStream[k].bad = FALSE
  BY Zenon DEF Coming
<1>2. /\ Head(bStream) = bStream[1] /\ Len(bStream) \in Nat \ {0} /\ Len(bStream') = Len(bStream) - 1
      /\ \A j \in 1 .. Len(bStream') : bStream'[j] = bStream[j + 1]
  BY HeadMessage, Zenon
<1>3. k # 1
  BY <1>1, <1>2, Zenon
<1>4. k - 1 \in 1 .. Len(bStream') /\ (k - 1) + 1 = k
  BY <1>2, <1>3
<1>5. bStream'[k - 1] = bStream[k]
  BY <1>2, <1>4, Zenon
<1> QED
  BY <1>1, <1>4, <1>5, Zenon DEF Coming

(* A message handled.                                                      *)
LEMMA PursuitResponse ==
  ASSUME IdsAssumption, Types, PursuitInv, HandleResponse
  PROVE  PursuitInv'
<1> DEFINE m == Head(bStream)
<1>1. m \in Message /\ UNCHANGED <<bTracked, subscribed>>
  BY HeadMessage, Zenon
<1>2. /\ repeated' = (repeated \/ m = Snapshot(state.snapshot))
      /\ \/ m.type = "delta" /\ HandleLoss(m.id)
         \/ m.type = "delta" /\ HandleNext(m.id)
         \/ /\ m = Snapshot(m.id)
            /\ state' = BybitHandleNewSnapshotEvent(m.id)
            /\ UNCHANGED <<requests, bBook, lossy, owed>>
         \/ ~FromBybit(m) /\ UNCHANGED <<state, requests, bBook, lossy, owed>>
  BY ResponseCases, Zenon
<1>3. Coming /\ (m.type # "snapshot" \/ m.bad # FALSE) => Coming'
  BY ComingStays, Zenon
<1> HIDE DEF m
<1>4. reading /\ state \in States /\ requests \in Seq(BOOLEAN)
  BY Zenon DEF HandleResponse, Types
<1>5. UNCHANGED <<requests, subscribed>> => Alternate' /\ (Asked => Asked')
  BY Zenon DEF PursuitInv, Alternate, Asked
<1>6. CASE HandleLoss(m.id)
  <2>1. /\ owed' = (owed \/ bTracked)
        /\ requests' = IF bTracked THEN requests \o <<FALSE, TRUE>> ELSE requests
    BY <1>6, Zenon DEF HandleLoss, Resubscribe, RequestSubscribe
  <2>2. CASE bTracked
    <3>1. requests' = requests \o <<FALSE, TRUE>>
      BY <2>1, <2>2, Zenon
    <3>2. Alternate' /\ Asked'
      BY <1>1, <1>4, <3>1, ResubscribeAsks, Zenon DEF PursuitInv
    <3> QED
      BY <1>1, <2>2, <3>2, Zenon DEF PursuitInv
  <2>3. CASE ~bTracked
    <3>1. ~owed'
      BY <2>1, <2>3, Zenon DEF PursuitInv
    <3>2. requests' = requests
      BY <2>1, <2>3, Zenon
    <3> QED
      BY <1>1, <1>5, <3>1, <3>2, Zenon DEF PursuitInv
  <2> QED
    BY <2>2, <2>3, Zenon
<1>7. CASE m.type = "delta" /\ HandleNext(m.id)
  <2>1. /\ m.id = state.last + 1
        /\ lossy' = (lossy /\ ~((state.needSnapshot \/ (state.needMake /\ m.id = state.snapshot + 1))
                                /\ m.id = state.snapshot + 1))
        /\ owed' = (owed /\ lossy') /\ requests' = requests
    BY <1>7, Zenon DEF HandleNext, PacketLost
  <2>2. Alternate' /\ (Asked => Asked') /\ (Coming => Coming')
    BY <1>1, <1>3, <1>5, <1>7, <2>1, Zenon
  <2>3. ASSUME owed', reading', ~repeated' PROVE Asked' \/ Coming' \/ Arrived'
    <3>1. owed /\ ~repeated /\ lossy'
      BY <1>2, <2>1, <2>3, Zenon
    <3>2. ~Arrived
      BY <2>1, <3>1, Zenon DEF Arrived
    <3> QED
      BY <1>4, <2>2, <3>1, <3>2, Zenon DEF PursuitInv
  <2> QED
    BY <1>1, <2>1, <2>2, <2>3, Zenon DEF PursuitInv
<1>8. CASE /\ m = Snapshot(m.id) /\ state' = BybitHandleNewSnapshotEvent(m.id)
           /\ UNCHANGED <<requests, bBook, lossy, owed>>
  <2>1. ASSUME ~repeated' PROVE Arrived'
    <3>1. m.id # state.snapshot
      BY <1>2, <1>8, <2>1, Zenon
    <3>2. state' = [state EXCEPT !.needSnapshot = TRUE, !.snapshot = m.id, !.last = m.id]
      BY <1>8, <3>1, Zenon DEF BybitHandleNewSnapshotEvent
    <3>3. state'.needSnapshot = TRUE /\ state'.last = m.id /\ state'.snapshot = m.id
      BY <1>4, <3>2, Zenon DEF States
    <3> QED
      BY <3>3, Zenon DEF Arrived
  <2> QED
    BY <1>1, <1>5, <1>8, <2>1, Zenon DEF PursuitInv
<1>9. CASE ~FromBybit(m) /\ UNCHANGED <<state, requests, bBook, lossy, owed>>
  <2>1. m.type # "snapshot" \/ m.bad # FALSE
    BY <1>9, Zenon DEF FromBybit
  <2>2. Alternate' /\ (Asked => Asked') /\ (Coming => Coming') /\ (Arrived => Arrived')
    BY <1>1, <1>3, <1>5, <1>9, <2>1, Zenon DEF Arrived
  <2>3. ~repeated' => ~repeated
    BY <1>2, Zenon
  <2> QED
    BY <1>1, <1>4, <1>9, <2>2, <2>3, Zenon DEF PursuitInv
<1> QED
  BY <1>2, <1>6, <1>7, <1>8, <1>9, Zenon

(* The program subscribes, or unsubscribes and no longer wants the         *)
(* snapshot.                                                               *)
LEMMA PursuitTracking ==
  ASSUME Types, PursuitInv, BybitHandleTrackingNewTradingPair
  PROVE  PursuitInv'
<1>1. /\ requests' = <<~subscribed>> /\ owed' = (owed /\ ~subscribed) /\ bTracked'
      /\ UNCHANGED subscribed /\ subscribed \in BOOLEAN
  BY TrackingTypes, Zenon DEF Types
<1>2. Len(requests') = 1 /\ requests'[1] = ~subscribed
  BY <1>1, Zenon
<1>3. Alternate'
  <2>1. \A k \in 1 .. Len(requests') - 1 : FALSE
    BY <1>2
  <2>2. requests'[1] = TRUE => subscribed' = FALSE
    BY <1>1, <1>2, Zenon
  <2> QED
    BY <2>1, <2>2, Zenon DEF Alternate
<1>4. owed' => Asked'
  <2>1. owed' => requests'[1] = TRUE
    BY <1>1, <1>2, Zenon
  <2> QED
    BY <1>2, <2>1 DEF Asked
<1> QED
  BY <1>1, <1>3, <1>4, Zenon DEF PursuitInv

(* A stop: nothing is owed any more.                                       *)
LEMMA PursuitCancellation ==
  ASSUME IdsAssumption, Types, PursuitInv, BybitHandleCancellation
  PROVE  PursuitInv'
<1>1. ~owed' /\ subscribed' = FALSE /\ (requests' = requests \/ requests' = << >>)
  BY CancellationTypes, Zenon DEF BybitHandleCancellation
<1>2. Alternate'
  <2>1. CASE requests' = requests
    BY <1>1, <2>1, Zenon DEF PursuitInv, Alternate
  <2>2. CASE requests' = << >>
    <3>1. Len(requests') = 0
      BY <2>2, Zenon
    <3>2. \A k \in 1 .. Len(requests') - 1 : FALSE
      BY <3>1
    <3> QED
      BY <1>1, <3>2, Zenon DEF Alternate
  <2> QED
    BY <1>1, <2>1, <2>2, Zenon
<1> QED
  BY <1>1, <1>2, Zenon DEF PursuitInv

(* More messages, the same requests.                                       *)
LEMMA ComingGrows ==
  ASSUME Grows, Coming
  PROVE  Coming'
<1>1. PICK k \in 1 .. Len(bStream) : bStream[k].type = "snapshot" /\ bStream[k].bad = FALSE
  BY Zenon DEF Coming
<1>2. k \in 1 .. Len(bStream') /\ bStream'[k] = bStream[k]
  BY DEF Grows
<1> QED
  BY <1>1, <1>2, Zenon DEF Coming

(* What is pursued stays so when more is on its way.                       *)
LEMMA PursuitGrows ==
  ASSUME PursuitInv, Grows, UNCHANGED <<requests, subscribed>>
  PROVE  PursuitInv'
<1>1. UNCHANGED <<state, bTracked, reading, owed, repeated>>
  BY Zenon DEF Grows
<1>2. Coming => Coming'
  BY ComingGrows, Zenon
<1>3. Alternate' /\ (Asked => Asked') /\ (Arrived => Arrived')
  BY <1>1, Zenon DEF PursuitInv, Alternate, Asked, Arrived
<1> QED
  BY <1>1, <1>2, <1>3, Zenon DEF PursuitInv

(* The exchange answers: a request to subscribe becomes a snapshot.        *)
LEMMA PursuitAnswer ==
  ASSUME IdsAssumption, Types, PursuitInv, Answer
  PROVE  PursuitInv'
<1>1. /\ Grows /\ requests # << >> /\ requests' = Tail(requests) /\ subscribed' = Head(requests)
      /\ Head(requests) /\ ~subscribed =>
           1 <= Len(bStream') /\ bStream'[Len(bStream')] = Snapshot(bExchId)
  BY AnswerGrows, Zenon
<1>2. UNCHANGED <<state, bTracked, reading, owed, repeated>> /\ Len(bStream') \in Nat
  BY <1>1, Zenon DEF Grows
<1>3. requests \in Seq(BOOLEAN) /\ requests # << >> /\ requests' = Tail(requests)
  BY <1>1, Zenon DEF Types
<1>4. /\ Len(requests) \in Nat \ {0} /\ Len(requests') = Len(requests) - 1
      /\ Head(requests) = requests[1] /\ Head(requests) \in BOOLEAN
      /\ \A k \in 1 .. Len(requests') : requests'[k] = requests[k + 1]
  BY <1>3
<1>5. Alternate'
  <2>1. ASSUME requests' # << >>, requests'[1] = TRUE PROVE subscribed' = FALSE
    <3>1. Len(requests') > 0
      BY <1>3, <2>1
    <3>2. requests'[1] = requests[1 + 1] /\ 1 \in 1 .. Len(requests) - 1
      BY <1>4, <3>1
    <3>3. requests[1] = TRUE => requests[1 + 1] = FALSE
      BY <3>2, Zenon DEF PursuitInv, Alternate
    <3>4. requests[1 + 1] = TRUE
      BY <2>1, <3>2, Zenon
    <3>5. requests[1] # TRUE
      BY <3>3, <3>4, Zenon
    <3> QED
      BY <1>1, <1>4, <3>5, Zenon
  <2>2. ASSUME NEW k \in 1 .. Len(requests') - 1, requests'[k] = TRUE PROVE requests'[k + 1] = FALSE
    <3>1. k + 1 \in 1 .. Len(requests) - 1 /\ k \in 1 .. Len(requests') /\ k + 1 \in 1 .. Len(requests')
      BY <1>4
    <3>2. requests'[k] = requests[k + 1] /\ requests'[k + 1] = requests[(k + 1) + 1]
      BY <1>4, <3>1, Zenon
    <3> QED
      BY <2>2, <3>1, <3>2, Zenon DEF PursuitInv, Alternate
  <2> QED
    BY <2>1, <2>2, Zenon DEF Alternate
<1>6. Asked => Asked' \/ requests[1] = TRUE
  <2> SUFFICES ASSUME NEW k \in 1 .. Len(requests), requests[k] = TRUE, k # 1
               PROVE  Asked'
    BY Zenon DEF Asked
  <2>1. k - 1 \in 1 .. Len(requests') /\ (k - 1) + 1 = k
    BY <1>4
  <2>2. requests'[k - 1] = requests[k]
    BY <1>4, <2>1, Zenon
  <2> QED
    BY <2>1, <2>2, Zenon DEF Asked
<1>7. requests[1] = TRUE => Coming'
  <2> SUFFICES ASSUME requests[1] = TRUE PROVE Coming'
    BY Zenon
  <2>1. subscribed = FALSE
    BY <1>3, Zenon DEF PursuitInv, Alternate
  <2>2. 1 <= Len(bStream') /\ bStream'[Len(bStream')] = Snapshot(bExchId)
    BY <1>1, <1>4, <2>1, Zenon
  <2>3. Len(bStream') \in 1 .. Len(bStream')
    BY <1>2, <2>2
  <2>4. Snapshot(bExchId).type = "snapshot" /\ Snapshot(bExchId).bad = FALSE
    BY Zenon DEF Snapshot
  <2> QED
    BY <2>2, <2>3, <2>4, Zenon DEF Coming
<1>8. (Coming => Coming') /\ (Arrived => Arrived')
  BY <1>1, <1>2, ComingGrows, Zenon DEF Arrived
<1> QED
  BY <1>2, <1>5, <1>6, <1>7, <1>8, Zenon DEF PursuitInv

(* The consumer has a gap only while a loss is known, and a known loss is  *)
(* pursued until its snapshot has arrived, for any ids and any number of   *)
(* lost and odd messages, stops and unsubscriptions.                       *)
THEOREM LossIsKnown ==
  ASSUME IdsAssumption
  PROVE  BybitSpec => []BybitLossIsKnown
<1> DEFINE Inv == Types /\ GapInv /\ PursuitInv
<1>1. BybitInit => Inv
  <2> SUFFICES ASSUME BybitInit PROVE Inv
    OBVIOUS
  <2>1. Types
    BY InitTypes, Zenon
  <2>2. /\ state = BidAskState /\ bBook = {} /\ requests = << >> /\ owed = FALSE
        /\ state.needDiff = FALSE /\ state.needSnapshot = FALSE
    BY Zenon DEF BybitInit, BidAskState
  <2>3. bBook = 1 .. 0 /\ 0 \in BybitIds
    BY <2>2 DEF IdsAssumption, BybitIds
  <2>4. GapInv
    BY <2>2, <2>3, Zenon DEF GapInv, BybitContiguous
  <2>5. Len(requests) = 0
    BY <2>2, Zenon
  <2>6. Alternate
    BY <2>2, <2>5 DEF Alternate
  <2> QED
    BY <2>1, <2>2, <2>4, <2>6, Zenon DEF PursuitInv
<1>2. Inv /\ [BybitNext]_bybitVars => Inv'
  <2> SUFFICES ASSUME Inv, [BybitNext]_bybitVars PROVE Inv'
    OBVIOUS
  <2>1. CASE BybitHandleTrackingNewTradingPair
    BY <2>1, TrackingTypes, PursuitTracking, GapUntouched, Zenon
  <2>2. CASE HandleResponse
    BY <2>2, ResponseTypes, GapResponse, PursuitResponse, Zenon
  <2>3. CASE BybitHandleCancellation
    BY <2>3, CancellationTypes, GapCancellation, PursuitCancellation, Zenon
  <2>4. CASE BybitPublish
    <3>1. Types' /\ Grows /\ UNCHANGED <<requests, subscribed>>
      BY <2>4, PublishGrows, Zenon
    <3> QED
      BY <3>1, PursuitGrows, GapUntouched, Zenon DEF Grows
  <2>5. CASE Answer
    <3>1. Types' /\ Grows
      BY <2>5, AnswerGrows, Zenon
    <3> QED
      BY <2>5, <3>1, PursuitAnswer, GapUntouched, Zenon DEF Grows
  <2>6. CASE SendOdd
    <3>1. Types' /\ Grows /\ UNCHANGED <<requests, subscribed>>
      BY <2>6, SendOddGrows
    <3> QED
      BY <3>1, PursuitGrows, GapUntouched DEF Grows
  <2>7. CASE UNCHANGED bybitVars
    BY <2>7, Zenon DEF bybitVars, world, Types, GapInv, BybitContiguous, PursuitInv, Alternate, Asked, Coming, Arrived
  <2> QED
    BY <2>1, <2>2, <2>3, <2>4, <2>5, <2>6, <2>7, Zenon DEF BybitNext
<1>3. Inv => BybitLossIsKnown
  <2> SUFFICES ASSUME Inv PROVE BybitLossIsKnown
    OBVIOUS
  <2>1. bStream \in Seq(Message) /\ requests \in Seq(BOOLEAN) /\ state \in States
    BY Zenon DEF Types
  <2>2. DOMAIN bStream = 1 .. Len(bStream) /\ DOMAIN requests = 1 .. Len(requests)
    BY <2>1
  <2>3. state.last \in BybitIds /\ state.snapshot \in BybitIds
    BY <2>1, Zenon DEF States
  <2>4. BybitTypeOK
    BY <2>2, <2>3, Zenon DEF Types, BybitTypeOK
  <2>5. GapOnlyAfterLoss
    BY Zenon DEF GapInv, GapOnlyAfterLoss
  <2>6. Asked => \E k \in DOMAIN requests : requests[k]
    BY <2>2, Zenon DEF Asked
  <2>7. Coming => \E k \in DOMAIN bStream : bStream[k].type = "snapshot"
    BY <2>2, Zenon DEF Coming
  <2>8. Arrived => state.needSnapshot
    BY Zenon DEF Arrived
  <2> QED
    BY <2>4, <2>5, <2>6, <2>7, <2>8, Zenon DEF BybitLossIsKnown, PursuitInv, LossIsPursued
<1> QED
  BY <1>1, <1>2, <1>3, PTL DEF BybitSpec

-----------------------------------------------------------------------------
(* Why the consumer is never taken back.  Messages arrive in the order the *)
(* exchange made them, so that each one follows all the consumer has, and  *)
(* a snapshot that waits contains all of it.                               *)
Follows(m, n) == n <= m.id /\ (m.type = "delta" => n < m.id)

Ordered ==
  \A k \in 1 .. Len(bStream) : FromBybit(bStream[k]) =>
    /\ Follows(bStream[k], 0) /\ Follows(bStream[k], state.snapshot)
    /\ \A b \in bBook : Follows(bStream[k], b)
    /\ \A j \in 1 .. k - 1 : FromBybit(bStream[j]) => Follows(bStream[k], bStream[j].id)

Held ==
  /\ \A b \in bBook : 1 <= b /\ b <= bExchId
  /\ state.snapshot <= bExchId
  /\ state.needSnapshot => \A b \in bBook : b <= state.snapshot

(* The part of the book without a gap is 1 .. n.                           *)
WholeTo(n) == 1 .. n \subseteq bBook /\ n + 1 \notin bBook

OrderInv == Ordered /\ Held /\ \E n \in BybitIds : WholeTo(n)

(* The id of a message on its way is a natural number.                     *)
LEMMA MessageIds ==
  ASSUME IdsAssumption, NEW s \in Seq(Message), NEW k \in 1 .. Len(s)
  PROVE  s[k].id \in Nat
<1>1. s[k] \in Message
  OBVIOUS
<1> QED
  BY <1>1 DEF Message, BybitIds, IdsAssumption

(* A delta in order: the book keeps what it has, and the part without a    *)
(* gap is an interval again.                                               *)
LEMMA NextForward ==
  ASSUME IdsAssumption, Types, OrderInv, NEW i \in BybitIds, 0 < i, i <= bExchId,
         \A b \in bBook : b < i, HandleNext(i)
  PROVE  /\ bBook \subseteq bBook' /\ bBook' \subseteq bBook \cup 1 .. state.snapshot \cup {i}
         /\ \E n \in BybitIds : WholeTo(n)'
         /\ state'.needSnapshot = FALSE /\ state'.snapshot = state.snapshot
<1> DEFINE sync == state.needMake /\ i = state.snapshot + 1
           process == state.needSnapshot \/ sync
           diff == state.needDiff \/ process
<1>1. /\ state' = [state EXCEPT !.last = i, !.needMake = @ /\ ~sync,
                                !.needSnapshot = FALSE, !.needDiff = diff]
      /\ bBook' = (IF process THEN 1 .. state.snapshot ELSE bBook)
                   \cup (IF diff THEN {i} ELSE {})
  BY Zenon DEF HandleNext
<1>2. state \in States /\ bBook \subseteq BybitIds
  BY Zenon DEF Types
<1>3. state'.needSnapshot = FALSE /\ state'.snapshot = state.snapshot
  BY <1>1, <1>2, Zenon DEF States
<1>4. state.snapshot \in BybitIds /\ state.snapshot \in Nat /\ i \in Nat /\ bBook \subseteq Nat
  BY <1>2 DEF States, BybitIds, IdsAssumption
<1>5. CASE process
  <2>1. bBook' = (1 .. state.snapshot) \cup {i}
    BY <1>1, <1>5, Zenon
  <2>2. \A b \in bBook : 1 <= b /\ b <= state.snapshot
    <3>1. CASE state.needSnapshot
      BY <3>1, Zenon DEF OrderInv, Held
    <3>2. CASE sync
      BY <3>2, <1>4 DEF OrderInv, Held
    <3> QED
      BY <1>5, <3>1, <3>2, Zenon
  <2>3. bBook \subseteq bBook'
    BY <1>4, <2>1, <2>2
  <2>4. \E n \in BybitIds : WholeTo(n)'
    <3>1. CASE i = state.snapshot + 1
      <4>1. 1 .. i \subseteq bBook' /\ i + 1 \notin bBook'
        BY <1>4, <2>1, <3>1
      <4> QED
        BY <4>1, Zenon DEF WholeTo
    <3>2. CASE i # state.snapshot + 1
      <4>1. 1 .. state.snapshot \subseteq bBook' /\ state.snapshot + 1 \notin bBook'
        BY <1>4, <2>1, <3>2
      <4> QED
        BY <1>4, <4>1, Zenon DEF WholeTo
    <3> QED
      BY <3>1, <3>2, Zenon
  <2> QED
    BY <1>3, <2>1, <2>3, <2>4, Zenon
<1>6. CASE ~process
  <2>1. bBook' = bBook \/ bBook' = bBook \cup {i}
    BY <1>1, <1>6, Zenon
  <2>2. PICK n \in BybitIds : 1 .. n \subseteq bBook /\ n + 1 \notin bBook
    BY Zenon DEF OrderInv, WholeTo
  <2>3. n \in Nat
    BY DEF BybitIds, IdsAssumption
  <2>4. \E k \in BybitIds : WholeTo(k)'
    <3>1. CASE bBook' = bBook \/ i # n + 1
      <4>1. 1 .. n \subseteq bBook' /\ n + 1 \notin bBook'
        BY <2>1, <2>2, <3>1, Zenon
      <4> QED
        BY <4>1, Zenon DEF WholeTo
    <3>2. CASE bBook' = bBook \cup {i} /\ i = n + 1
      <4>1. 1 .. i \subseteq bBook'
        BY <1>4, <2>2, <2>3, <3>2
      <4>2. i + 1 \notin bBook'
        BY <1>4, <3>2
      <4> QED
        BY <4>1, <4>2, Zenon DEF WholeTo
    <3> QED
      BY <2>1, <3>1, <3>2, Zenon
  <2> QED
    BY <1>3, <2>1, <2>4, Zenon
<1> QED
  BY <1>5, <1>6, Zenon

(* A message handled.                                                      *)
LEMMA OrderResponse ==
  ASSUME IdsAssumption, Types, OrderInv, HandleResponse
  PROVE  OrderInv' /\ bBook \subseteq bBook'
<1> DEFINE m == Head(bStream)
<1>1. /\ m \in Message /\ m.id <= bExchId /\ m = bStream[1] /\ Len(bStream) \in Nat \ {0}
      /\ Len(bStream') = Len(bStream) - 1 /\ UNCHANGED bExchId
      /\ \A k \in 1 .. Len(bStream') : bStream'[k] = bStream[k + 1] /\ k + 1 \in 1 .. Len(bStream)
  BY HeadMessage, Zenon
<1>2. \/ FromBybit(m) /\ m.type = "delta" /\ HandleLoss(m.id)
      \/ FromBybit(m) /\ m.type = "delta" /\ HandleNext(m.id)
      \/ /\ FromBybit(m) /\ state' = BybitHandleNewSnapshotEvent(m.id)
         /\ UNCHANGED bBook
      \/ ~FromBybit(m) /\ UNCHANGED <<state, bBook>>
  BY ResponseCases, Zenon
<1> HIDE DEF m
<1>3. m.id \in BybitIds /\ m.id \in Nat /\ state \in States
  BY <1>1 DEF Message, Types, BybitIds, IdsAssumption
<1>4. state.snapshot \in Nat /\ bExchId \in Nat /\ bBook \subseteq Nat
  BY <1>3 DEF States, Types, BybitIds, IdsAssumption
<1>5. 1 \in 1 .. Len(bStream)
  BY <1>1
<1>6. FromBybit(m) =>
        Follows(m, 0) /\ Follows(m, state.snapshot) /\ \A b \in bBook : Follows(m, b)
  BY <1>1, <1>5, Zenon DEF OrderInv, Ordered
<1>7. \A k \in 1 .. Len(bStream') : FromBybit(bStream'[k]) =>
        /\ Follows(bStream'[k], 0) /\ Follows(bStream'[k], state.snapshot)
        /\ \A b \in bBook : Follows(bStream'[k], b)
        /\ \A j \in 1 .. k - 1 : FromBybit(bStream'[j]) => Follows(bStream'[k], bStream'[j].id)
        /\ FromBybit(m) => Follows(bStream'[k], m.id)
  <2> SUFFICES ASSUME NEW k \in 1 .. Len(bStream'), FromBybit(bStream'[k])
               PROVE  /\ Follows(bStream'[k], 0) /\ Follows(bStream'[k], state.snapshot)
                      /\ \A b \in bBook : Follows(bStream'[k], b)
                      /\ \A j \in 1 .. k - 1 :
                           FromBybit(bStream'[j]) => Follows(bStream'[k], bStream'[j].id)
                      /\ FromBybit(m) => Follows(bStream'[k], m.id)
    OBVIOUS
  <2>1. bStream'[k] = bStream[k + 1] /\ k + 1 \in 1 .. Len(bStream)
    BY <1>1, Zenon
  <2>2. /\ Follows(bStream'[k], 0) /\ Follows(bStream'[k], state.snapshot)
        /\ \A b \in bBook : Follows(bStream'[k], b)
        /\ \A j \in 1 .. (k + 1) - 1 : FromBybit(bStream[j]) => Follows(bStream'[k], bStream[j].id)
    BY <2>1, Zenon DEF OrderInv, Ordered
  <2>3. 1 \in 1 .. (k + 1) - 1
    BY <1>1
  <2>4. ASSUME NEW j \in 1 .. k - 1, FromBybit(bStream'[j])
        PROVE  Follows(bStream'[k], bStream'[j].id)
    <3>1. j \in 1 .. Len(bStream') /\ j + 1 \in 1 .. (k + 1) - 1
      BY <1>1
    <3>2. bStream'[j] = bStream[j + 1]
      BY <1>1, <3>1, Zenon
    <3> QED
      BY <2>2, <2>4, <3>1, <3>2, Zenon
  <2> QED
    BY <1>1, <2>2, <2>3, <2>4, Zenon
<1>8. CASE ~FromBybit(m) /\ UNCHANGED <<state, bBook>>
  <2>1. Ordered'
    BY <1>7, <1>8, Zenon DEF Ordered
  <2> QED
    BY <1>1, <1>8, <2>1, Zenon DEF OrderInv, Held, WholeTo
<1>9. CASE HandleLoss(m.id)
  <2>1. state' = [state EXCEPT !.last = m.id] /\ UNCHANGED bBook
    BY <1>9, Zenon DEF HandleLoss
  <2>2. state'.snapshot = state.snapshot /\ state'.needSnapshot = state.needSnapshot
    BY <1>3, <2>1, Zenon DEF States
  <2>3. Ordered'
    BY <1>7, <2>1, <2>2, Zenon DEF Ordered
  <2> QED
    BY <1>1, <2>1, <2>2, <2>3, Zenon DEF OrderInv, Held, WholeTo
<1>10. CASE FromBybit(m) /\ state' = BybitHandleNewSnapshotEvent(m.id) /\ UNCHANGED bBook
  <2>1. CASE m.id = state.snapshot
    <3>1. state'.snapshot = state.snapshot /\ state'.needSnapshot = FALSE
      BY <1>3, <1>10, <2>1, Zenon DEF BybitHandleNewSnapshotEvent, States
    <3>2. Ordered'
      BY <1>7, <1>10, <3>1, Zenon DEF Ordered
    <3> QED
      BY <1>1, <1>10, <3>1, <3>2, Zenon DEF OrderInv, Held, WholeTo
  <2>2. CASE m.id # state.snapshot
    <3>1. state'.snapshot = m.id
      BY <1>3, <1>10, <2>2, Zenon DEF BybitHandleNewSnapshotEvent, States
    <3>2. Ordered'
      BY <1>7, <1>10, <3>1, Zenon DEF Ordered
    <3>3. \A b \in bBook : b <= m.id
      BY <1>6, <1>10, Zenon DEF Follows
    <3> QED
      BY <1>1, <1>10, <3>1, <3>2, <3>3, Zenon DEF OrderInv, Held, WholeTo
  <2> QED
    BY <2>1, <2>2, Zenon
<1>11. CASE FromBybit(m) /\ m.type = "delta" /\ HandleNext(m.id)
  <2>1. 0 < m.id /\ \A b \in bBook : b < m.id
    BY <1>6, <1>11, Zenon DEF Follows
  <2>2. /\ bBook \subseteq bBook' /\ bBook' \subseteq bBook \cup 1 .. state.snapshot \cup {m.id}
        /\ \E n \in BybitIds : WholeTo(n)'
        /\ state'.needSnapshot = FALSE /\ state'.snapshot = state.snapshot
    BY <1>1, <1>3, <1>11, <2>1, NextForward, Zenon
  <2>3. \A b \in bBook' : 1 <= b /\ b <= bExchId'
    <3> SUFFICES ASSUME NEW b \in bBook' PROVE 1 <= b /\ b <= bExchId
      BY <1>1, Zenon
    <3>1. CASE b \in bBook
      BY <3>1, Zenon DEF OrderInv, Held
    <3>2. CASE b \in 1 .. state.snapshot
      BY <1>4, <3>2 DEF OrderInv, Held
    <3>3. CASE b = m.id
      BY <1>1, <1>3, <2>1, <3>3
    <3> QED
      BY <2>2, <3>1, <3>2, <3>3, Zenon
  <2>4. ASSUME NEW k \in 1 .. Len(bStream'), FromBybit(bStream'[k]), NEW b \in bBook'
        PROVE  Follows(bStream'[k], b)
    <3>0. bStream'[k].id \in Nat
      <4>1. bStream' \in Seq(Message)
        BY HeadMessage, Zenon
      <4> QED
        BY <4>1, MessageIds, Zenon
    <3>1. CASE b \in bBook
      BY <1>7, <2>4, <3>1, Zenon
    <3>2. CASE b \in 1 .. state.snapshot
      <4>1. Follows(bStream'[k], state.snapshot)
        BY <1>7, <2>4, Zenon
      <4> QED
        BY <1>4, <3>0, <3>2, <4>1 DEF Follows
    <3>3. CASE b = m.id
      BY <1>7, <1>11, <2>4, <3>3, Zenon
    <3> QED
      BY <2>2, <3>1, <3>2, <3>3, Zenon
  <2>5. Ordered'
    BY <1>7, <2>2, <2>4, Zenon DEF Ordered
  <2>6. Held'
    BY <1>1, <2>2, <2>3, Zenon DEF OrderInv, Held
  <2> QED
    BY <2>2, <2>5, <2>6, Zenon DEF OrderInv
<1> QED
  BY <1>2, <1>8, <1>9, <1>10, <1>11, Zenon

(* The exchange sends: what it adds follows all it has sent.               *)
LEMMA OrderGrows ==
  ASSUME IdsAssumption, Types, Types', OrderInv, Grows
  PROVE  OrderInv' /\ bBook' = bBook
<1>1. /\ UNCHANGED <<state, bBook>> /\ bExchId <= bExchId'
      /\ Len(bStream) \in Nat /\ Len(bStream') \in Nat /\ Len(bStream) <= Len(bStream')
      /\ \A k \in 1 .. Len(bStream) : bStream'[k] = bStream[k]
  BY Zenon DEF Grows
<1>2. bExchId \in Nat /\ bExchId' \in Nat /\ state.snapshot \in Nat /\ bBook \subseteq Nat
  BY DEF Types, States, BybitIds, IdsAssumption
<1>3. Held'
  BY <1>1, <1>2 DEF OrderInv, Held
<1>4. Ordered'
  <2> SUFFICES ASSUME NEW k \in 1 .. Len(bStream'), FromBybit(bStream'[k])
               PROVE  /\ Follows(bStream'[k], 0) /\ Follows(bStream'[k], state.snapshot)
                      /\ \A b \in bBook : Follows(bStream'[k], b)
                      /\ \A j \in 1 .. k - 1 :
                           FromBybit(bStream'[j]) => Follows(bStream'[k], bStream'[j].id)
    BY <1>1, Zenon DEF Ordered
  <2>1. CASE k \in 1 .. Len(bStream)
    <3>1. bStream'[k] = bStream[k] /\ \A j \in 1 .. k - 1 : bStream'[j] = bStream[j]
      BY <1>1, <2>1
    <3> QED
      BY <2>1, <3>1, Zenon DEF OrderInv, Ordered
  <2>2. CASE k \in Len(bStream) + 1 .. Len(bStream')
    <3>1. /\ k = Len(bStream') /\ bExchId <= bStream'[k].id
          /\ bStream'[k].type = "delta" => bExchId < bStream'[k].id
      BY <2>2, Zenon DEF Grows
    <3>2. bStream'[k].id \in Nat
      <4>1. bStream' \in Seq(Message)
        BY Zenon DEF Types
      <4> QED
        BY <4>1, MessageIds, Zenon
    <3>3. \A n \in Nat : n <= bExchId => Follows(bStream'[k], n)
      BY <1>2, <3>1, <3>2 DEF Follows
    <3>4. Follows(bStream'[k], 0) /\ Follows(bStream'[k], state.snapshot)
      BY <1>2, <3>3 DEF OrderInv, Held
    <3>5. \A b \in bBook : Follows(bStream'[k], b)
      BY <1>2, <3>3, Zenon DEF OrderInv, Held
    <3>6. ASSUME NEW j \in 1 .. k - 1, FromBybit(bStream'[j])
          PROVE  Follows(bStream'[k], bStream'[j].id)
      <4>1. j \in 1 .. Len(bStream)
        <5>1. j \in Len(bStream) + 1 .. Len(bStream') => j = Len(bStream')
          BY <3>6, Zenon DEF Grows
        <5> QED
          BY <1>1, <3>1, <5>1
      <4>2. bStream'[j] = bStream[j] /\ bStream[j].id <= bExchId /\ bStream \in Seq(Message)
        BY <1>1, <4>1, Zenon DEF Types
      <4>3. bStream[j].id \in Nat
        BY <4>1, <4>2, MessageIds, Zenon
      <4> QED
        BY <3>3, <4>2, <4>3, Zenon
    <3> QED
      BY <3>4, <3>5, <3>6, Zenon
  <2> QED
    BY <1>1, <2>1, <2>2
<1> QED
  BY <1>1, <1>3, <1>4, Zenon DEF OrderInv, WholeTo

(* A stop: the snapshot is forgotten, the book and the messages stay.      *)
LEMMA OrderCancellation ==
  ASSUME IdsAssumption, Types, OrderInv, BybitHandleCancellation
  PROVE  OrderInv' /\ bBook' = bBook
<1>1. state' = BidAskState /\ UNCHANGED <<bBook, bStream, bExchId>>
  BY Zenon DEF BybitHandleCancellation
<1>2. state'.snapshot = 0 /\ state'.needSnapshot = FALSE
  BY <1>1, Zenon DEF BidAskState
<1>3. 0 <= bExchId
  BY DEF Types, BybitIds, IdsAssumption
<1>4. Ordered'
  BY <1>1, <1>2 DEF OrderInv, Ordered
<1> QED
  BY <1>1, <1>2, <1>3, <1>4, Zenon DEF OrderInv, Held, WholeTo

(* What the part without a gap is.                                         *)
LEMMA WholeIs ==
  ASSUME NEW X, \A x \in X : x \in Nat /\ 1 <= x,
         NEW n \in Nat, 1 .. n \subseteq X, n + 1 \notin X
  PROVE  {x \in X : 1 .. x \subseteq X} = 1 .. n
<1>1. ASSUME NEW x \in 1 .. n PROVE x \in X /\ 1 .. x \subseteq X
  OBVIOUS
<1>2. ASSUME NEW x \in X, 1 .. x \subseteq X PROVE x \in 1 .. n
  <2>1. ~(n + 1 <= x)
    BY <1>2
  <2> QED
    BY <1>2, <2>1
<1> QED
  BY <1>1, <1>2, Zenon

(* bybit::BidAskGeneratorComponent implements the feed for the part of the *)
(* consumer's book without a gap: no late snapshot, no resubscription and  *)
(* no restart takes it back, whatever is lost.                             *)
THEOREM BybitRefinesFeed ==
  ASSUME IdsAssumption
  PROVE  BybitSpec => BybitImplementsFeed
<1> DEFINE Inv == Types /\ OrderInv
<1>1. BybitInit => Inv /\ BybitFeed!FeedInit
  <2> SUFFICES ASSUME BybitInit PROVE Inv /\ BybitFeed!FeedInit
    OBVIOUS
  <2>1. Types
    BY InitTypes
  <2>2. /\ state.snapshot = 0 /\ state.needSnapshot = FALSE /\ bBook = {}
        /\ bStream = << >> /\ bExchId \in Nat
    BY Zenon DEF BybitInit, BidAskState, IdsAssumption
  <2>3. Len(bStream) = 0
    BY <2>2, Zenon
  <2>4. Ordered /\ Held
    BY <2>2, <2>3 DEF Ordered, Held
  <2>5. WholeTo(0) /\ 0 \in BybitIds
    BY <2>2 DEF WholeTo, BybitIds, IdsAssumption
  <2>6. Whole = {}
    BY <2>2, Zenon DEF Whole
  <2> QED
    BY <2>1, <2>4, <2>5, <2>6, Zenon DEF OrderInv, BybitFeed!FeedInit
<1>2. Inv /\ [BybitNext]_bybitVars => Inv' /\ bBook \subseteq bBook'
  <2> SUFFICES ASSUME Inv, [BybitNext]_bybitVars PROVE Inv' /\ bBook \subseteq bBook'
    OBVIOUS
  <2>1. CASE BybitHandleTrackingNewTradingPair
    <3>1. UNCHANGED <<state, bStream, bBook, bExchId>>
      BY <2>1, Zenon DEF BybitHandleTrackingNewTradingPair, world
    <3>2. OrderInv'
      BY <3>1, Zenon DEF OrderInv, Ordered, Held, WholeTo
    <3> QED
      BY <2>1, <3>1, <3>2, TrackingTypes, Zenon
  <2>2. CASE HandleResponse
    BY <2>2, ResponseTypes, OrderResponse, Zenon
  <2>3. CASE BybitHandleCancellation
    BY <2>3, CancellationTypes, OrderCancellation, Zenon
  <2>4. CASE BybitPublish
    <3>1. Types' /\ Grows
      BY <2>4, PublishGrows, Zenon
    <3> QED
      BY <3>1, OrderGrows, Zenon
  <2>5. CASE Answer
    <3>1. Types' /\ Grows
      BY <2>5, AnswerGrows, Zenon
    <3> QED
      BY <3>1, OrderGrows
  <2>6. CASE SendOdd
    <3>1. Types' /\ Grows
      BY <2>6, SendOddGrows
    <3> QED
      BY <3>1, OrderGrows
  <2>7. CASE UNCHANGED bybitVars
    BY <2>7 DEF bybitVars, world, Types, OrderInv, Ordered, Held, WholeTo
  <2> QED
    BY <2>1, <2>2, <2>3, <2>4, <2>5, <2>6, <2>7, Zenon DEF BybitNext
<1>3. Inv /\ Inv' /\ bBook \subseteq bBook' => [BybitFeed!Advance]_Whole
  <2> SUFFICES ASSUME Inv, Inv', bBook \subseteq bBook' PROVE BybitFeed!Advance
    OBVIOUS
  <2>1. PICK n \in BybitIds : WholeTo(n)'
    BY Zenon DEF OrderInv
  <2>2. Whole' = 1 .. n
    <3>1. \A b \in bBook' : b \in Nat /\ 1 <= b
      BY DEF OrderInv, Held, Types, BybitIds, IdsAssumption
    <3>2. n \in Nat /\ 1 .. n \subseteq bBook' /\ n + 1 \notin bBook'
      BY <2>1 DEF WholeTo, BybitIds, IdsAssumption
    <3> QED
      BY <3>1, <3>2, WholeIs, Zenon DEF Whole
  <2>3. Whole \subseteq Whole'
    BY Zenon DEF Whole
  <2>4. n \in 0 .. BybitMaxId /\ Whole \subseteq 1 .. n
    BY <2>2, <2>3, Zenon DEF BybitIds
  <2> QED
    BY <2>2, <2>4, Zenon DEF BybitFeed!Advance
<1> HIDE DEF Inv
<1> QED
  BY <1>1, <1>2, <1>3, PTL DEF BybitSpec, BybitImplementsFeed, BybitFeed!FeedSpec

=============================================================================
