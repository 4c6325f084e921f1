----------------------------- MODULE BidAskResync -----------------------------
(***************************************************************************)
(* How soon BidAskGenerator is synchronised again.  The generator buffers   *)
(* no diff, so nothing bounds this while diffs outrun the snapshot answers; *)
(* this module adds a history variable that counts the diffs published      *)
(* since the exchange became calm.                                          *)
(***************************************************************************)
EXTENDS BidAskGenerator

VARIABLE calm   \* history: diffs published in calm since the last disturbance

resyncVars == <<vars, calm>>

NoAnswers == \A i \in Ids : answers[i] = 0

(* Nothing is under way: every diff has been handled, and every request     *)
(* has been answered and its answer handled.                                *)
Quiet == stream = << >> /\ asked = 0 /\ NoAnswers

ResyncInit == Init /\ calm = 0

(* A diff published before all is quiet, a loss and a restart disturb.      *)
(* Calm diffs are counted up to the second.                                 *)
ResyncNext ==
  \/ Publish /\ calm' = IF ~tracked \/ ~Quiet THEN 0 ELSE IF calm = 0 THEN 1 ELSE 2
  \/ (LoseDiff \/ LoseRequest \/ HandleCancellation) /\ calm' = 0
  \/ /\ \/ RegisterCallbacks \/ HandleTrackingNewTradingPair
        \/ HandleNewSnapshotEvent \/ HandleBookDiffSnapshotEvent \/ AnswerSnapshot
     /\ calm' = calm

ResyncSpec == ResyncInit /\ [][ResyncNext]_resyncVars

-------------------------------------------------------------------------------
(* From any state whatever, with packets lost, answers late or the pair     *)
(* just cancelled, the second diff published in calm leaves the generator   *)
(* synchronised (HandleBookDiffSnapshotEvent: the first asks for a          *)
(* snapshot, the second straddles it), and unless a late answer is stored   *)
(* the consumer's book is then the exchange's.                              *)
SynchronisedWhenCalm ==
  calm = 2 /\ stream = << >> =>
    ~needMakeSnapshot /\ (~late => book = 1 .. exchId)

(* RequestNewSnapshot runs at most once in a calm exchange, however many    *)
(* requests the diffs before it sent: one request or answer is under way    *)
(* after the first diff, none after the second.                             *)
OneRequestWhenCalm ==
  /\ calm = 1 => \/ asked = 0 /\ NoAnswers
                 \/ asked = 1 /\ NoAnswers
                 \/ asked = 0 /\ \E i \in Ids : answers = [j \in Ids |-> IF j = i THEN 1 ELSE 0]
  /\ calm = 2 => asked = 0 /\ NoAnswers

(* Both together: a calm exchange repairs the feed within two diffs and one *)
(* request, whatever HandleBookDiffSnapshotEvent went through before.       *)
RecoversWhenCalm == SynchronisedWhenCalm /\ OneRequestWhenCalm

(* What the handlers find in a calm exchange: the inductive strengthening   *)
(* of the two properties above.                                             *)
CalmInv ==
  /\ calm \in 0 .. 2
  /\ snapshot <= exchId
  /\ \A i \in Ids : answers[i] > 0 => i <= exchId
  /\ calm > 0 /\ stream # << >> =>
       /\ tracked /\ asked = 0 /\ NoAnswers
       /\ Len(stream) = 1 /\ stream[1].last = exchId /\ snapshot < stream[1].first
  /\ calm > 0 /\ stream = << >> =>
       /\ tracked /\ lastIdDiffBookEvent = exchId
       /\ \/ ~needMakeSnapshot /\ asked = 0 /\ NoAnswers
          \/ calm = 1 /\ asked = 1 /\ NoAnswers
          \/ calm = 1 /\ asked = 0 /\ answers = [j \in Ids |-> IF j = exchId THEN 1 ELSE 0]
          \/ calm = 1 /\ asked = 0 /\ NoAnswers /\ snapshot = exchId
  /\ calm = 2 /\ stream # << >> =>
       /\ stream[1].first = lastIdDiffBookEvent + 1
       /\ needMakeSnapshot => snapshot = lastIdDiffBookEvent
===============================================================================
