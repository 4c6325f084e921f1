-------------------------- MODULE HttpsPool_proofs --------------------------
(***************************************************************************)
(* The sessions that talk https: the pool of HttpsPool keeps one exchange  *)
(* at a time on each, hands out sessions that are Ready and keeps its      *)
(* size, and a session of the five classes of RequestSessions serves one   *)
(* request.                                                                *)
(*                                                                         *)
(* The pool's invariant says where every request is: with its event, with  *)
(* the caller, posted to a strand, in a queue or with the exchange, and in *)
(* one of these only.  It is stated for the addresses at which no step     *)
(* meant for a session that was replaced took place; a session that is     *)
(* shared by two requests is one of what the code cannot exclude, and the  *)
(* properties exclude it as well.                                          *)
(***************************************************************************)
EXTENDS HttpsPool, RequestSessions, TLAPS

-----------------------------------------------------------------------------
(* The types the proofs need.                                              *)

\* What a session's strand runs.
Handler == {<<"loop", None>>} \cup ({"request"} \X Requests)

Session ==
  [status : Statuses, run : RunPoints, timer : {"armed", "queued", "late", "off"}, open : BOOLEAN,
   queue : Seq(Requests), processing : BOOLEAN, exchanges : SUBSET Requests,
   onResponse : Requests \cup {None}, need : BOOLEAN, users : SUBSET Requests]

Caller ==
  [at : {"idle", "acquire", "register", "request"}, request : Requests \cup {None},
   session : Sessions \cup {None}]

\* Between AcquireConnection and AsyncRequest.
Holding == caller.at \in {"register", "request"}

Types ==
  /\ session \in [Sessions -> Session] /\ strand \in [Sessions -> Seq(Handler)]
  /\ available \in [Sessions -> Nat]
  /\ queued \subseteq Sessions \X ((RunPoints \ {"done"}) \cup {"timer"} \cup Requests)
  /\ caller \in Caller /\ (Holding => caller.session \in Sessions)
  /\ caller.at # "idle" => caller.request \in Requests
  /\ pending \subseteq Requests /\ crashed \in BOOLEAN /\ faults \in Nat
  /\ closer \in [at : {"idle", "next", "silence", "done"}, session : Sessions \cup {None}]
  /\ closer.at = "silence" => closer.session \in Sessions
  /\ invoked \subseteq Requests \X (Requests \cup {"rejection", "nothing"})
  /\ shared \subseteq Requests /\ overdue \subseteq Requests /\ uprooted \subseteq Sessions

-----------------------------------------------------------------------------
(* The inductive invariant.                                                *)

\* No two RequestLoops are posted to the strand.
OneLoop(q) == \A i, j \in DOMAIN q : q[i][1] = "loop" /\ q[j][1] = "loop" => i = j

\* A session x with strand q.  While it is being set up nothing has been asked of
\* it.  Once it is open its RequestLoops come one at a time: the first finds the
\* queue empty, the second is posted with the first request, and no other is
\* before the session is closed.  The timer runs only while it is being set up.
SessionOK(x, q) ==
  /\ x.run # "done" =>
       /\ ~HasLoop(q) /\ ~x.open /\ ~x.processing
       /\ x.users = {} /\ x.queue = << >> /\ x.status # "Ready"
  /\ x.open => OneLoop(q)
  /\ x.open /\ HasLoop(q) /\ ~x.processing => x.users = {} /\ x.status # "Ready"
  /\ x.open /\ HasLoop(q) /\ x.processing => x.exchanges = {} /\ x.queue # << >>
  /\ x.open /\ ~x.processing => x.exchanges = {} /\ x.queue = << >>
  /\ ~x.open => x.exchanges = {}
  /\ x.exchanges \subseteq x.users /\ \A i \in DOMAIN x.queue : x.queue[i] \in x.users
  /\ x.onResponse = None \/ x.onResponse \in x.users
  /\ x.need /\ x.timer \in {"armed", "queued"} => x.run # "done"

\* Where the requests are, for caller c, pending p and shared h.  One that has yet
\* to get a session is nowhere else; the caller's is with no session's loop; two
\* at a session are shared.
PlacesOK(x, q, c, p, h) ==
  /\ \A r \in x.users : r \notin p /\ (c.at = "acquire" => r # c.request)
  /\ \A i \in DOMAIN q : q[i][1] = "request" =>
       q[i][2] \notin p /\ (c.at # "idle" => q[i][2] # c.request)
  /\ c.at # "idle" =>
       /\ c.request \notin x.exchanges
       /\ \A i \in DOMAIN x.queue : x.queue[i] # c.request
  /\ \A r1, r2 \in x.users : r1 # r2 => r1 \in h

\* At the addresses where no step meant for a predecessor took place.
Addresses ==
  \A s \in Sessions \ uprooted :
    /\ SessionOK(session[s], strand[s])
    /\ PlacesOK(session[s], strand[s], caller, pending, shared)

\* The caller's session is the one it acquired, unless others have it as well or
\* its timer had expired.
CallerOK ==
  /\ caller.at # "idle" => caller.request \notin pending
  /\ Holding /\ closer.at = "idle" /\ caller.session \notin uprooted
       /\ caller.request \notin shared /\ caller.request \notin overdue =>
         session[caller.session].status = "Ready" /\ caller.request \in session[caller.session].users

\* A session with n entries among the available ones is at work, or the callback
\* of one of its requests threw, v being the callbacks that ran.
AtWork(x, q, n, v) ==
  /\ x.need /\ x.status \in {"Resolving", "Connecting", "Handshaking", "Ready", "kInProcess"}
  /\ x.run = "done" =>
       /\ x.open
       /\ \/ HasLoop(q)
          \/ ~x.processing /\ x.status = "Ready" /\ n > 0
          \/ x.processing /\ x.status = "kInProcess" /\ x.exchanges # {}
          \/ x.processing /\ \E r \in x.users : <<r, "nothing">> \in v

PoolOK ==
  closer.at = "idle" =>
    \A s \in Sessions \ uprooted : AtWork(session[s], strand[s], available[s], invoked)

Inv == Types /\ Addresses /\ CallerOK /\ OneExchangeAtATime /\ PoolOK

-----------------------------------------------------------------------------
(* Strands.                                                                *)

\* A loop is posted behind handlers that are none.
LEMMA LoopLast ==
  ASSUME NEW q \in Seq(Handler), NEW l, l = Append(q, <<"loop", None>>)
  PROVE  /\ l \in Seq(Handler) /\ HasLoop(l) /\ (~HasLoop(q) => OneLoop(l))
         /\ \A i \in DOMAIN l : l[i][1] = "request" => i \in DOMAIN q /\ l[i] = q[i]
<1>1. <<"loop", None>> \in Handler
  BY Zenon DEF Handler
<1>2. l \in Seq(Handler) /\ Len(l) = Len(q) + 1 /\ l[Len(q) + 1] = <<"loop", None>>
  BY <1>1
<1>3. \A i \in DOMAIN l : i # Len(q) + 1 => i \in DOMAIN q /\ l[i] = q[i]
  BY <1>1
<1>4. Len(q) + 1 \in DOMAIN l
  BY <1>2
<1>5. <<"loop", None>>[1] = "loop"
  OBVIOUS
<1>6. HasLoop(l)
  BY <1>2, <1>4, <1>5, Zenon DEF HasLoop
<1>7. ~HasLoop(q) => OneLoop(l)
  BY <1>3 DEF HasLoop, OneLoop
<1>8. \A i \in DOMAIN l : l[i][1] = "request" => i \in DOMAIN q /\ l[i] = q[i]
  BY <1>2, <1>3, <1>5, Zenon
<1> QED
  BY <1>2, <1>6, <1>7, <1>8, Zenon

\* A request is posted.
LEMMA RequestLast ==
  ASSUME NEW q \in Seq(Handler), NEW r \in Requests, NEW l, l = Append(q, <<"request", r>>)
  PROVE  /\ l \in Seq(Handler) /\ (HasLoop(l) <=> HasLoop(q)) /\ (OneLoop(q) => OneLoop(l))
         /\ \A i \in DOMAIN l : l[i] = <<"request", r>> \/ (i \in DOMAIN q /\ l[i] = q[i])
<1>1. <<"request", r>> \in Handler
  BY Zenon DEF Handler
<1>2. l \in Seq(Handler) /\ Len(l) = Len(q) + 1 /\ l[Len(q) + 1] = <<"request", r>>
  BY <1>1
<1>3. \A i \in DOMAIN l : l[i] = <<"request", r>> \/ (i \in DOMAIN q /\ l[i] = q[i])
  BY <1>1
<1>4. \A i \in DOMAIN q : i \in DOMAIN l /\ l[i] = q[i]
  BY <1>1
<1>5. <<"request", r>>[1] = "request"
  OBVIOUS
<1>6. \A i \in DOMAIN l : l[i][1] = "loop" => i \in DOMAIN q /\ l[i] = q[i]
  BY <1>3, <1>5, Zenon
<1> QED
  BY <1>2, <1>3, <1>4, <1>6 DEF HasLoop, OneLoop

\* A request is taken.
LEMMA RequestFirst ==
  ASSUME NEW q \in Seq(Handler), q # << >>, Head(q)[1] = "request"
  PROVE  /\ Tail(q) \in Seq(Handler) /\ (HasLoop(Tail(q)) <=> HasLoop(q))
         /\ (OneLoop(q) => OneLoop(Tail(q)))
         /\ \A i \in DOMAIN Tail(q) : i + 1 \in DOMAIN q /\ Tail(q)[i] = q[i + 1]
         /\ 1 \in DOMAIN q /\ q[1] = Head(q) /\ Head(q)[2] \in Requests
<1>1. Tail(q) \in Seq(Handler) /\ 1 \in DOMAIN q /\ q[1] = Head(q) /\ q[1] \in Handler
  OBVIOUS
<1>2. \A i \in DOMAIN Tail(q) : i \in Nat /\ i + 1 \in DOMAIN q /\ Tail(q)[i] = q[i + 1]
  OBVIOUS
<1>3. \A j \in DOMAIN q : j # 1 => j - 1 \in DOMAIN Tail(q) /\ Tail(q)[j - 1] = q[j]
  OBVIOUS
<1>4. HasLoop(Tail(q)) <=> HasLoop(q)
  <2>1. HasLoop(Tail(q)) => HasLoop(q)
    BY <1>2, Zenon DEF HasLoop
  <2>2. ASSUME NEW j \in DOMAIN q, q[j][1] = "loop" PROVE HasLoop(Tail(q))
    <3>1. j # 1
      BY <1>1, <2>2, Zenon
    <3> QED
      BY <1>3, <2>2, <3>1, Zenon DEF HasLoop
  <2> QED
    BY <2>1, <2>2, Zenon DEF HasLoop
<1>5. OneLoop(q) => OneLoop(Tail(q))
  BY <1>2 DEF OneLoop
<1>6. Head(q)[2] \in Requests
  BY <1>1 DEF Handler
<1> QED
  BY <1>1, <1>2, <1>4, <1>5, <1>6, Zenon

\* A loop is taken.
LEMMA LoopFirst ==
  ASSUME NEW q \in Seq(Handler), q # << >>, Head(q)[1] = "loop"
  PROVE  /\ Tail(q) \in Seq(Handler) /\ HasLoop(q) /\ (OneLoop(q) => ~HasLoop(Tail(q)))
         /\ \A i \in DOMAIN Tail(q) : i + 1 \in DOMAIN q /\ Tail(q)[i] = q[i + 1]
<1>1. Tail(q) \in Seq(Handler) /\ 1 \in DOMAIN q /\ q[1] = Head(q)
  OBVIOUS
<1>2. \A i \in DOMAIN Tail(q) : i \in Nat /\ i # 0 /\ i + 1 \in DOMAIN q /\ Tail(q)[i] = q[i + 1]
  OBVIOUS
<1>3. \A i \in DOMAIN Tail(q) : i + 1 # 1
  BY <1>2
<1>4. OneLoop(q) => ~HasLoop(Tail(q))
  BY <1>1, <1>2, <1>3, Zenon DEF HasLoop, OneLoop
<1> QED
  BY <1>1, <1>2, <1>4, Zenon DEF HasLoop

-----------------------------------------------------------------------------
(* Steps at one address.                                                   *)

\* What the rest of the process knows of the address whose session becomes x and
\* whose strand becomes q.
Sound(s, x, q) ==
  /\ s \notin uprooted' => SessionOK(x, q) /\ PlacesOK(x, q, caller, pending, shared)
  /\ Holding /\ caller.session = s /\ s \notin uprooted' /\ caller.request \notin shared
       /\ caller.request \notin overdue' /\ closer'.at = "idle" =>
         x.status = "Ready" /\ caller.request \in x.users
  /\ \A r1, r2 \in x.exchanges : r1 = r2
  /\ closer'.at = "idle" /\ s \notin uprooted' => AtWork(x, q, available'[s], invoked')

\* A callback that ran does not put a session out of work.
LEMMA StillAtWork ==
  ASSUME NEW x, NEW q, NEW n, NEW v, NEW w, v \subseteq w, AtWork(x, q, n, v)
  PROVE  AtWork(x, q, n, w)
  BY Zenon DEF AtWork

\* A step that replaces one session or its strand keeps the invariant when the
\* new ones are sound.
LEMMA AddressStep ==
  ASSUME Inv, NEW s \in Sessions, NEW x \in Session, NEW q \in Seq(Handler),
         session' = [session EXCEPT ![s] = x], strand' = [strand EXCEPT ![s] = q],
         UNCHANGED <<caller, pending, shared>>,
         uprooted \subseteq uprooted', overdue \subseteq overdue', invoked \subseteq invoked',
         closer'.at = "idle" => closer.at = "idle",
         \A t \in Sessions : t # s => available'[t] = available[t],
         Sound(s, x, q)
  PROVE  /\ session' \in [Sessions -> Session] /\ strand' \in [Sessions -> Seq(Handler)]
         /\ Addresses' /\ CallerOK' /\ OneExchangeAtATime' /\ PoolOK'
<1>1. session' \in [Sessions -> Session] /\ strand' \in [Sessions -> Seq(Handler)]
  BY Zenon DEF Inv, Types
<1>2. session'[s] = x /\ strand'[s] = q
  BY Zenon DEF Inv, Types
<1>3. \A t \in Sessions : t # s => session'[t] = session[t] /\ strand'[t] = strand[t]
  BY Zenon DEF Inv, Types
<1>4. Addresses'
  BY <1>2, <1>3, Zenon DEF Inv, Addresses, Sound
<1>5. CallerOK'
  <2>1. caller'.at # "idle" => caller'.request \notin pending'
    BY Zenon DEF Inv, CallerOK
  <2>2. ASSUME Holding, closer'.at = "idle", caller.session \notin uprooted',
               caller.request \notin shared, caller.request \notin overdue'
        PROVE  /\ session'[caller.session].status = "Ready"
               /\ caller.request \in session'[caller.session].users
    <3>1. CASE caller.session = s
      BY <1>2, <2>2, <3>1, Zenon DEF Sound
    <3>2. CASE caller.session # s
      BY <1>3, <2>2, <3>2, Zenon DEF Inv, Types, CallerOK
    <3> QED
      BY <3>1, <3>2, Zenon
  <2> QED
    BY <2>1, <2>2, Zenon DEF CallerOK, Holding
<1>6. OneExchangeAtATime'
  BY <1>2, <1>3 DEF Inv, OneExchangeAtATime, Sound
<1>7. PoolOK'
  <2> SUFFICES ASSUME closer'.at = "idle", NEW t \in Sessions \ uprooted'
               PROVE  AtWork(session'[t], strand'[t], available'[t], invoked')
    BY Zenon DEF PoolOK
  <2>1. CASE t = s
    BY <1>2, <2>1, Zenon DEF Sound
  <2>2. CASE t # s
    <3>1. AtWork(session[t], strand[t], available[t], invoked)
      BY Zenon DEF Inv, PoolOK
    <3> QED
      BY <1>3, <2>2, <3>1, StillAtWork, Zenon
  <2> QED
    BY <2>1, <2>2, Zenon
<1> QED
  BY <1>1, <1>4, <1>5, <1>6, <1>7, Zenon

\* The record of an address, typed field by field.
LEMMA Fields ==
  ASSUME NEW x \in Session
  PROVE  /\ x.status \in Statuses /\ x.run \in RunPoints 
         /\ x.timer \in {"armed", "queued", "late", "off"}
         /\ x.open \in BOOLEAN /\ x.queue \in Seq(Requests) /\ x.processing \in BOOLEAN
         /\ x.exchanges \subseteq Requests /\ x.onResponse \in Requests \cup {None}
         /\ x.need \in BOOLEAN /\ x.users \subseteq Requests
  BY Zenon DEF Session

\* A session that has just been created is sound.
LEMMA FreshOK ==
  /\ Fresh \in Session
  /\ \A q : ~HasLoop(q) => SessionOK(Fresh, q)
  /\ \A q, n, v : AtWork(Fresh, q, n, v)
<1>1. << >> \in Seq(Requests)
  OBVIOUS
<1>2. Fresh \in Session
  BY <1>1, Zenon DEF Fresh, Session, Statuses, RunPoints
<1>3. /\ Fresh.run # "done" /\ Fresh.status = "Resolving" /\ ~Fresh.open /\ ~Fresh.processing
      /\ Fresh.users = {} /\ Fresh.exchanges = {} /\ Fresh.queue = << >> /\ Fresh.need
      /\ DOMAIN Fresh.queue = {} /\ Fresh.onResponse = None
  BY DEF Fresh
<1>4. \A q : ~HasLoop(q) => SessionOK(Fresh, q)
  BY <1>3, Zenon DEF SessionOK
<1>5. \A q, n, v : AtWork(Fresh, q, n, v)
  BY <1>3, Zenon DEF AtWork
<1> QED
  BY <1>2, <1>4, <1>5, Zenon

-----------------------------------------------------------------------------
(* Closing a session.                                                      *)

Queueable == Sessions \X ((RunPoints \ {"done"}) \cup {"timer"} \cup Requests)

\* The session that is left when old is closed and not replaced.
Closed(old, new) ==
  [old EXCEPT !.status = new, !.open = FALSE, !.exchanges = {},
              !.run = IF old.run = "resolve" THEN "resolve" ELSE "done",
              !.need = FALSE]

\* What a closed session has kept.
LEMMA ClosedFields ==
  ASSUME NEW old \in Session, NEW new \in {"Expired", "Closing"},
         NEW x, x = Closed(old, new)
  PROVE  /\ x \in Session /\ x.status = new /\ ~x.open /\ x.exchanges = {}
         /\ x.run = (IF old.run = "resolve" THEN "resolve" ELSE "done") /\ ~x.need
         /\ x.queue = old.queue /\ x.users = old.users /\ (x.processing <=> old.processing)
         /\ x.onResponse = old.onResponse
<1>1. x \in Session
  BY ZenonT(40) DEF Closed, Session, Statuses, RunPoints
<1> QED
  BY <1>1 DEF Closed, Session

\* The session old at s gives way to x.
GivesWay(old, s, new, rest, x) ==
  /\ session' = [session EXCEPT ![s] = x] /\ x.exchanges = {}
  /\ x = Fresh \/ x = Closed(old, new)
  /\ old.status # new /\ old.need => x = Fresh
  /\ queued' \in SUBSET Queueable

\* What Close does at its address.
LEMMA CloseIs ==
  ASSUME NEW s \in Sessions, NEW old \in Session, NEW new \in {"Expired", "Closing"},
         NEW rest \in SUBSET Queueable, Close(old, s, new, rest)
  PROVE  \E x \in Session : GivesWay(old, s, new, rest, x)
<1>1. old.exchanges \subseteq Requests
  BY Fields, Zenon
<1>2. ASSUME NEW p \in SUBSET {"resolve", "connect", "handshake"}
      PROVE  Suspended(old, s, p) \subseteq Queueable
  <2> DEFINE Points == (RunPoints \ {"done"}) \cup {"timer"} \cup Requests
  <2>1. {old.run} \cap p \subseteq Points /\ old.exchanges \subseteq Points
    BY <1>1, Zenon DEF RunPoints
  <2> HIDE DEF Points
  <2>2. \A y \in Points : <<s, y>> \in Sessions \X Points
    OBVIOUS
  <2>3. Suspended(old, s, p) \subseteq Sessions \X Points
    BY <2>1, <2>2, Zenon DEF Suspended
  <2> QED
    BY <2>3, Zenon DEF Points, Queueable
<1>3. Orphans(old, s) \subseteq Queueable
  <2>1. <<s, "timer">> \in Queueable
    BY DEF Queueable
  <2> QED
    BY <1>2, <2>1, Zenon DEF Orphans
<1>4. CASE old.status # new /\ old.need
  BY <1>3, <1>4, FreshOK, Zenon DEF Close, Replace, Fresh, GivesWay
<1>5. CASE ~(old.status # new /\ old.need)
  <2> DEFINE x == Closed(old, new)
  <2>1. x \in Session /\ x.exchanges = {}
    BY ClosedFields, Zenon
  <2>2. /\ session' = [session EXCEPT ![s] = x]
        /\ queued' = rest \cup Suspended(old, s, {"connect", "handshake"})
    BY <1>5, Zenon DEF Close, Closed
  <2> HIDE DEF x
  <2>3. x = Closed(old, new)
    BY Zenon DEF x
  <2>4. queued' \in SUBSET Queueable
    BY <1>2, <2>2, Zenon
  <2> QED
    BY <1>5, <2>1, <2>2, <2>3, <2>4, Zenon DEF GivesWay
<1> QED
  BY <1>4, <1>5, Zenon

\* A session that is closed with no loop posted is in order.
LEMMA CloseOK ==
  ASSUME NEW old \in Session, NEW new \in {"Expired", "Closing"}, NEW q, ~HasLoop(q),
         old.run # "done" => ~old.processing /\ old.users = {} /\ old.queue = << >>,
         \A i \in DOMAIN old.queue : old.queue[i] \in old.users,
         old.onResponse = None \/ old.onResponse \in old.users,
         NEW x, x = Fresh \/ x = Closed(old, new)
  PROVE  /\ SessionOK(x, q)
         /\ \A c, p, h : PlacesOK(old, q, c, p, h) => PlacesOK(x, q, c, p, h)
<1>1. CASE x = Fresh
  <2>1. x.users = {} /\ x.exchanges = {} /\ DOMAIN x.queue = {}
    BY <1>1 DEF Fresh
  <2> QED
    BY <1>1, <2>1, FreshOK DEF PlacesOK
<1>2. CASE x = Closed(old, new)
  <2>1. /\ ~x.open /\ x.exchanges = {} /\ (x.processing <=> old.processing) /\ x.status = new
        /\ x.run = (IF old.run = "resolve" THEN "resolve" ELSE "done")
        /\ x.queue = old.queue /\ x.users = old.users /\ x.onResponse = old.onResponse /\ ~x.need
    BY <1>2, ClosedFields
  <2>2. SessionOK(x, q)
    BY <2>1, Zenon DEF SessionOK
  <2>3. \A c, p, h : PlacesOK(old, q, c, p, h) => PlacesOK(x, q, c, p, h)
    BY <2>1 DEF PlacesOK
  <2> QED
    BY <2>2, <2>3, Zenon
<1> QED
  BY <1>1, <1>2, Zenon

-----------------------------------------------------------------------------
(* The actions at one address.                                             *)
\* The host is resolved.
LEMMA ResolvedStep ==
  ASSUME Inv, uprooted = {}, NEW s \in Sessions, OnResolved(s) PROVE Inv'
<1> DEFINE o == session[s]
           q == strand[s]
           x == [o EXCEPT !.run = "connect", !.status = "Connecting"]
<1>1. /\ o \in Session /\ q \in Seq(Handler) /\ SessionOK(o, q)
      /\ PlacesOK(o, q, caller, pending, shared)
  BY Zenon DEF Inv, Types, Addresses
<1>2. x \in Session
  BY <1>1, Zenon DEF Session, Statuses, RunPoints
<1>3. /\ x.run = "connect" /\ x.status = "Connecting" /\ (x.open <=> o.open)
      /\ x.timer = o.timer /\ x.onResponse = o.onResponse /\ x.queue = o.queue /\ (x.processing <=> o.processing)
      /\ x.exchanges = o.exchanges /\ (x.need <=> o.need) /\ x.users = o.users
  BY <1>1, Zenon DEF Session
<1>4. session' = [session EXCEPT ![s] = x] /\ strand' = [strand EXCEPT ![s] = q]
  BY Zenon DEF OnResolved, Inv, Types
<1>5. /\ UNCHANGED <<available, caller, pending, closer, crashed, invoked, shared, overdue, uprooted>>
      /\ UNCHANGED <<queued, faults>> /\ o.run = "resolve"
  BY Zenon DEF OnResolved
<1> HIDE DEF x
<1>6. Sound(s, x, q)
  <2>1. SessionOK(x, q)
    BY <1>1, <1>3, <1>5, Zenon DEF SessionOK
  <2>2. PlacesOK(x, q, caller, pending, shared)
    BY <1>1, <1>3, Zenon DEF PlacesOK
  <2>3. Holding /\ caller.session = s /\ closer.at = "idle"
          /\ caller.request \notin shared /\ caller.request \notin overdue =>
          o.status = "Ready" /\ caller.request \in o.users
    BY Zenon DEF Inv, CallerOK
  <2>4. \A r1, r2 \in x.exchanges : r1 = r2
    BY <1>3 DEF Inv, OneExchangeAtATime
  <2>5. closer'.at = "idle" => AtWork(x, q, available'[s], invoked')
    BY <1>3, <1>5, Zenon DEF Inv, Types, PoolOK, AtWork
  <2> QED
    BY <1>1, <1>3, <1>5, <2>1, <2>2, <2>3, <2>4, <2>5, Zenon DEF Sound, SessionOK
<1>7. /\ session' \in [Sessions -> Session] /\ strand' \in [Sessions -> Seq(Handler)]
      /\ Addresses' /\ CallerOK' /\ OneExchangeAtATime' /\ PoolOK'
  <2> HIDE DEF o, q
  <2> QED
    BY <1>1, <1>2, <1>4, <1>5, <1>6, AddressStep, Zenon
<1>8. Types'
  BY <1>5, <1>7, Zenon DEF Inv, Types, Holding
<1> QED
  BY <1>7, <1>8, Zenon DEF Inv

\* The connection is there.
LEMMA ConnectedStep ==
  ASSUME Inv, uprooted = {}, NEW s \in Sessions, OnConnected(s) PROVE Inv'
<1> DEFINE o == session[s]
           q == strand[s]
           x == [o EXCEPT !.run = "handshake", !.status = "Handshaking"]
<1>1. /\ o \in Session /\ q \in Seq(Handler) /\ SessionOK(o, q)
      /\ PlacesOK(o, q, caller, pending, shared)
  BY DEF Inv, Types, Addresses
<1>2. x \in Session
  BY <1>1, Zenon DEF Session, Statuses, RunPoints
<1>3. /\ x.run = "handshake" /\ x.status = "Handshaking" /\ (x.open <=> o.open)
      /\ x.timer = o.timer /\ x.onResponse = o.onResponse /\ x.queue = o.queue /\ (x.processing <=> o.processing)
      /\ x.exchanges = o.exchanges /\ (x.need <=> o.need) /\ x.users = o.users
  BY <1>1, Zenon DEF Session
<1>4. session' = [session EXCEPT ![s] = x] /\ strand' = [strand EXCEPT ![s] = q]
  BY Zenon DEF OnConnected, Inv, Types
<1>5. /\ UNCHANGED <<available, caller, pending, closer, crashed, invoked, shared, overdue, uprooted>>
      /\ UNCHANGED <<queued, faults>> /\ o.run = "connect"
  BY Zenon DEF OnConnected
<1> HIDE DEF x
<1>6. Sound(s, x, q)
  <2>1. SessionOK(x, q)
    BY <1>1, <1>3, <1>5, Zenon DEF SessionOK
  <2>2. PlacesOK(x, q, caller, pending, shared)
    BY <1>1, <1>3, Zenon DEF PlacesOK
  <2>3. Holding /\ caller.session = s /\ closer.at = "idle"
          /\ caller.request \notin shared /\ caller.request \notin overdue =>
          o.status = "Ready" /\ caller.request \in o.users
    BY DEF Inv, CallerOK
  <2>4. \A r1, r2 \in x.exchanges : r1 = r2
    BY <1>3 DEF Inv, OneExchangeAtATime
  <2>5. closer'.at = "idle" => AtWork(x, q, available'[s], invoked')
    BY <1>3, <1>5, Zenon DEF Inv, Types, PoolOK, AtWork
  <2> QED
    BY <1>1, <1>3, <1>5, <2>1, <2>2, <2>3, <2>4, <2>5, Zenon DEF Sound, SessionOK
<1>7. /\ session' \in [Sessions -> Session] /\ strand' \in [Sessions -> Seq(Handler)]
      /\ Addresses' /\ CallerOK' /\ OneExchangeAtATime' /\ PoolOK'
  <2> HIDE DEF o, q
  <2> QED
    BY <1>1, <1>2, <1>4, <1>5, <1>6, AddressStep, Zenon
<1>8. Types'
  BY <1>5, <1>7, Zenon DEF Inv, Types, Holding
<1> QED
  BY <1>7, <1>8 DEF Inv

\* The timer expires.
LEMMA ExpireStep ==
  ASSUME Inv, uprooted = {}, NEW s \in Sessions, Expire(s) PROVE Inv'
<1> DEFINE o == session[s]
           q == strand[s]
           x == [o EXCEPT !.timer = "queued"]
<1>1. /\ o \in Session /\ q \in Seq(Handler) /\ SessionOK(o, q)
      /\ PlacesOK(o, q, caller, pending, shared)
  BY DEF Inv, Types, Addresses
<1>2. x \in Session
  BY <1>1, Zenon DEF Session, Statuses, RunPoints
<1>3. /\ x.run = o.run /\ x.status = o.status /\ (x.open <=> o.open)
      /\ x.timer = "queued" /\ x.onResponse = o.onResponse /\ x.queue = o.queue /\ (x.processing <=> o.processing)
      /\ x.exchanges = o.exchanges /\ (x.need <=> o.need) /\ x.users = o.users
  BY <1>1, Zenon DEF Session
<1>4. session' = [session EXCEPT ![s] = x] /\ strand' = [strand EXCEPT ![s] = q]
  BY Zenon DEF Expire, Inv, Types
<1>5. /\ UNCHANGED <<available, caller, pending, closer, crashed, invoked, shared, overdue, uprooted>>
      /\ faults' = faults + 1 /\ queued' = queued /\ o.timer = "armed"
  BY Zenon DEF Expire
<1> HIDE DEF x
<1>6. Sound(s, x, q)
  <2>1. SessionOK(x, q)
    BY <1>1, <1>3, <1>5, Zenon DEF SessionOK
  <2>2. PlacesOK(x, q, caller, pending, shared)
    BY <1>1, <1>3, Zenon DEF PlacesOK
  <2>3. Holding /\ caller.session = s /\ closer.at = "idle"
          /\ caller.request \notin shared /\ caller.request \notin overdue =>
          o.status = "Ready" /\ caller.request \in o.users
    BY DEF Inv, CallerOK
  <2>4. \A r1, r2 \in x.exchanges : r1 = r2
    BY <1>3, Zenon DEF Inv, OneExchangeAtATime
  <2>5. closer'.at = "idle" => AtWork(x, q, available'[s], invoked')
    <3>1. closer.at = "idle" => AtWork(o, q, available[s], invoked)
      BY Zenon DEF Inv, PoolOK
    <3> HIDE DEF o, q
    <3> QED
      BY <1>3, <1>5, <3>1, Zenon DEF AtWork
  <2> QED
    BY <1>1, <1>3, <1>5, <2>1, <2>2, <2>3, <2>4, <2>5, Zenon DEF Sound, SessionOK
<1>7. /\ session' \in [Sessions -> Session] /\ strand' \in [Sessions -> Seq(Handler)]
      /\ Addresses' /\ CallerOK' /\ OneExchangeAtATime' /\ PoolOK'
  <2> HIDE DEF o, q
  <2> QED
    BY <1>1, <1>2, <1>4, <1>5, <1>6, AddressStep, Zenon
<1>8. Types'
  BY <1>5, <1>7 DEF Inv, Types, Holding
<1> QED
  BY <1>7, <1>8 DEF Inv

\* Run has set the session up and posts the first RequestLoop.
LEMMA HandshakeStep ==
  ASSUME Inv, uprooted = {}, NEW s \in Sessions, OnHandshake(s) PROVE Inv'
<1> DEFINE o == session[s]
           q == strand[s]
           y == IF o.timer = "queued" THEN "late" ELSE "off"
           x == [o EXCEPT !.run = "done", !.open = TRUE, !.timer = y]
           l == Append(q, <<"loop", None>>)
<1>1. /\ o \in Session /\ q \in Seq(Handler) /\ SessionOK(o, q)
      /\ PlacesOK(o, q, caller, pending, shared)
  BY DEF Inv, Types, Addresses
<1>2. x \in Session
  <2>1. y \in {"late", "off"}
    BY Zenon
  <2> HIDE DEF y
  <2> QED
    BY <1>1, <2>1, Zenon DEF Session, RunPoints
<1>3. /\ x.run = "done" /\ x.status = o.status /\ x.open
      /\ x.timer \in {"late", "off"} /\ x.onResponse = o.onResponse
      /\ x.queue = o.queue /\ (x.processing <=> o.processing)
      /\ x.exchanges = o.exchanges /\ (x.need <=> o.need) /\ x.users = o.users
  BY <1>1, Zenon DEF Session
<1>4. session' = [session EXCEPT ![s] = x] /\ strand' = [strand EXCEPT ![s] = l]
  BY Zenon DEF OnHandshake
<1>5. /\ UNCHANGED <<queued, available, caller, pending, closer, crashed, faults, invoked, shared, overdue,
                     uprooted>>
      /\ o.run = "handshake"
  BY Zenon DEF OnHandshake
<1> HIDE DEF x, l
<1>6. /\ l \in Seq(Handler) /\ HasLoop(l) /\ (~HasLoop(q) => OneLoop(l))
      /\ \A i \in DOMAIN l : l[i][1] = "request" => i \in DOMAIN q /\ l[i] = q[i]
  BY <1>1, LoopLast, Zenon DEF l
<1>7. Sound(s, x, l)
  <2>1. SessionOK(x, l)
    BY <1>1, <1>3, <1>5, <1>6, Zenon DEF SessionOK
  <2>2. PlacesOK(x, l, caller, pending, shared)
    BY <1>1, <1>3, <1>6 DEF PlacesOK
  <2>3. Holding /\ caller.session = s /\ closer.at = "idle"
          /\ caller.request \notin shared /\ caller.request \notin overdue =>
          o.status = "Ready" /\ caller.request \in o.users
    BY DEF Inv, CallerOK
  <2>4. \A r1, r2 \in x.exchanges : r1 = r2
    BY <1>3, Zenon DEF Inv, OneExchangeAtATime
  <2>5. closer'.at = "idle" => AtWork(x, l, available'[s], invoked')
    BY <1>3, <1>5, <1>6, Zenon DEF Inv, Types, PoolOK, AtWork
  <2> QED
    BY <1>1, <1>3, <1>5, <2>1, <2>2, <2>3, <2>4, <2>5, Zenon DEF Sound, SessionOK
<1>8. /\ session' \in [Sessions -> Session] /\ strand' \in [Sessions -> Seq(Handler)]
      /\ Addresses' /\ CallerOK' /\ OneExchangeAtATime' /\ PoolOK'
  BY <1>2, <1>4, <1>5, <1>6, <1>7, AddressStep, Zenon
<1>9. Types'
  BY <1>5, <1>8, Zenon DEF Inv, Types, Holding
<1> QED
  BY <1>8, <1>9 DEF Inv

\* A session is closed whose loop is not posted, and that no caller holds Ready
\* to itself.
LEMMA ClosingStep ==
  ASSUME Inv, NEW s \in Sessions, s \notin uprooted, NEW old \in Session,
         NEW new \in {"Expired", "Closing"}, NEW rest \in SUBSET Queueable,
         Close(old, s, new, rest), UNCHANGED <<strand, available, caller, pending, closer, shared>>,
         uprooted' = uprooted, ~HasLoop(strand[s]),
         old.run # "done" => ~old.processing /\ old.users = {} /\ old.queue = << >>,
         \A i \in DOMAIN old.queue : old.queue[i] \in old.users,
         old.onResponse = None \/ old.onResponse \in old.users,
         PlacesOK(old, strand[s], caller, pending, shared),
         overdue \subseteq overdue', invoked \subseteq invoked',
         ~(/\ Holding /\ caller.session = s /\ closer.at = "idle" /\ caller.request \notin shared
           /\ caller.request \notin overdue'),
         closer.at = "idle" => old.status # new /\ old.need
  PROVE  /\ session' \in [Sessions -> Session] /\ strand' \in [Sessions -> Seq(Handler)]
         /\ Addresses' /\ CallerOK' /\ OneExchangeAtATime' /\ PoolOK'
         /\ queued' \subseteq Queueable
<1> DEFINE q == strand[s]
<1>1. PICK x \in Session : GivesWay(old, s, new, rest, x)
  BY CloseIs, Zenon
<1>2. q \in Seq(Handler) /\ strand' = [strand EXCEPT ![s] = q]
  BY Zenon DEF Inv, Types
<1>3. SessionOK(x, q) /\ PlacesOK(x, q, caller, pending, shared)
  <2> HIDE DEF q
  <2>1. /\ SessionOK(x, q)
        /\ \A c, p, h : PlacesOK(old, q, c, p, h) => PlacesOK(x, q, c, p, h)
    <3>1. ~HasLoop(q)
      BY Zenon DEF q
    <3> QED
      BY <1>1, <3>1, CloseOK, Zenon DEF GivesWay
  <2> QED
    BY <2>1, Zenon DEF q
<1>4. closer'.at = "idle" => AtWork(x, q, available'[s], invoked')
  <2>1. closer'.at = "idle" => x = Fresh
    BY <1>1, Zenon DEF GivesWay
  <2>2. AtWork(Fresh, q, available'[s], invoked')
    BY FreshOK, Zenon
  <2> QED
    BY <2>1, <2>2, Zenon
<1>5. Sound(s, x, q)
  BY <1>1, <1>3, <1>4, Zenon DEF Sound, GivesWay
<1> HIDE DEF q
<1> QED
  BY <1>1, <1>2, <1>5, AddressStep, Zenon DEF GivesWay

\* A session is closed by a step that was meant for its predecessor.
LEMMA UprootingStep ==
  ASSUME Inv, NEW s \in Sessions, NEW old \in Session,
         NEW new \in {"Expired", "Closing"}, NEW rest \in SUBSET Queueable,
         Close(old, s, new, rest), UNCHANGED <<strand, available, caller, pending, closer, shared>>,
         uprooted \subseteq uprooted', s \in uprooted',
         overdue \subseteq overdue', invoked \subseteq invoked'
  PROVE  /\ session' \in [Sessions -> Session] /\ strand' \in [Sessions -> Seq(Handler)]
         /\ Addresses' /\ CallerOK' /\ OneExchangeAtATime' /\ PoolOK'
         /\ queued' \subseteq Queueable
<1> DEFINE q == strand[s]
<1>1. PICK x \in Session : GivesWay(old, s, new, rest, x)
  BY CloseIs, Zenon
<1>2. q \in Seq(Handler) /\ strand' = [strand EXCEPT ![s] = q]
  BY Zenon DEF Inv, Types
<1>3. Sound(s, x, q)
  BY <1>1, Zenon DEF Sound, GivesWay
<1> HIDE DEF q
<1> QED
  BY <1>1, <1>2, <1>3, AddressStep, Zenon DEF GivesWay

\* The handshake fails.
LEMMA HandshakeErrorStep ==
  ASSUME Inv, uprooted = {}, NEW s \in Sessions, OnHandshakeError(s) PROVE Inv'
<1> DEFINE o == session[s]
           old == [o EXCEPT !.run = "done"]
<1>1. /\ o \in Session /\ SessionOK(o, strand[s])
      /\ PlacesOK(o, strand[s], caller, pending, shared)
  BY Zenon DEF Inv, Types, Addresses
<1>2. old \in Session
  BY <1>1, Zenon DEF Session, RunPoints
<1>3. old.run = "done" /\ old.users = o.users /\ old.queue = o.queue /\ old.exchanges = o.exchanges
      /\ old.status = o.status /\ (old.need <=> o.need) /\ old.onResponse = o.onResponse
  BY <1>1, Zenon DEF Session
<1>4. /\ UNCHANGED <<strand, available, caller, pending, closer, crashed, invoked, shared, overdue, uprooted>>
      /\ o.run = "handshake" /\ faults' = faults + 1 /\ Close(old, s, "Expired", queued)
  BY Zenon DEF OnHandshakeError
<1> HIDE DEF old
<1>5. ~HasLoop(strand[s]) /\ o.users = {} /\ o.queue = << >> /\ o.status # "Ready"
  BY <1>1, <1>4, Zenon DEF SessionOK
<1>6. PlacesOK(old, strand[s], caller, pending, shared)
  BY <1>1, <1>3, Zenon DEF PlacesOK
<1>7. /\ ~(/\ Holding /\ caller.session = s /\ closer.at = "idle" /\ caller.request \notin shared
           /\ caller.request \notin overdue')
      /\ closer.at = "idle" => old.status # "Expired" /\ old.need
      /\ old.onResponse = None \/ old.onResponse \in old.users
  BY <1>1, <1>3, <1>4, <1>5, Zenon DEF Inv, CallerOK, PoolOK, AtWork, SessionOK
<1>8. queued \in SUBSET Queueable /\ faults' \in Nat
  BY <1>4 DEF Inv, Types, Queueable
<1>9. DOMAIN old.queue = {}
  BY <1>3, <1>5
<1>10. /\ session' \in [Sessions -> Session] /\ strand' \in [Sessions -> Seq(Handler)]
       /\ Addresses' /\ CallerOK' /\ OneExchangeAtATime' /\ PoolOK'
       /\ queued' \subseteq Queueable
  BY <1>2, <1>3, <1>4, <1>5, <1>6, <1>7, <1>8, <1>9, ClosingStep, Zenon
<1>11. Types'
  BY <1>4, <1>8, <1>10, Zenon DEF Inv, Types, Holding, Queueable
<1> QED
  BY <1>10, <1>11, Zenon DEF Inv

\* The timer's handler closes its session.
LEMMA OwnTimerStep ==
  ASSUME Inv, NEW s \in Sessions, OnTimer(s) PROVE Inv'
<1> DEFINE o == session[s]
           old == [o EXCEPT !.timer = "off"]
<1>1. o \in Session /\ queued \in SUBSET Queueable
  BY Zenon DEF Inv, Types, Queueable
<1>2. old \in Session
  BY <1>1, Zenon DEF Session
<1>3. /\ old.run = o.run /\ old.status = o.status /\ old.users = o.users /\ old.queue = o.queue
      /\ old.exchanges = o.exchanges /\ (old.need <=> o.need) /\ old.onResponse = o.onResponse
      /\ (old.processing <=> o.processing)
  BY <1>1, Zenon DEF Session
<1>4. /\ UNCHANGED <<strand, available, caller, pending, closer, crashed, faults, invoked, shared>>
      /\ Close(old, s, "Expired", queued) /\ o.timer \in {"queued", "late"}
      /\ overdue' = overdue \cup IF o.timer = "late" THEN o.users ELSE {}
      /\ uprooted' = uprooted \cup IF HasLoop(strand[s]) THEN {s} ELSE {}
  BY Zenon DEF OnTimer
<1> HIDE DEF old
<1>5. /\ o.users \subseteq Requests /\ overdue' \subseteq Requests /\ overdue \subseteq overdue'
      /\ uprooted \subseteq uprooted'
  BY <1>1, <1>4, Fields, Zenon DEF Inv, Types
<1>6. /\ session' \in [Sessions -> Session] /\ strand' \in [Sessions -> Seq(Handler)]
      /\ Addresses' /\ CallerOK' /\ OneExchangeAtATime' /\ PoolOK'
      /\ queued' \subseteq Queueable
  <2>1. CASE s \in uprooted'
    BY <1>1, <1>2, <1>4, <1>5, <2>1, UprootingStep, Zenon
  <2>2. CASE s \notin uprooted'
    <3>1. ~HasLoop(strand[s]) /\ s \notin uprooted /\ uprooted' = uprooted
      BY <1>4, <2>2, Zenon
    <3>2. SessionOK(o, strand[s]) /\ PlacesOK(o, strand[s], caller, pending, shared)
      BY <3>1, Zenon DEF Inv, Addresses
    <3>3. PlacesOK(old, strand[s], caller, pending, shared)
      BY <1>3, <3>2, Zenon DEF PlacesOK
    <3>4. /\ old.run # "done" => ~old.processing /\ old.users = {} /\ old.queue = << >>
          /\ \A i \in DOMAIN old.queue : old.queue[i] \in old.users
          /\ old.onResponse = None \/ old.onResponse \in old.users
      BY <1>3, <3>2, Zenon DEF SessionOK
    <3>5. closer.at = "idle" => old.status # "Expired" /\ old.need
      BY <1>3, <3>1, Zenon DEF Inv, PoolOK, AtWork
    <3>6. ASSUME Holding, caller.session = s, closer.at = "idle", caller.request \notin shared,
                 caller.request \notin overdue'
          PROVE  FALSE
      <4>1. caller.request \in o.users
        BY <1>5, <3>1, <3>6, Zenon DEF Inv, CallerOK
      <4>2. o.timer = "queued"
        BY <1>4, <3>6, <4>1, Zenon
      <4>3. o.users = {}
        BY <1>3, <3>2, <3>5, <3>6, <4>2, Zenon DEF SessionOK
      <4> QED
        BY <4>1, <4>3, Zenon
    <3> HIDE DEF o
    <3> QED
      BY <1>1, <1>2, <1>4, <1>5, <3>1, <3>3, <3>4, <3>5, <3>6, ClosingStep, Zenon
  <2> QED
    BY <2>1, <2>2, Zenon
<1>7. Types'
  BY <1>4, <1>5, <1>6, Zenon DEF Inv, Types, Holding, Queueable
<1> QED
  BY <1>6, <1>7, Zenon DEF Inv

\* The timer's handler of a freed session, or Run resumed in the handshake, closes
\* what is there.
LEMMA ExpiredStep ==
  ASSUME Inv, NEW s \in Sessions, NEW p \in {"timer", "handshake"}, OnExpired(s, p) PROVE Inv'
<1> DEFINE o == session[s]
           rest == queued \ {<<s, p>>}
<1>1. o \in Session /\ rest \in SUBSET Queueable
  BY Zenon DEF Inv, Types, Queueable
<1>2. /\ UNCHANGED <<strand, available, caller, pending, closer, crashed, faults, invoked, shared,
                     overdue>>
      /\ Close(o, s, "Expired", rest) /\ uprooted' = uprooted \cup {s}
  BY Zenon DEF OnExpired
<1> HIDE DEF o, rest
<1>3. /\ session' \in [Sessions -> Session] /\ strand' \in [Sessions -> Seq(Handler)]
      /\ Addresses' /\ CallerOK' /\ OneExchangeAtATime' /\ PoolOK'
      /\ queued' \subseteq Queueable
  <2>1. uprooted \subseteq uprooted' /\ s \in uprooted'
    BY <1>2, Zenon
  <2> QED
    BY <1>1, <1>2, <2>1, UprootingStep, Zenon
<1>4. Types'
  BY <1>2, <1>3, Zenon DEF Inv, Types, Holding, Queueable
<1> QED
  BY <1>3, <1>4, Zenon DEF Inv

-----------------------------------------------------------------------------
(* The end of an exchange.                                                 *)

\* The session when the exchange of r is over, and processing_requests_ reset.
Freed(o, r) == [o EXCEPT !.exchanges = o.exchanges \ {r}, !.processing = FALSE]

\* What Freed changes.
LEMMA FreedFields ==
  ASSUME NEW o \in Session, NEW r, NEW x, x = Freed(o, r)
  PROVE  /\ x \in Session /\ x.exchanges = o.exchanges \ {r} /\ ~x.processing
         /\ x.status = o.status /\ x.run = o.run /\ x.queue = o.queue /\ x.users = o.users
         /\ (x.need <=> o.need) /\ x.onResponse = o.onResponse
<1>1. x \in Session
  BY Zenon DEF Freed, Session
<1> QED
  BY <1>1, Zenon DEF Freed, Session

\* The session when its callback has thrown.
Thrown(o, r) == [o EXCEPT !.exchanges = o.exchanges \ {r}]

\* What Thrown changes.
LEMMA ThrownFields ==
  ASSUME NEW o \in Session, NEW r, NEW x, x = Thrown(o, r)
  PROVE  /\ x \in Session /\ x.exchanges = o.exchanges \ {r} /\ (x.processing <=> o.processing)
         /\ x.status = o.status /\ x.run = o.run /\ x.queue = o.queue /\ x.users = o.users
         /\ (x.open <=> o.open) /\ (x.need <=> o.need) /\ x.onResponse = o.onResponse
         /\ x.timer = o.timer
<1>1. x \in Session
  BY Zenon DEF Thrown, Session
<1> QED
  BY <1>1, Zenon DEF Thrown, Session

\* While a session exchanges no RequestLoop is posted, and no caller holds it to
\* itself.
LEMMA Exchanging ==
  ASSUME Inv, NEW s \in Sessions \ uprooted, NEW r \in session[s].exchanges
  PROVE  /\ session[s].open /\ session[s].run = "done" /\ session[s].processing
         /\ ~HasLoop(strand[s]) /\ session[s].exchanges \ {r} = {}
         /\ ~(/\ Holding /\ caller.session = s /\ closer.at = "idle"
              /\ caller.request \notin shared /\ caller.request \notin overdue)
<1> DEFINE o == session[s]
<1>1. SessionOK(o, strand[s]) /\ PlacesOK(o, strand[s], caller, pending, shared)
  BY Zenon DEF Inv, Addresses
<1>2. o.open /\ o.run = "done" /\ o.processing /\ ~HasLoop(strand[s]) /\ r \in o.users
  BY <1>1, Zenon DEF SessionOK
<1>3. o.exchanges \ {r} = {}
  BY Zenon DEF Inv, OneExchangeAtATime
<1>4. ASSUME Holding, caller.session = s, closer.at = "idle", caller.request \notin shared,
             caller.request \notin overdue
      PROVE  FALSE
  <2>1. caller.request \in o.users /\ caller.at # "idle"
    BY <1>4, Zenon DEF Inv, CallerOK, Holding
  <2>2. r # caller.request
    BY <1>1, <2>1, Zenon DEF PlacesOK
  <2> QED
    BY <1>1, <1>2, <1>4, <2>1, <2>2, Zenon DEF PlacesOK
<1> QED
  BY <1>2, <1>3, <1>4, Zenon

\* What FinishLoop adds to the callbacks that ran.
LEMMA FinishInvokes ==
  ASSUME Inv, NEW s \in Sessions, NEW r \in Requests,
         NEW body \in Requests \cup {"rejection", "nothing"}, NEW rest,
         FinishLoop(s, r, body, rest)
  PROVE  /\ invoked' \subseteq Requests \X (Requests \cup {"rejection", "nothing"})
         /\ invoked \subseteq invoked'
         /\ \/ /\ session[s].onResponse # None /\ body = "nothing" /\ queued' = rest
               /\ <<session[s].onResponse, "nothing">> \in invoked'
               /\ session' = [session EXCEPT ![s] = Thrown(session[s], r)]
            \/ Close(Freed(session[s], r), s, "Closing", rest)
<1>1. session[s].onResponse \in Requests \cup {None}
  BY Zenon DEF Inv, Types, Session
<1>2. invoked' \in {invoked, invoked \cup {<<session[s].onResponse, body>>}}
      /\ (session[s].onResponse = None => invoked' = invoked)
  BY Zenon DEF FinishLoop
<1>3. /\ invoked' \subseteq Requests \X (Requests \cup {"rejection", "nothing"})
      /\ invoked \subseteq invoked'
  BY <1>1, <1>2 DEF Inv, Types
<1>4. \/ /\ session[s].onResponse # None /\ body = "nothing" /\ queued' = rest
         /\ <<session[s].onResponse, "nothing">> \in invoked'
         /\ session' = [session EXCEPT ![s] = Thrown(session[s], r)]
      \/ Close(Freed(session[s], r), s, "Closing", rest)
  BY Zenon DEF FinishLoop, Thrown, Freed
<1> QED
  BY <1>3, <1>4, Zenon

\* The exchange is over and the session is closed.
LEMMA FinishCloses ==
  ASSUME Inv, NEW s \in Sessions \ uprooted, NEW r \in session[s].exchanges,
         Close(Freed(session[s], r), s, "Closing", queued),
         UNCHANGED <<strand, available, caller, pending, closer, shared, overdue, uprooted>>,
         invoked \subseteq invoked'
  PROVE  /\ session' \in [Sessions -> Session] /\ strand' \in [Sessions -> Seq(Handler)]
         /\ Addresses' /\ CallerOK' /\ OneExchangeAtATime' /\ PoolOK'
         /\ queued' \subseteq Queueable
<1> DEFINE o == session[s]
           old == Freed(o, r)
<1>1. /\ o \in Session /\ SessionOK(o, strand[s])
      /\ PlacesOK(o, strand[s], caller, pending, shared)
  BY Zenon DEF Inv, Types, Addresses
<1>2. /\ old \in Session /\ old.exchanges = o.exchanges \ {r} /\ ~old.processing
      /\ old.status = o.status /\ old.run = o.run /\ old.queue = o.queue /\ old.users = o.users
      /\ (old.need <=> o.need) /\ old.onResponse = o.onResponse
  BY <1>1, FreedFields, Zenon
<1>3. /\ o.run = "done" /\ ~HasLoop(strand[s]) /\ o.exchanges \ {r} = {}
      /\ ~(/\ Holding /\ caller.session = s /\ closer.at = "idle"
           /\ caller.request \notin shared /\ caller.request \notin overdue)
  BY Exchanging, Zenon
<1>4. PlacesOK(old, strand[s], caller, pending, shared)
  BY <1>1, <1>2, <1>3, Zenon DEF PlacesOK
<1>5. /\ \A i \in DOMAIN old.queue : old.queue[i] \in old.users
      /\ old.onResponse = None \/ old.onResponse \in old.users
  BY <1>1, <1>2, Zenon DEF SessionOK
<1>6. closer.at = "idle" => old.status # "Closing" /\ old.need
  BY <1>2, Zenon DEF Inv, PoolOK, AtWork
<1>7. overdue' = overdue /\ queued \in SUBSET Queueable /\ Close(old, s, "Closing", queued) /\ old.run = "done"
  BY <1>2, <1>3, Zenon DEF Inv, Types, Queueable
<1> HIDE DEF old
<1> QED
  BY <1>2, <1>3, <1>4, <1>5, <1>6, <1>7, ClosingStep, Zenon

\* The exchange brings a response.
LEMMA ResponseStep ==
  ASSUME Inv, uprooted = {}, NEW s \in Sessions, NEW r \in Requests, OnResponse(s, r) PROVE Inv'
<1>1. /\ r \in session[s].exchanges /\ s \notin uprooted
      /\ UNCHANGED <<strand, available, caller, pending, closer, crashed, faults, shared, overdue, uprooted>>
  BY Zenon DEF OnResponse
<1>2. PICK body \in {r, "rejection"} : FinishLoop(s, r, body, queued)
  BY Zenon DEF OnResponse
<1>3. /\ invoked' \subseteq Requests \X (Requests \cup {"rejection", "nothing"})
      /\ invoked \subseteq invoked' /\ Close(Freed(session[s], r), s, "Closing", queued)
  <2>1. body \in Requests \cup {"rejection", "nothing"} /\ body # "nothing"
    BY MarksAssumption, Zenon
  <2> QED
    BY <1>2, <2>1, FinishInvokes, Zenon
<1>4. /\ session' \in [Sessions -> Session] /\ strand' \in [Sessions -> Seq(Handler)]
      /\ Addresses' /\ CallerOK' /\ OneExchangeAtATime' /\ PoolOK'
      /\ queued' \subseteq Queueable
  BY <1>1, <1>3, FinishCloses, Zenon
<1>5. Types'
  BY <1>1, <1>3, <1>4, Zenon DEF Inv, Types, Holding, Queueable
<1> QED
  BY <1>4, <1>5, Zenon DEF Inv

\* The exchange fails, and the parser of the empty body may throw.
LEMMA ExchangeErrorStep ==
  ASSUME Inv, uprooted = {}, NEW s \in Sessions, NEW r \in Requests, OnExchangeError(s, r)
  PROVE  Inv'
<1> DEFINE o == session[s]
           q == strand[s]
           x == Thrown(o, r)
<1>1. /\ r \in o.exchanges /\ s \notin uprooted /\ faults' = faults + 1
      /\ UNCHANGED <<strand, available, caller, pending, closer, crashed, shared, overdue, uprooted>>
      /\ FinishLoop(s, r, "nothing", queued)
  BY Zenon DEF OnExchangeError
<1>2. faults' \in Nat /\ queued \subseteq Queueable
  BY <1>1 DEF Inv, Types, Queueable
<1>3. /\ invoked' \subseteq Requests \X (Requests \cup {"rejection", "nothing"})
      /\ invoked \subseteq invoked'
      /\ \/ /\ queued' = queued /\ session' = [session EXCEPT ![s] = x]
            /\ o.onResponse # None /\ <<o.onResponse, "nothing">> \in invoked'
         \/ Close(Freed(o, r), s, "Closing", queued)
  BY <1>1, FinishInvokes, Zenon
<1>4. /\ session' \in [Sessions -> Session] /\ strand' \in [Sessions -> Seq(Handler)]
      /\ Addresses' /\ CallerOK' /\ OneExchangeAtATime' /\ PoolOK'
      /\ queued' \subseteq Queueable
  <2>1. CASE Close(Freed(o, r), s, "Closing", queued)
    BY <1>1, <1>2, <1>3, <2>1, FinishCloses, Zenon
  <2>2. CASE /\ queued' = queued /\ session' = [session EXCEPT ![s] = x]
             /\ o.onResponse # None /\ <<o.onResponse, "nothing">> \in invoked'
    <3>1. /\ o \in Session /\ q \in Seq(Handler) /\ SessionOK(o, q)
          /\ PlacesOK(o, q, caller, pending, shared) /\ strand' = [strand EXCEPT ![s] = q]
      BY <1>1, Zenon DEF Inv, Types, Addresses
    <3>2. /\ x \in Session /\ x.exchanges = o.exchanges \ {r} /\ (x.processing <=> o.processing)
          /\ x.status = o.status /\ x.run = o.run /\ x.queue = o.queue /\ x.users = o.users
          /\ (x.open <=> o.open) /\ (x.need <=> o.need) /\ x.onResponse = o.onResponse
          /\ x.timer = o.timer
      BY <3>1, ThrownFields
    <3>3. /\ o.open /\ o.run = "done" /\ o.processing /\ ~HasLoop(q) /\ o.exchanges \ {r} = {}
          /\ ~(/\ Holding /\ caller.session = s /\ closer.at = "idle" /\ caller.request \notin shared
               /\ caller.request \notin overdue)
      BY <1>1, Exchanging, Zenon
    <3> HIDE DEF x
    <3>4. SessionOK(x, q)
      BY <3>1, <3>2, <3>3, Zenon DEF SessionOK
    <3>5. PlacesOK(x, q, caller, pending, shared)
      BY <3>1, <3>2, <3>3, Zenon DEF PlacesOK
    <3>6. closer'.at = "idle" => AtWork(x, q, available'[s], invoked')
      <4>1. closer.at = "idle" => AtWork(o, q, available[s], invoked)
        BY <1>1, Zenon DEF Inv, PoolOK
      <4>2. o.onResponse \in x.users
        BY <2>2, <3>1, <3>2, Zenon DEF SessionOK
      <4> QED
        BY <1>1, <2>2, <3>2, <3>3, <4>1, <4>2, Zenon DEF AtWork
    <3>7. Sound(s, x, q)
      BY <1>1, <1>2, <3>2, <3>3, <3>4, <3>5, <3>6, Zenon DEF Sound
    <3> HIDE DEF o, q
    <3> QED
      BY <1>1, <1>2, <1>3, <2>2, <3>1, <3>2, <3>7, AddressStep, Zenon
  <2> QED
    BY <1>3, <2>1, <2>2, Zenon
<1>5. Types'
  BY <1>1, <1>2, <1>3, <1>4, Zenon DEF Inv, Types, Holding, Queueable
<1> QED
  BY <1>4, <1>5, Zenon DEF Inv

\* An exchange goes on without its session.
LEMMA ExchangeAbortedStep ==
  ASSUME Inv, NEW s \in Sessions, NEW r \in Requests, OnExchangeAborted(s, r) PROVE Inv'
<1> DEFINE o == session[s]
           q == strand[s]
           x == Thrown(o, r)
           old == Freed(o, r)
           rest == queued \ {<<s, r>>}
<1>1. /\ uprooted' = uprooted \cup {s}
      /\ UNCHANGED <<strand, available, caller, pending, closer, crashed, faults, shared, overdue>>
      /\ FinishLoop(s, r, "nothing", rest)
  BY Zenon DEF OnExchangeAborted
<1>2. rest \in SUBSET Queueable
  BY Zenon DEF Inv, Types, Queueable
<1> HIDE DEF rest
<1>3. /\ invoked' \subseteq Requests \X (Requests \cup {"rejection", "nothing"})
      /\ invoked \subseteq invoked'
      /\ \/ queued' = rest /\ session' = [session EXCEPT ![s] = x]
         \/ Close(old, s, "Closing", rest)
  BY <1>1, FinishInvokes, Zenon
<1>4. o \in Session /\ q \in Seq(Handler) /\ strand' = [strand EXCEPT ![s] = q]
  BY <1>1, Zenon DEF Inv, Types
<1>5. s \in uprooted' /\ uprooted \subseteq uprooted'
  BY <1>1, Zenon
<1>6. /\ session' \in [Sessions -> Session] /\ strand' \in [Sessions -> Seq(Handler)]
      /\ Addresses' /\ CallerOK' /\ OneExchangeAtATime' /\ PoolOK'
      /\ queued' \subseteq Queueable
  <2>1. CASE Close(old, s, "Closing", rest)
    <3>1. old \in Session
      BY <1>4, FreedFields, Zenon
    <3> HIDE DEF old
    <3> QED
      BY <1>1, <1>2, <1>3, <1>5, <2>1, <3>1, UprootingStep, Zenon
  <2>2. CASE queued' = rest /\ session' = [session EXCEPT ![s] = x]
    <3>1. x \in Session /\ x.exchanges = o.exchanges \ {r}
      BY <1>4, ThrownFields
    <3> HIDE DEF x
    <3>2. \A r1, r2 \in x.exchanges : r1 = r2
      BY <3>1, Zenon DEF Inv, OneExchangeAtATime
    <3>3. Sound(s, x, q)
      BY <1>2, <1>5, <3>2, Zenon DEF Sound
    <3> HIDE DEF o, q
    <3> QED
      BY <1>1, <1>2, <1>3, <1>4, <1>5, <2>2, <3>1, <3>3, AddressStep, Zenon
  <2> QED
    BY <1>3, <2>1, <2>2, Zenon
<1>7. Types'
  BY <1>1, <1>3, <1>6, Zenon DEF Inv, Types, Holding, Queueable
<1> QED
  BY <1>6, <1>7, Zenon DEF Inv

-----------------------------------------------------------------------------
(* The strand of a session.                                                *)

\* A request is queued, with a RequestLoop unless one is at work.
LEMMA RequestStep ==
  ASSUME Inv, uprooted = {}, NEW s \in Sessions, OnRequest(s) PROVE Inv'
<1> DEFINE o == session[s]
           q == strand[s]
           r == Head(q)[2]
           x == [o EXCEPT !.queue = Append(o.queue, r), !.processing = TRUE]
           l == IF o.processing THEN Tail(q) ELSE Append(Tail(q), <<"loop", None>>)
<1>1. /\ o \in Session /\ q \in Seq(Handler) /\ SessionOK(o, q)
      /\ PlacesOK(o, q, caller, pending, shared)
  BY DEF Inv, Types, Addresses
<1>2. q # << >> /\ Head(q)[1] = "request"
  BY Zenon DEF OnRequest
<1>3. /\ Tail(q) \in Seq(Handler) /\ (HasLoop(Tail(q)) <=> HasLoop(q))
      /\ (OneLoop(q) => OneLoop(Tail(q)))
      /\ \A i \in DOMAIN Tail(q) : i + 1 \in DOMAIN q /\ Tail(q)[i] = q[i + 1]
      /\ 1 \in DOMAIN q /\ q[1] = Head(q) /\ r \in Requests
  BY <1>1, <1>2, RequestFirst, Zenon
<1>4. /\ session' = [session EXCEPT ![s] = x] /\ strand' = [strand EXCEPT ![s] = l]
      /\ UNCHANGED <<queued, available, caller, pending, closer, crashed, faults, invoked, shared, overdue>>
      /\ uprooted' = (IF r \in o.users THEN {} ELSE {s})
  BY Zenon DEF OnRequest, Stray
<1>5. o.queue \in Seq(Requests) /\ Append(o.queue, r) \in Seq(Requests)
  <2>1. o.queue \in Seq(Requests)
    BY <1>1, Fields, Zenon
  <2> HIDE DEF r
  <2> QED
    BY <1>3, <2>1
<1> HIDE DEF r
<1>6. x \in Session
  BY <1>1, <1>5, Zenon DEF Session
<1>7. /\ x.queue = Append(o.queue, r) /\ x.processing /\ x.run = o.run /\ x.status = o.status
      /\ (x.open <=> o.open) /\ x.exchanges = o.exchanges /\ (x.need <=> o.need)
      /\ x.users = o.users /\ x.onResponse = o.onResponse /\ x.timer = o.timer
  BY <1>1, Zenon DEF Session
<1>8. x.queue # << >> /\ \A i \in DOMAIN x.queue :
                           x.queue[i] = r \/ (i \in DOMAIN o.queue /\ x.queue[i] = o.queue[i])
  BY <1>3, <1>5, <1>7
<1>9. /\ l \in Seq(Handler) /\ (~o.processing => HasLoop(l))
      /\ (HasLoop(q) => HasLoop(l)) /\ (o.processing => (HasLoop(l) <=> HasLoop(q)))
      /\ (o.processing /\ OneLoop(q) => OneLoop(l)) /\ (~o.processing /\ ~HasLoop(q) => OneLoop(l))
      /\ \A i \in DOMAIN l : l[i][1] = "request" => \E j \in DOMAIN q : l[i] = q[j]
  <2>1. CASE o.processing
    BY <1>3, <2>1, Zenon
  <2>2. CASE ~o.processing
    <3>1. l = Append(Tail(q), <<"loop", None>>)
      BY <2>2, Zenon
    <3>2. /\ l \in Seq(Handler) /\ HasLoop(l) /\ (~HasLoop(Tail(q)) => OneLoop(l))
          /\ \A i \in DOMAIN l : l[i][1] = "request" => i \in DOMAIN Tail(q) /\ l[i] = Tail(q)[i]
      <4> HIDE DEF l
      <4> QED
        BY <1>3, <3>1, LoopLast, Zenon
    <3> HIDE DEF l
    <3> QED
      BY <1>3, <2>2, <3>2, Zenon
  <2> QED
    BY <2>1, <2>2, Zenon
<1> HIDE DEF x, l
<1>10. Sound(s, x, l)
  <2>1. ASSUME r \in o.users PROVE SessionOK(x, l)
    BY <1>1, <1>7, <1>8, <1>9, <2>1, Zenon DEF SessionOK
  <2>2. PlacesOK(x, l, caller, pending, shared)
    <3>1. caller.at # "idle" => r # caller.request
      BY <1>1, <1>2, <1>3 DEF PlacesOK, r
    <3>2. \A i \in DOMAIN l : l[i][1] = "request" =>
            l[i][2] \notin pending /\ (caller.at # "idle" => l[i][2] # caller.request)
      BY <1>1, <1>9 DEF PlacesOK
    <3>3. caller.at # "idle" => \A i \in DOMAIN x.queue : x.queue[i] # caller.request
      BY <1>1, <1>8, <3>1, Zenon DEF PlacesOK
    <3> QED
      BY <1>1, <1>7, <3>2, <3>3, Zenon DEF PlacesOK
  <2>3. Holding /\ caller.session = s /\ closer.at = "idle"
          /\ caller.request \notin shared /\ caller.request \notin overdue =>
          o.status = "Ready" /\ caller.request \in o.users
    BY DEF Inv, CallerOK
  <2>4. \A r1, r2 \in x.exchanges : r1 = r2
    BY <1>7, Zenon DEF Inv, OneExchangeAtATime
  <2>5. closer'.at = "idle" => AtWork(x, l, available'[s], invoked')
    BY <1>4, <1>7, <1>9, Zenon DEF Inv, PoolOK, AtWork
  <2> QED
    BY <1>4, <1>7, <2>1, <2>2, <2>3, <2>4, <2>5, Zenon DEF Sound
<1>11. /\ session' \in [Sessions -> Session] /\ strand' \in [Sessions -> Seq(Handler)]
       /\ Addresses' /\ CallerOK' /\ OneExchangeAtATime' /\ PoolOK'
  BY <1>4, <1>6, <1>9, <1>10, AddressStep, Zenon
<1>12. Types'
  BY <1>4, <1>11, Zenon DEF Inv, Types, Holding
<1> QED
  BY <1>11, <1>12 DEF Inv

\* What RequestLoop makes of a session.
LEMMA TakenFields ==
  ASSUME NEW o \in Session, NEW x, x = Taken(o)
  PROVE  /\ x \in Session /\ x.run = o.run /\ (x.open <=> o.open) /\ (x.processing <=> o.processing)
         /\ (x.need <=> o.need) /\ x.users = o.users /\ x.onResponse = o.onResponse
         /\ x.timer = o.timer
         /\ o.queue = << >> =>
              x.status = "Ready" /\ x.queue = << >> /\ x.exchanges = o.exchanges
         /\ o.queue # << >> =>
              /\ x.status = "kInProcess" /\ x.queue = Tail(o.queue)
              /\ x.exchanges = IF o.open THEN o.exchanges \cup {Head(o.queue)} ELSE o.exchanges
              /\ Head(o.queue) \in Requests
              /\ 1 \in DOMAIN o.queue /\ o.queue[1] = Head(o.queue)
              /\ \A i \in DOMAIN x.queue : i + 1 \in DOMAIN o.queue /\ x.queue[i] = o.queue[i + 1]
<1>1. CASE o.queue = << >>
  <2>1. x = [o EXCEPT !.status = "Ready"]
    BY <1>1, Zenon DEF Taken
  <2>2. x \in Session
    BY <2>1, Zenon DEF Session, Statuses
  <2> QED
    BY <1>1, <2>1, <2>2, Zenon DEF Session
<1>2. CASE o.queue # << >>
  <2> DEFINE e == IF o.open THEN o.exchanges \cup {Head(o.queue)} ELSE o.exchanges
             l == Tail(o.queue)
  <2>1. x = [o EXCEPT !.status = "kInProcess", !.queue = l, !.exchanges = e]
    BY <1>2, Zenon DEF Taken
  <2>2. o.queue \in Seq(Requests) /\ o.exchanges \subseteq Requests
    BY Fields, Zenon
  <2>3. /\ Head(o.queue) \in Requests /\ l \in Seq(Requests)
        /\ 1 \in DOMAIN o.queue /\ o.queue[1] = Head(o.queue)
        /\ \A i \in DOMAIN l : i + 1 \in DOMAIN o.queue /\ l[i] = o.queue[i + 1]
    BY <1>2, <2>2
  <2>4. e \subseteq Requests
    BY <2>2, <2>3, Zenon
  <2> HIDE DEF e, l
  <2>5. x \in Session
    BY <2>1, <2>3, <2>4, Zenon DEF Session, Statuses
  <2>6. /\ x.run = o.run /\ (x.open <=> o.open) /\ (x.processing <=> o.processing)
        /\ (x.need <=> o.need) /\ x.users = o.users /\ x.onResponse = o.onResponse
        /\ x.timer = o.timer
        /\ x.status = "kInProcess" /\ x.queue = l /\ x.exchanges = e
    BY <2>1 DEF Session
  <2>7. x.exchanges = IF o.open THEN o.exchanges \cup {Head(o.queue)} ELSE o.exchanges
    BY <2>6, Zenon DEF e
  <2> QED
    BY <1>2, <2>3, <2>5, <2>6, <2>7, Zenon DEF l
<1> QED
  BY <1>1, <1>2, Zenon

\* RequestLoop finds the queue empty, or takes a request.
LEMMA LoopStep ==
  ASSUME Inv, uprooted = {}, NEW s \in Sessions, StartLoop(s) PROVE Inv'
<1> DEFINE o == session[s]
           q == strand[s]
           x == Taken(o)
           l == Tail(q)
<1>1. /\ o \in Session /\ q \in Seq(Handler) /\ SessionOK(o, q)
      /\ PlacesOK(o, q, caller, pending, shared)
  BY DEF Inv, Types, Addresses
<1>2. q # << >> /\ Head(q)[1] = "loop"
  BY Zenon DEF StartLoop
<1>3. /\ l \in Seq(Handler) /\ HasLoop(q) /\ (OneLoop(q) => ~HasLoop(l))
      /\ \A i \in DOMAIN l : i + 1 \in DOMAIN q /\ l[i] = q[i + 1]
  BY <1>1, <1>2, LoopFirst, Zenon
<1>4. /\ session' = [session EXCEPT ![s] = x] /\ strand' = [strand EXCEPT ![s] = l]
      /\ UNCHANGED <<caller, pending, closer, crashed, faults, invoked, shared, overdue, uprooted>>
      /\ available' = [available EXCEPT ![s] =
                         IF o.status = "Ready" THEN available[s] ELSE available[s] + 1]
      /\ queued' = queued \cup IF o.open \/ o.queue = << >> THEN {} ELSE {<<s, Head(o.queue)>>}
  BY Zenon DEF StartLoop
<1>5. /\ x \in Session /\ x.run = o.run /\ (x.open <=> o.open) /\ (x.processing <=> o.processing)
      /\ (x.need <=> o.need) /\ x.users = o.users /\ x.onResponse = o.onResponse
      /\ x.timer = o.timer
      /\ o.queue = << >> =>
           x.status = "Ready" /\ x.queue = << >> /\ x.exchanges = o.exchanges
      /\ o.queue # << >> =>
           /\ x.status = "kInProcess" /\ x.queue = Tail(o.queue)
           /\ x.exchanges = IF o.open THEN o.exchanges \cup {Head(o.queue)} ELSE o.exchanges
           /\ Head(o.queue) \in Requests
           /\ 1 \in DOMAIN o.queue /\ o.queue[1] = Head(o.queue)
           /\ \A i \in DOMAIN x.queue : i + 1 \in DOMAIN o.queue /\ x.queue[i] = o.queue[i + 1]
  BY <1>1, TakenFields, Zenon
<1>6. /\ available' \in [Sessions -> Nat] /\ available'[s] \in Nat
      /\ (o.status # "Ready" => available'[s] > 0)
      /\ \A t \in Sessions : t # s => available'[t] = available[t]
  BY <1>4 DEF Inv, Types
<1>7. queued' \subseteq Queueable
  BY <1>4, <1>5, SMTT(20) DEF Inv, Types, Queueable
<1> HIDE DEF x, l
<1>8. Sound(s, x, l)
  <2>1. o.run = "done" /\ (o.open => ~HasLoop(l) /\ OneLoop(l))
    BY <1>1, <1>3, Zenon DEF SessionOK, HasLoop, OneLoop
  <2>2. /\ o.open /\ ~o.processing => o.queue = << >> /\ o.exchanges = {} /\ o.status # "Ready"
        /\ o.open /\ o.processing => o.queue # << >> /\ o.exchanges = {}
        /\ ~o.open => o.exchanges = {}
    BY <1>1, <1>3, Zenon DEF SessionOK
  <2>3. x.exchanges \subseteq x.users /\ \A i \in DOMAIN x.queue : x.queue[i] \in x.users
    <3>1. o.exchanges \subseteq o.users /\ \A i \in DOMAIN o.queue : o.queue[i] \in o.users
      BY <1>1, Zenon DEF SessionOK
    <3>2. CASE o.queue = << >>
      BY <1>5, <3>1, <3>2, Zenon
    <3>3. CASE o.queue # << >>
      <4>1. Head(o.queue) \in o.users
        BY <1>5, <3>1, <3>3, Zenon
      <4> QED
        BY <1>5, <3>1, <3>3, <4>1, Zenon
    <3> QED
      BY <3>2, <3>3, Zenon
  <2>4. SessionOK(x, l)
    BY <1>1, <1>5, <2>1, <2>2, <2>3, Zenon DEF SessionOK
  <2>5. PlacesOK(x, l, caller, pending, shared)
    <3>1. \A i \in DOMAIN l : l[i][1] = "request" =>
            l[i][2] \notin pending /\ (caller.at # "idle" => l[i][2] # caller.request)
      BY <1>1, <1>3 DEF PlacesOK
    <3>2. caller.at # "idle" =>
            caller.request \notin x.exchanges /\ \A i \in DOMAIN x.queue : x.queue[i] # caller.request
      <4>1. caller.at # "idle" =>
              caller.request \notin o.exchanges /\ \A i \in DOMAIN o.queue : o.queue[i] # caller.request
        BY <1>1, Zenon DEF PlacesOK
      <4>2. CASE o.queue = << >>
        BY <1>5, <4>1, <4>2, Zenon
      <4>3. CASE o.queue # << >>
        <5>1. caller.at # "idle" => Head(o.queue) # caller.request
          BY <1>5, <4>1, <4>3, Zenon
        <5> QED
          BY <1>5, <4>1, <4>3, <5>1, Zenon
      <4> QED
        BY <4>2, <4>3, Zenon
    <3> QED
      BY <1>1, <1>5, <3>1, <3>2, Zenon DEF PlacesOK
  <2>6. ASSUME Holding, caller.session = s, caller.request \notin shared, caller.request \notin overdue,
               closer.at = "idle"
        PROVE  x.status = "Ready" /\ caller.request \in x.users
    <3>1. caller.request \in o.users /\ caller.at # "idle"
      BY <2>6, Zenon DEF Inv, CallerOK, Holding
    <3>2. o.queue = << >>
      <4>1. ASSUME o.queue # << >> PROVE FALSE
        <5>1. o.queue[1] \in o.users /\ o.queue[1] # caller.request
          BY <1>1, <1>5, <3>1, <4>1, Zenon DEF SessionOK, PlacesOK
        <5> QED
          BY <1>1, <2>6, <3>1, <5>1, Zenon DEF PlacesOK
      <4> QED
        BY <4>1, Zenon
    <3> QED
      BY <1>5, <3>1, <3>2, Zenon
  <2>7. \A r1, r2 \in x.exchanges : r1 = r2
    BY <1>5, <2>2, Zenon
  <2>8. closer'.at = "idle" => AtWork(x, l, available'[s], invoked')
    <3> SUFFICES ASSUME closer.at = "idle"
                 PROVE  AtWork(x, l, available'[s], invoked')
      BY <1>4, Zenon
    <3>1. AtWork(o, q, available[s], invoked)
      BY Zenon DEF Inv, PoolOK
    <3>2. o.open /\ o.need
      BY <2>1, <3>1, Zenon DEF AtWork
    <3> QED
      BY <1>5, <1>6, <2>1, <2>2, <3>2, Zenon DEF AtWork
  <2> QED
    BY <1>4, <2>4, <2>5, <2>6, <2>7, <2>8, Zenon DEF Sound
<1>9. /\ session' \in [Sessions -> Session] /\ strand' \in [Sessions -> Seq(Handler)]
      /\ Addresses' /\ CallerOK' /\ OneExchangeAtATime' /\ PoolOK'
  BY <1>3, <1>4, <1>5, <1>6, <1>8, AddressStep, Zenon
<1>10. Types'
  BY <1>4, <1>6, <1>7, <1>9, Zenon DEF Inv, Types, Holding, Queueable
<1> QED
  BY <1>9, <1>10 DEF Inv

-----------------------------------------------------------------------------
(* CloseAllSessions.                                                       *)

\* A session of the pool is cancelled.
LEMMA CancelStep ==
  ASSUME Inv, uprooted = {}, NEW s \in Sessions, CancelNext(s) PROVE Inv'
<1> DEFINE o == session[s]
           q == strand[s]
           x == [o EXCEPT !.status = "Cancelling"]
<1>1. /\ o \in Session /\ q \in Seq(Handler) /\ SessionOK(o, q)
      /\ PlacesOK(o, q, caller, pending, shared)
  BY DEF Inv, Types, Addresses
<1>2. x \in Session
  BY <1>1, Zenon DEF Session, Statuses
<1>3. /\ x.run = o.run /\ x.status = "Cancelling" /\ (x.open <=> o.open)
      /\ x.queue = o.queue /\ (x.processing <=> o.processing)
      /\ x.exchanges = o.exchanges /\ x.users = o.users /\ x.onResponse = o.onResponse
      /\ x.timer = o.timer /\ (x.need <=> o.need)
  BY <1>1, Zenon DEF Session
<1>4. session' = [session EXCEPT ![s] = x] /\ strand' = [strand EXCEPT ![s] = q]
  BY Zenon DEF CancelNext, Inv, Types
<1>5. /\ UNCHANGED <<queued, caller, pending, crashed, faults, invoked, shared, overdue, uprooted>>
      /\ closer' = [at |-> "silence", session |-> s] /\ closer.at = "next"
      /\ available[s] > 0 /\ available' = [available EXCEPT ![s] = available[s] - 1]
  BY Zenon DEF CancelNext
<1>6. /\ available' \in [Sessions -> Nat] /\ \A t \in Sessions : t # s => available'[t] = available[t]
  BY <1>5 DEF Inv, Types
<1>7. closer'.at # "idle"
  BY <1>5
<1> HIDE DEF x
<1>8. Sound(s, x, q)
  <2>1. SessionOK(x, q)
    BY <1>1, <1>3, Zenon DEF SessionOK
  <2>2. PlacesOK(x, q, caller, pending, shared)
    BY <1>1, <1>3, Zenon DEF PlacesOK
  <2>3. \A r1, r2 \in x.exchanges : r1 = r2
    BY <1>3, Zenon DEF Inv, OneExchangeAtATime
  <2> QED
    BY <1>5, <1>7, <2>1, <2>2, <2>3, Zenon DEF Sound
<1>9. /\ session' \in [Sessions -> Session] /\ strand' \in [Sessions -> Seq(Handler)]
      /\ Addresses' /\ CallerOK' /\ OneExchangeAtATime' /\ PoolOK'
  <2> HIDE DEF o, q
  <2> QED
    BY <1>1, <1>2, <1>4, <1>5, <1>6, <1>8, AddressStep, Zenon
<1>10. Types'
  BY <1>5, <1>6, <1>9, Zenon DEF Inv, Types, Holding
<1> QED
  BY <1>9, <1>10 DEF Inv

\* Its end will not be reported to the pool.
LEMMA SilenceStep ==
  ASSUME Inv, uprooted = {}, Silence PROVE Inv'
<1> DEFINE s == closer.session
           o == session[s]
           q == strand[s]
           x == [o EXCEPT !.need = FALSE]
<1>1. closer.at = "silence" /\ s \in Sessions
  BY Zenon DEF Inv, Types, Silence
<1>2. /\ o \in Session /\ q \in Seq(Handler) /\ SessionOK(o, q)
      /\ PlacesOK(o, q, caller, pending, shared)
  BY <1>1, Zenon DEF Inv, Types, Addresses
<1>3. x \in Session
  BY <1>2, Zenon DEF Session
<1>4. /\ x.run = o.run /\ x.status = o.status /\ (x.open <=> o.open)
      /\ x.queue = o.queue /\ (x.processing <=> o.processing)
      /\ x.exchanges = o.exchanges /\ x.users = o.users /\ x.onResponse = o.onResponse
      /\ ~x.need
  BY <1>2, Zenon DEF Session
<1>5. session' = [session EXCEPT ![s] = x] /\ strand' = [strand EXCEPT ![s] = q]
  BY <1>1, Zenon DEF Silence, Inv, Types
<1>6. /\ UNCHANGED <<queued, available, caller, pending, crashed, faults, invoked, shared, overdue, uprooted>>
      /\ closer' = [at |-> "next", session |-> None]
  BY Zenon DEF Silence
<1>7. closer'.at # "idle"
  BY <1>6
<1> HIDE DEF x
<1>8. Sound(s, x, q)
  <2>1. SessionOK(x, q)
    BY <1>2, <1>4, Zenon DEF SessionOK
  <2>2. PlacesOK(x, q, caller, pending, shared)
    BY <1>2, <1>4, Zenon DEF PlacesOK
  <2>3. \A r1, r2 \in x.exchanges : r1 = r2
    BY <1>1, <1>4, Zenon DEF Inv, OneExchangeAtATime
  <2> QED
    BY <1>6, <1>7, <2>1, <2>2, <2>3 DEF Sound
<1>9. /\ session' \in [Sessions -> Session] /\ strand' \in [Sessions -> Seq(Handler)]
      /\ Addresses' /\ CallerOK' /\ OneExchangeAtATime' /\ PoolOK'
  <2> HIDE DEF s, o, q
  <2> QED
    BY <1>1, <1>2, <1>3, <1>5, <1>6, <1>8, AddressStep, Zenon
<1>10. Types'
  BY <1>6, <1>9, Zenon DEF Inv, Types, Holding
<1> QED
  BY <1>9, <1>10, Zenon DEF Inv

\* CloseAllSessions starts, and returns.
LEMMA CloserStep ==
  ASSUME Inv, CloseAllStarts \/ CloseAllReturns PROVE Inv'
<1>1. /\ UNCHANGED <<session, strand, queued, available, caller, pending, crashed, invoked,
                     shared, overdue, uprooted>>
      /\ closer' \in {[at |-> "next", session |-> None], [at |-> "done", session |-> None]}
      /\ faults' = faults + 1 \/ (faults' = faults /\ closer.at = "next")
  BY Zenon DEF CloseAllStarts, CloseAllReturns
<1>2. faults' \in Nat
  BY <1>1 DEF Inv, Types
<1>3. closer'.at \in {"next", "done"} /\ closer'.session = None
  BY <1>1
<1>4. Types'
  BY <1>1, <1>2, <1>3, Zenon DEF Inv, Types, Holding
<1>5. Addresses' /\ OneExchangeAtATime'
  BY <1>1, Zenon DEF Inv, Addresses, OneExchangeAtATime
<1>6. CallerOK' /\ PoolOK'
  BY <1>1, <1>2, <1>3, Zenon DEF Inv, CallerOK, PoolOK
<1> QED
  BY <1>4, <1>5, <1>6, Zenon DEF Inv

\* The process terminates.
LEMMA TerminateStep ==
  ASSUME Inv, Terminate, faults' \in Nat PROVE Inv'
<1>1. /\ session' = [s \in Sessions |-> Fresh] /\ strand' = [s \in Sessions |-> << >>]
      /\ available' = [s \in Sessions |-> 0] /\ queued' = {} /\ pending' = {} /\ caller' = Idle
      /\ closer' = [at |-> "done", session |-> None] /\ crashed' = TRUE
      /\ UNCHANGED <<invoked, shared, overdue, uprooted>>
  BY Zenon DEF Terminate
<1>2. << >> \in Seq(Handler)
  OBVIOUS
<1>3. caller'.at = "idle" /\ caller' \in Caller
  BY <1>1, Zenon DEF Idle, Caller
<1>4. Types'
  BY <1>1, <1>2, <1>3, FreshOK, Zenon DEF Inv, Types, Holding
<1>5. \A s \in Sessions : session'[s] = Fresh /\ strand'[s] = << >>
  BY <1>1, Zenon
<1>6. ~HasLoop(<< >>) /\ SessionOK(Fresh, << >>)
  BY FreshOK DEF HasLoop
<1>7. Fresh.users = {} /\ Fresh.exchanges = {} /\ DOMAIN Fresh.queue = {}
  BY DEF Fresh
<1>8. PlacesOK(Fresh, << >>, caller', pending', shared')
  BY <1>7 DEF PlacesOK
<1>9. Addresses'
  BY <1>5, <1>6, <1>8, Zenon DEF Addresses
<1>10. CallerOK' /\ PoolOK' /\ OneExchangeAtATime'
  <2>1. closer'.at # "idle"
    BY <1>1
  <2> QED
    BY <1>3, <1>5, <1>7, <2>1, Zenon DEF CallerOK, Holding, PoolOK, OneExchangeAtATime
<1> QED
  BY <1>4, <1>9, <1>10, Zenon DEF Inv

-----------------------------------------------------------------------------
(* BookSnapshot2::CoExec.                                                  *)

\* A request event is taken: its request is nowhere else.
LEMMA AcceptStep ==
  ASSUME Inv, NEW r \in Requests, Accept(r) PROVE Inv'
<1>1. /\ UNCHANGED <<session, strand, queued, available, closer, crashed, faults, invoked,
                     shared, overdue, uprooted>>
      /\ r \in pending /\ pending' = pending \ {r}
      /\ caller' \in {Idle, [Idle EXCEPT !.at = "acquire", !.request = r]}
  BY Zenon DEF Accept
<1>2. /\ caller' \in Caller /\ caller'.at \in {"idle", "acquire"}
      /\ caller'.at # "idle" => caller'.request = r
  <2>1. CASE caller' = Idle
    BY <2>1, Zenon DEF Idle, Caller
  <2>2. CASE caller' = [Idle EXCEPT !.at = "acquire", !.request = r]
    <3>1. caller' = [at |-> "acquire", request |-> r, session |-> None]
      BY <2>2, Zenon DEF Idle
    <3> QED
      BY <3>1, Zenon DEF Caller
  <2> QED
    BY <1>1, <2>1, <2>2, Zenon
<1>3. Types'
  BY <1>1, <1>2, Zenon DEF Inv, Types, Holding
<1>4. Addresses'
  <2> SUFFICES ASSUME NEW s \in Sessions \ uprooted
               PROVE  /\ SessionOK(session[s], strand[s])
                      /\ PlacesOK(session[s], strand[s], caller', pending', shared)
    BY <1>1, Zenon DEF Addresses
  <2>1. SessionOK(session[s], strand[s]) /\ PlacesOK(session[s], strand[s], caller, pending, shared)
    BY Zenon DEF Inv, Addresses
  <2>2. r \notin session[s].users
    BY <1>1, <2>1, Zenon DEF PlacesOK
  <2>3. r \notin session[s].exchanges /\ \A i \in DOMAIN session[s].queue : session[s].queue[i] # r
    BY <2>1, <2>2, Zenon DEF SessionOK
  <2> QED
    BY <1>1, <1>2, <2>1, <2>2, <2>3 DEF PlacesOK
<1>5. CallerOK' /\ OneExchangeAtATime' /\ PoolOK'
  BY <1>1, <1>2, Zenon DEF Inv, CallerOK, Holding, OneExchangeAtATime, PoolOK
<1> QED
  BY <1>3, <1>4, <1>5, Zenon DEF Inv

\* AcquireConnection hands out a Ready session.
LEMMA AcquireStep ==
  ASSUME Inv, uprooted = {}, NEW s \in Sessions, Acquire(s) PROVE Inv'
<1> DEFINE o == session[s]
           r == caller.request
           x == [o EXCEPT !.users = o.users \cup {r}]
<1>1. /\ o \in Session /\ SessionOK(o, strand[s]) /\ PlacesOK(o, strand[s], caller, pending, shared)
  BY Zenon DEF Inv, Types, Addresses
<1>2. /\ UNCHANGED <<strand, queued, available, pending, closer, crashed, faults, invoked, overdue,
                     uprooted>>
      /\ caller.at = "acquire" /\ caller' = [caller EXCEPT !.at = "register", !.session = s]
      /\ session' = [session EXCEPT ![s] = x] /\ o.status = "Ready"
      /\ shared' = shared \cup IF o.users = {} THEN {} ELSE o.users \cup {r}
  BY Zenon DEF Acquire, CanAcquire
<1>3. r \in Requests /\ r \notin pending
  BY <1>2, Zenon DEF Inv, Types, CallerOK
<1>4. /\ caller' \in Caller /\ caller'.at = "register" /\ caller'.request = r /\ caller'.session = s
  BY <1>2, Zenon DEF Inv, Types, Caller
<1>5. o.users \subseteq Requests
  BY <1>1, Fields, Zenon
<1>6. x \in Session
  BY <1>1, <1>3, <1>5, Zenon DEF Session
<1>7. /\ x.run = o.run /\ x.status = o.status /\ (x.open <=> o.open) /\ x.queue = o.queue
      /\ (x.processing <=> o.processing) /\ x.exchanges = o.exchanges /\ (x.need <=> o.need)
      /\ x.users = o.users \cup {r} /\ x.onResponse = o.onResponse /\ x.timer = o.timer
  BY <1>1, Zenon DEF Session
<1> HIDE DEF x, r
<1>8. /\ session' \in [Sessions -> Session] /\ session'[s] = x
      /\ \A t \in Sessions : t # s => session'[t] = session[t]
  BY <1>2, <1>6, Zenon DEF Inv, Types
<1>9. shared' \subseteq Requests /\ shared \subseteq shared'
  BY <1>2, <1>3, <1>5, Zenon DEF Inv, Types
<1>10. Types'
  BY <1>2, <1>3, <1>4, <1>8, <1>9 DEF Inv, Types, Holding
<1>11. SessionOK(x, strand[s])
  BY <1>1, <1>2, <1>7, Zenon DEF SessionOK
<1>12. PlacesOK(x, strand[s], caller', pending, shared')
  <2>1. \A r1, r2 \in x.users : r1 # r2 => r1 \in shared'
    BY <1>2, <1>7, Zenon
  <2> QED
    BY <1>1, <1>2, <1>3, <1>4, <1>7, <2>1 DEF PlacesOK, r
<1>13. \A t \in Sessions : t # s =>
         PlacesOK(session[t], strand[t], caller', pending, shared')
  BY <1>2, <1>4, <1>9 DEF Inv, Addresses, PlacesOK, r
<1>14. Addresses'
  BY <1>2, <1>8, <1>11, <1>12, <1>13, Zenon DEF Inv, Addresses
<1>15. CallerOK'
  BY <1>2, <1>3, <1>4, <1>7, <1>8 DEF CallerOK
<1>16. OneExchangeAtATime'
  BY <1>7, <1>8 DEF Inv, OneExchangeAtATime
<1>17. AtWork(o, strand[s], available[s], invoked) => AtWork(x, strand[s], available[s], invoked)
  BY <1>7, Zenon DEF AtWork
<1>18. PoolOK'
  BY <1>2, <1>8, <1>17, Zenon DEF Inv, PoolOK
<1> QED
  BY <1>10, <1>14, <1>15, <1>16, <1>18, Zenon DEF Inv

\* The callback is registered with the session at the address.
LEMMA RegisterStep ==
  ASSUME Inv, uprooted = {}, RegisterOnResponse PROVE Inv'
<1> DEFINE s == caller.session
           o == session[s]
           r == caller.request
           x == [o EXCEPT !.onResponse = r]
<1>1. caller.at = "register" /\ s \in Sessions /\ r \in Requests /\ r \notin pending
  BY Zenon DEF Inv, Types, CallerOK, RegisterOnResponse, Holding
<1>2. /\ o \in Session /\ SessionOK(o, strand[s]) /\ PlacesOK(o, strand[s], caller, pending, shared)
  BY <1>1, Zenon DEF Inv, Types, Addresses
<1>3. /\ UNCHANGED <<strand, queued, available, pending, closer, crashed, faults, invoked, shared, overdue>>
      /\ caller' = [caller EXCEPT !.at = "request"] /\ session' = [session EXCEPT ![s] = x]
      /\ uprooted' = IF r \in o.users THEN {} ELSE {s}
  BY Zenon DEF RegisterOnResponse, Stray
<1>4. /\ caller' \in Caller /\ caller'.at = "request" /\ caller'.request = r /\ caller'.session = s
  BY <1>3, Zenon DEF Inv, Types, Caller
<1>5. x \in Session
  BY <1>1, <1>2, Zenon DEF Session
<1>6. /\ x.run = o.run /\ x.status = o.status /\ (x.open <=> o.open) /\ x.queue = o.queue
      /\ (x.processing <=> o.processing) /\ x.exchanges = o.exchanges /\ (x.need <=> o.need)
      /\ x.users = o.users /\ x.onResponse = r /\ x.timer = o.timer
  BY <1>2, Zenon DEF Session
<1> HIDE DEF x, r, s
<1>7. /\ session' \in [Sessions -> Session] /\ session'[s] = x
      /\ \A t \in Sessions : t # s => session'[t] = session[t]
  BY <1>1, <1>3, <1>5 DEF Inv, Types
<1>8. Types'
  BY <1>1, <1>3, <1>4, <1>7, Zenon DEF Inv, Types, Holding
<1>9. r \in o.users => SessionOK(x, strand[s])
  BY <1>2, <1>6, Zenon DEF SessionOK
<1>10. PlacesOK(x, strand[s], caller, pending, shared)
  BY <1>2, <1>6, Zenon DEF PlacesOK
<1>11. \A y, q : PlacesOK(y, q, caller, pending, shared) => PlacesOK(y, q, caller', pending, shared)
  BY <1>1, <1>4 DEF PlacesOK, r
<1>12. Addresses'
  BY <1>3, <1>7, <1>9, <1>10, <1>11, Zenon DEF Inv, Addresses
<1>13. CallerOK'
  BY <1>1, <1>3, <1>4, <1>6, <1>7 DEF Inv, CallerOK, Holding, r, s
<1>14. OneExchangeAtATime'
  BY <1>1, <1>6, <1>7, SMTT(20) DEF Inv, OneExchangeAtATime
<1>15. AtWork(o, strand[s], available[s], invoked) => AtWork(x, strand[s], available[s], invoked)
  BY <1>6, Zenon DEF AtWork
<1>16. PoolOK'
  BY <1>1, <1>3, <1>7, <1>15, Zenon DEF Inv, PoolOK
<1> QED
  BY <1>8, <1>12, <1>13, <1>14, <1>16, Zenon DEF Inv

\* AsyncRequest posts the request to the session's strand.
LEMMA AsyncRequestStep ==
  ASSUME Inv, uprooted = {}, AsyncRequest PROVE Inv'
<1> DEFINE s == caller.session
           o == session[s]
           q == strand[s]
           r == caller.request
           l == Append(q, <<"request", r>>)
<1>1. caller.at = "request" /\ s \in Sessions /\ r \in Requests /\ r \notin pending
  BY Zenon DEF Inv, Types, CallerOK, AsyncRequest, Holding
<1>2. /\ q \in Seq(Handler) /\ SessionOK(o, q) /\ PlacesOK(o, q, caller, pending, shared)
  BY <1>1, Zenon DEF Inv, Types, Addresses
<1>3. /\ UNCHANGED <<session, queued, available, pending, closer, crashed, faults, invoked, shared, overdue,
                     uprooted>>
      /\ caller' = Idle /\ strand' = [strand EXCEPT ![s] = l]
  BY Zenon DEF AsyncRequest
<1>4. caller' \in Caller /\ caller'.at = "idle"
  BY <1>3, Zenon DEF Idle, Caller
<1> HIDE DEF l, r, s
<1>5. /\ l \in Seq(Handler) /\ (HasLoop(l) <=> HasLoop(q)) /\ (OneLoop(q) => OneLoop(l))
      /\ \A i \in DOMAIN l : l[i] = <<"request", r>> \/ (i \in DOMAIN q /\ l[i] = q[i])
  <2>1. l = Append(q, <<"request", r>>)
    BY Zenon DEF l
  <2>2. q \in Seq(Handler) /\ r \in Requests
    BY <1>1, <1>2, Zenon
  <2> HIDE DEF q, o
  <2> QED
    BY <2>1, <2>2, RequestLast, Zenon
<1>6. /\ strand' \in [Sessions -> Seq(Handler)] /\ strand'[s] = l
      /\ \A t \in Sessions : t # s => strand'[t] = strand[t]
  BY <1>1, <1>3, <1>5, Zenon DEF Inv, Types
<1>7. Types'
  BY <1>3, <1>4, <1>6, Zenon DEF Inv, Types, Holding
<1>8. SessionOK(o, l)
  BY <1>2, <1>5, Zenon DEF SessionOK
<1>9. PlacesOK(o, l, caller', pending, shared)
  <2>1. ASSUME NEW i \in DOMAIN l, l[i][1] = "request" PROVE l[i][2] \notin pending
    <3>1. CASE l[i] = <<"request", r>>
      BY <1>1, <3>1
    <3>2. CASE i \in DOMAIN q /\ l[i] = q[i]
      BY <1>2, <2>1, <3>2, Zenon DEF PlacesOK
    <3> QED
      BY <1>5, <3>1, <3>2, Zenon
  <2> QED
    BY <1>2, <1>4, <2>1, Zenon DEF PlacesOK
<1>10. \A y, p : PlacesOK(y, p, caller, pending, shared) => PlacesOK(y, p, caller', pending, shared)
  BY <1>4, Zenon DEF PlacesOK
<1>11. Addresses'
  BY <1>3, <1>6, <1>8, <1>9, <1>10, Zenon DEF Inv, Addresses
<1>12. CallerOK' /\ OneExchangeAtATime'
  BY <1>3, <1>4, Zenon DEF Inv, CallerOK, Holding, OneExchangeAtATime
<1>13. AtWork(o, q, available[s], invoked) => AtWork(o, l, available[s], invoked)
  BY <1>5, Zenon DEF AtWork
<1>14. PoolOK'
  BY <1>1, <1>3, <1>6, <1>13, Zenon DEF Inv, PoolOK
<1> QED
  BY <1>7, <1>11, <1>12, <1>14, Zenon DEF Inv

-----------------------------------------------------------------------------
(* The pool.                                                               *)

\* A pool of fresh sessions.
LEMMA InvInit == Init => Inv
<1> SUFFICES ASSUME Init PROVE Inv
  OBVIOUS
<1>1. << >> \in Seq(Handler)
  OBVIOUS
<1>2. caller.at = "idle" /\ caller \in Caller
  BY Zenon DEF Init, Idle, Caller
<1>3. Types
  BY <1>1, <1>2, FreshOK, Zenon DEF Init, Types, Holding
<1>4. \A s \in Sessions : session[s] = Fresh /\ strand[s] = << >>
  BY Zenon DEF Init
<1>5. ~HasLoop(<< >>) /\ SessionOK(Fresh, << >>)
  BY FreshOK DEF HasLoop
<1>6. Fresh.users = {} /\ Fresh.exchanges = {} /\ DOMAIN Fresh.queue = {}
  BY DEF Fresh
<1>7. PlacesOK(Fresh, << >>, caller, pending, shared)
  BY <1>6 DEF PlacesOK
<1>8. Addresses
  BY <1>4, <1>5, <1>7, Zenon DEF Addresses
<1>9. CallerOK /\ OneExchangeAtATime
  BY <1>2, <1>4, <1>6, Zenon DEF CallerOK, Holding, OneExchangeAtATime
<1>10. PoolOK
  BY <1>4, FreshOK, Zenon DEF Init, PoolOK
<1> QED
  BY <1>3, <1>8, <1>9, <1>10, Zenon DEF Inv

\* Every step of the sessions, of the component, of the pool and of the network.
LEMMA InvStep == Inv /\ [Next]_vars => Inv'
<1> SUFFICES ASSUME Inv, [Next]_vars PROVE Inv'
  OBVIOUS
<1>1. CASE UNCHANGED vars
  BY <1>1, Zenon DEF vars, Inv, Types, Holding, Addresses, CallerOK, OneExchangeAtATime, PoolOK
<1>2. CASE uprooted = {} /\ Progress
  BY <1>2, ResolvedStep, ConnectedStep, HandshakeStep, RequestStep, LoopStep, ResponseStep, Zenon
     DEF Progress
<1>3. CASE uprooted = {} /\ Faults
  <2>1. ASSUME NEW s \in Sessions, OnNetworkError(s) PROVE Inv'
    <3>1. faults' \in Nat /\ Terminate
      BY <2>1 DEF OnNetworkError, Inv, Types
    <3> QED
      BY <3>1, TerminateStep, Zenon
  <2> QED
    BY <1>3, <2>1, ExpireStep, HandshakeErrorStep, ExchangeErrorStep, Zenon DEF Faults
<1>4. CASE uprooted = {} /\ Component
  BY <1>4, AcceptStep, AcquireStep, RegisterStep, AsyncRequestStep, Zenon DEF Component
<1>5. CASE uprooted = {} /\ CloseAllSessions
  BY <1>5, CloserStep, CancelStep, SilenceStep, Zenon DEF CloseAllSessions
<1>6. CASE Aborts
  <2>1. ASSUME NEW s \in Sessions, NEW p, OnAborted(s, p) PROVE Inv'
    <3>1. faults' \in Nat /\ Terminate
      BY <2>1, Zenon DEF OnAborted, Inv, Types
    <3> QED
      BY <3>1, TerminateStep
  <2> QED
    BY <1>6, <2>1, OwnTimerStep, ExpiredStep, ExchangeAbortedStep, Zenon DEF Aborts
<1> QED
  BY <1>1, <1>2, <1>3, <1>4, <1>5, <1>6, Zenon DEF Next, Intact

\* Whatever the order of handlers, timers, errors and requests: a session has one
\* exchange at a time, one that was acquired is Ready until the request is posted
\* unless its timer had expired before it was set up, and one that ends is replaced
\* unless the callback of its request threw.  For every pool, every set of requests
\* and every number of faults.
THEOREM PoolSound == Spec => []PoolIsSound
<1>1. Inv => PoolIsSound
  <2> SUFFICES ASSUME Inv PROVE PoolIsSound
    OBVIOUS
  <2>1. TypeOK
    <3>1. ASSUME NEW s \in Sessions
          PROVE  /\ session[s].status \in Statuses /\ session[s].run \in RunPoints
                 /\ session[s].queue \in Seq(Requests) /\ session[s].exchanges \subseteq Requests
                 /\ session[s].onResponse \in Requests \cup {None}
                 /\ available[s] >= 0
                 /\ \A i \in 1 .. Len(strand[s]) : strand[s][i] \in
                      {<<"loop", None>>} \cup ({"request"} \X Requests)
      <4>1. session[s] \in Session /\ available[s] \in Nat /\ strand[s] \in Seq(Handler)
        BY Zenon DEF Inv, Types
      <4>2. available[s] >= 0 /\ \A i \in 1 .. Len(strand[s]) : strand[s][i] \in Handler
        BY <4>1
      <4> QED
        BY <4>1, <4>2, Fields, Zenon DEF Handler
    <3> QED
      BY <3>1, Zenon DEF Inv, Types, TypeOK
  <2>2. HeldSessionIsReady
    BY Zenon DEF Inv, CallerOK, Holding, HeldSessionIsReady
  <2>3. PoolKeepsItsSize
    BY Zenon DEF Inv, PoolOK, AtWork, PoolKeepsItsSize
  <2> QED
    BY <2>1, <2>2, <2>3, Zenon DEF Inv, PoolIsSound
<1> QED
  BY <1>1, InvInit, InvStep, PTL DEF Spec

-----------------------------------------------------------------------------
(* The sessions that serve one request.                                    *)

\* The operations that set a connection up.
SetUps == {"resolve", "connect", "tls", "upgrade"}

\* What the classes have in common, and where they differ.
ClassFacts(c) ==
  /\ \A i \in DOMAIN c.setup : c.setup[i] \in SetUps
  /\ c.setup \in Seq(SetUps)
  /\ c.stream \in BOOLEAN /\ c.requestAtOnce \in BOOLEAN /\ c.checksFirst \in BOOLEAN
  /\ c.requestAtOnce => c.stream
  /\ c.onError \in {"close", "stop", "throw"}
  /\ c.onWriteError \in {"close", "stop"}
  /\ c.onReadError \in {"close", "callback"}
  /\ c.onReadError = "callback" => c.name \in {"WssSession", "WSSession"}
  /\ c.onReadError = "close" => c.onError # "stop" /\ c.onWriteError # "stop"

\* The five classes are as the records say.
LEMMA ClassesFacts == \A c \in Classes : ClassFacts(c)
<1>1. ClassFacts(HttpsSession) /\ ClassFacts(HttpsSession2)
  BY DEF ClassFacts, HttpsSession, HttpsSession2, SetUps
<1>2. ClassFacts(WssSession) /\ ClassFacts(WssSession2) /\ ClassFacts(WSSession)
  BY DEF ClassFacts, WssSession, WssSession2, WSSession, SetUps
<1> QED
  BY <1>1, <1>2, Zenon DEF Classes

\* What follows an operation of the set-up is one of them, or the end.
LEMMA FollowingIs ==
  ASSUME ClassFacts(class), NEW o \in {class.setup[i] : i \in DOMAIN class.setup}
  PROVE  o \in SetUps /\ Following(o) \in SetUps \cup {"idle"}
<1> DEFINE i == CHOOSE j \in DOMAIN class.setup : class.setup[j] = o
<1>1. i \in DOMAIN class.setup /\ class.setup[i] = o
  OBVIOUS
<1>2. i # Len(class.setup) => i + 1 \in DOMAIN class.setup
  BY <1>1 DEF ClassFacts
<1> QED
  BY <1>1, <1>2, Zenon DEF ClassFacts, Following

\* Every message of the sequence answers an accepted call.
OfAccepted(s) == \A i \in DOMAIN s : s[i] \in accepted

\* Until a text is replaced under its write, only the accepted call's text gets
\* to the exchange, and only answers to it come back.
Traced ==
  ~replaced =>
    /\ op = "write" => text \in accepted
    /\ wire # Nobody => wire \in accepted
    /\ op = "read" /\ result = "ok" => buffer \in accepted
    /\ OfAccepted(inflight) /\ OfAccepted(heard)

\* What has been accepted, and where the session is then.
Accepted ==
  /\ \A a, b \in accepted : a = b
  /\ ~used /\ ~class.requestAtOnce => accepted = {}
  /\ class.requestAtOnce => text = 1 /\ accepted = {1}
  /\ op \in SetUps => ~connected
  /\ op \in {"write", "read"} => used \/ class.requestAtOnce

\* How the session ends.
Ending ==
  /\ spurious => class.name \in {"WssSession", "WSSession"}
  /\ ~class.stream /\ heard # << >> => op = "none" /\ used /\ Len(heard) = 1
  /\ op = "close" => ~needRead
  /\ EndIsMarked

\* The inductive invariant of a session.
SingleInv ==
  /\ SingleTypeOK /\ inflight \in Seq(0 .. Garbage) /\ heard \in Seq(0 .. Garbage)
  /\ Traced /\ Accepted /\ Ending

\* A step that leaves the request, the messages and the callback alone, and that ends
\* the session only with a mark.
Quietly ==
  /\ UNCHANGED <<class, connected, used, text, buffer, calls, inflight, messages, wire,
                 rCrashed, accepted, replaced, heard, spurious>>
  /\ op' = op \/ (op' = "none" /\ (stillborn' \/ ~needRead'))
  /\ result' \in {"none", "error"} \/ result' = result
  /\ timer' \in {"off", "armed", "queued"}
  /\ open' \in BOOLEAN /\ expired' \in BOOLEAN /\ needRead' \in BOOLEAN
  /\ shutdown' \in BOOLEAN /\ stillborn' \in BOOLEAN
  /\ (expired => expired') /\ (stillborn => stillborn') /\ (needRead' => needRead)

\* Such a step.
LEMMA QuietStep == ASSUME SessionAssumption, SingleInv, Quietly PROVE SingleInv'
<1>0. SingleTypeOK /\ Traced /\ Accepted /\ Ending
  BY Zenon DEF SingleInv
<1>1. SingleTypeOK'
  BY <1>0, Zenon DEF SingleTypeOK, Quietly
<1>2. inflight' \in Seq(0 .. Garbage) /\ heard' \in Seq(0 .. Garbage)
  BY Zenon DEF SingleInv, Quietly
<1>3. Traced'
  BY <1>0, Zenon DEF Traced, OfAccepted, Quietly
<1>4. Accepted'
  BY <1>0, Zenon DEF Accepted, SetUps, Quietly
<1>5. Ending'
  BY <1>0, Zenon DEF Ending, EndIsMarked, Quietly
<1> QED
  BY <1>1, <1>2, <1>3, <1>4, <1>5, Zenon DEF SingleInv, Garbage

\* The network completes an operation: a write has sent the text of the accepted
\* call, and a read has taken one of the answers to it.
LEMMA CompleteStep == ASSUME SessionAssumption, SingleInv, Complete PROVE SingleInv'
<1> USE DEF SessionAssumption, Garbage, Nobody
<1>0. SingleTypeOK /\ Traced /\ Accepted /\ Ending
  BY Zenon DEF SingleInv
<1>1. ClassFacts(class) /\ class' = class
  BY <1>0, ClassesFacts, Zenon DEF SingleTypeOK, Complete, flags, ghosts, exchange
<1>2. buffer' \in 0 .. Garbage /\ inflight' \in Seq(0 .. Garbage)
  <2>1. \/ UNCHANGED <<buffer, inflight>>
        \/ inflight # << >> /\ buffer' = Head(inflight) /\ inflight' = Tail(inflight)
    BY Zenon DEF Complete
  <2>2. buffer \in 0 .. Garbage /\ inflight \in Seq(0 .. Garbage)
    BY Zenon DEF SingleInv, SingleTypeOK
  <2>3. inflight # << >> =>
          Head(inflight) \in 0 .. Garbage /\ Tail(inflight) \in Seq(0 .. Garbage)
    BY <2>2
  <2> QED
    BY <2>1, <2>2, <2>3, Zenon
<1>7. wire' \in 0 .. Garbage
  BY <1>0 DEF SingleTypeOK, Complete
<1>8. open' \in BOOLEAN /\ result' \in {"ok", "error"}
  BY <1>0, Zenon DEF SingleTypeOK, Complete
<1>9. SingleTypeOK'
  BY <1>0, <1>1, <1>2, <1>7, <1>8, Zenon DEF SingleTypeOK, Complete, flags, ghosts
<1>3. heard' \in Seq(0 .. Garbage)
  BY Zenon DEF SingleInv, Complete, ghosts
<1>4. Traced'
  <2>1. CASE result' = "error"
    BY <1>0, <1>1, <2>1, Zenon DEF Traced, OfAccepted, Complete, flags, ghosts
  <2>2. CASE result' = "ok" /\ op = "read"
    <3>1. /\ inflight # << >> /\ buffer' = Head(inflight) /\ inflight' = Tail(inflight)
          /\ wire' = wire /\ UNCHANGED <<op, text, heard, replaced, accepted>>
      BY <2>2, Zenon DEF Complete, flags, ghosts
    <3>2. ~replaced => buffer' \in accepted /\ \A i \in DOMAIN inflight' : inflight'[i] \in accepted
      BY <1>0, <3>1 DEF Traced, OfAccepted
    <3> QED
      BY <2>2, <3>1, <3>2, Zenon DEF SingleInv, Traced, OfAccepted
  <2>3. CASE result' = "ok" /\ op # "read"
    BY <1>0, <1>1, <2>3, Zenon DEF Traced, OfAccepted, Complete, flags, ghosts
  <2> QED
    BY <1>8, <2>1, <2>2, <2>3, Zenon
<1>5. Accepted'
  BY <1>0, <1>1, Zenon DEF Accepted, ClassFacts, SetUps, Complete, flags, ghosts, exchange
<1>6. Ending'
  BY <1>0, <1>1, Zenon DEF Ending, EndIsMarked, Accepted, ClassFacts, SetUps, Complete, flags,
                    ghosts, exchange
<1> QED
  BY <1>2, <1>3, <1>4, <1>5, <1>6, <1>9, Zenon DEF SingleInv

\* The next operation of the set-up, or the session is connected.
LEMMA OnSetUpStep == ASSUME SessionAssumption, SingleInv, OnSetUp PROVE SingleInv'
<1> USE DEF SessionAssumption, Garbage, Nobody
<1>0. SingleTypeOK /\ Traced /\ Accepted /\ Ending
  BY DEF SingleInv
<1>1. ClassFacts(class) /\ class' = class
  BY <1>0, ClassesFacts, Zenon DEF SingleTypeOK, OnSetUp, Start, flags, ghosts, exchange
<1>2. SingleTypeOK'
  BY <1>0, <1>1, FollowingIs DEF SingleTypeOK, Accepted, ClassFacts, SetUps, TimerAfter,
                                 OnSetUp, Start, flags, ghosts, exchange
<1>3. inflight' \in Seq(0 .. Garbage) /\ heard' \in Seq(0 .. Garbage)
  BY Zenon DEF SingleInv, OnSetUp, Start, flags, ghosts, exchange
<1>4. Traced'
  BY <1>0, <1>1, FollowingIs, Zenon DEF Traced, OfAccepted, Accepted, ClassFacts, SetUps, OnSetUp,
                                 Start, flags, ghosts, exchange
<1>5. Accepted'
  BY <1>0, <1>1, FollowingIs, Zenon DEF Accepted, ClassFacts, SetUps, OnSetUp, Start,
                                        flags, ghosts, exchange
<1>6. Ending'
  BY <1>0, <1>1, FollowingIs, Zenon DEF Ending, EndIsMarked, Accepted, ClassFacts, SetUps,
                                 OnSetUp, Start, flags, ghosts, exchange
<1> QED
  BY <1>2, <1>3, <1>4, <1>5, <1>6, Zenon DEF SingleInv

\* The host name is refused: the session is marked as stillborn.
LEMMA OnHostNameRefusedStep ==
  ASSUME SessionAssumption, SingleInv, OnHostNameRefused PROVE SingleInv'
<1>1. Quietly
  BY Zenon DEF SingleInv, SingleTypeOK, Ending, Quietly, OnHostNameRefused, Start, flags,
         ghosts, exchange
<1> QED
  BY <1>1, QuietStep, Zenon

\* An error of the set-up closes the session, stops it or is thrown.
LEMMA OnSetUpErrorStep ==
  ASSUME SessionAssumption, SingleInv, OnSetUpError PROVE SingleInv'
<1> USE DEF SessionAssumption, Garbage, Nobody
<1>0. SingleTypeOK /\ Traced /\ Accepted /\ Ending
  BY DEF SingleInv
<1>1. ClassFacts(class) /\ class' = class
  BY <1>0, ClassesFacts, Zenon DEF SingleTypeOK, OnSetUpError, Failed, close_session, Start,
                            flags, ghosts, exchange
<1>2. SingleTypeOK'
  <2>1. {open', connected', used', expired', needRead', shutdown', rCrashed', stillborn',
         replaced', spurious'} \subseteq BOOLEAN /\ (used' => connected')
    BY <1>0, <1>1, ZenonT(40) DEF SingleTypeOK, ClassFacts, OnSetUpError, Failed,
                                  close_session, Start, flags, ghosts, exchange
  <2>2. /\ op' \in {"resolve", "connect", "tls", "upgrade", "idle", "write", "read",
                   "close", "none"}
        /\ result' \in {"none", "ok", "error"} /\ timer' \in {"off", "armed", "queued"}
    BY <1>0, <1>1, Zenon DEF SingleTypeOK, ClassFacts, OnSetUpError, Failed, close_session, Start,
                      flags, ghosts, exchange
  <2>3. /\ {text', buffer', wire'} \subseteq 0 .. Garbage
        /\ calls' \in 0 .. MaxCalls /\ accepted' \subseteq 1 .. MaxCalls
        /\ messages' \in 0 .. MaxMessages
    BY <1>0, <1>1, Zenon DEF SingleTypeOK, OnSetUpError, Failed, close_session, Start, flags,
                      ghosts, exchange
  <2> QED
    BY <1>0, <1>1, <2>1, <2>2, <2>3, Zenon DEF SingleTypeOK
<1>3. inflight' \in Seq(0 .. Garbage) /\ heard' \in Seq(0 .. Garbage)
  BY Zenon DEF SingleInv, OnSetUpError, Failed, close_session, Start, flags, ghosts,
         exchange
<1>4. Traced'
  BY <1>0, <1>1, FollowingIs, Zenon DEF Traced, OfAccepted, Accepted, ClassFacts, SetUps,
                                 OnSetUpError, Failed, close_session, Start, flags,
                                 ghosts, exchange
<1>5. Accepted'
  BY <1>0, <1>1, FollowingIs, Zenon DEF Accepted, ClassFacts, SetUps, OnSetUpError, Failed,
                                 close_session, Start, flags, ghosts, exchange
<1>6. Ending'
  <2>1. /\ UNCHANGED <<class, used, needRead, heard, spurious, stillborn>> /\ op' = "none"
        /\ class.onError = "close" => expired'
        /\ class.onError = "throw" => rCrashed'
    BY <1>1, Zenon DEF ClassFacts, OnSetUpError, Failed, close_session, Start
  <2>2. op # "none"
    BY <1>1, FollowingIs, Zenon DEF OnSetUpError, SetUps
  <2> QED
    BY <1>0, <1>1, <2>1, <2>2 DEF Ending, EndIsMarked, ClassFacts
<1> QED
  BY <1>2, <1>3, <1>4, <1>5, <1>6 DEF SingleInv

\* WSSession writes the request it was constructed with.
LEMMA SendAtOnceStep == ASSUME SessionAssumption, SingleInv, SendAtOnce PROVE SingleInv'
<1> USE DEF SessionAssumption, Garbage, Nobody
<1>0. SingleTypeOK /\ Traced /\ Accepted /\ Ending
  BY DEF SingleInv
<1>1. ClassFacts(class) /\ class' = class
  BY <1>0, ClassesFacts, Zenon DEF SingleTypeOK, SendAtOnce, Start, flags, ghosts, exchange
<1>2. SingleTypeOK'
  BY <1>0, <1>1 DEF SingleTypeOK, ClassFacts, SendAtOnce, Start, flags, ghosts, exchange
<1>3. inflight' \in Seq(0 .. Garbage) /\ heard' \in Seq(0 .. Garbage)
  BY Zenon DEF SingleInv, SendAtOnce, Start, flags, ghosts, exchange
<1>4. Traced'
  BY <1>0, <1>1, Zenon DEF Traced, OfAccepted, Accepted, ClassFacts, SetUps, SendAtOnce, Start,
                    flags, ghosts, exchange
<1>5. Accepted'
  BY <1>0, <1>1, Zenon DEF Accepted, ClassFacts, SetUps, SendAtOnce, Start, flags, ghosts,
                    exchange
<1>6. Ending'
  BY <1>0, <1>1, Zenon DEF Ending, EndIsMarked, Accepted, ClassFacts, SetUps, SendAtOnce, Start,
                    flags, ghosts, exchange
<1> QED
  BY <1>2, <1>3, <1>4, <1>5, <1>6 DEF SingleInv

\* The timer expires.
LEMMA TimerStep == ASSUME SessionAssumption, SingleInv, SingleExpire PROVE SingleInv'
<1>1. Quietly
  BY Zenon DEF SingleInv, SingleTypeOK, Ending, Quietly, SingleExpire, flags, ghosts, exchange
<1> QED
  BY <1>1, QuietStep

\* The timer's handler closes the session, whatever is in flight.
LEMMA TimerHandlerStep ==
  ASSUME SessionAssumption, SingleInv, start_timer PROVE SingleInv'
<1>1. Quietly
  BY Zenon DEF SingleInv, SingleTypeOK, Ending, Quietly, start_timer, close_session, flags,
               ghosts, exchange
<1> QED
  BY <1>1, QuietStep

\* AsyncRequest goes through only if no call did before: used is set with the
\* first, and is never reset.
LEMMA SingleRequestStep ==
  ASSUME SessionAssumption, SingleInv, SingleAsyncRequest PROVE SingleInv'
<1> USE DEF SessionAssumption, Garbage, Nobody
<1>0. SingleTypeOK /\ Traced /\ Accepted /\ Ending
  BY DEF SingleInv
<1>1. ClassFacts(class) /\ class' = class
  BY <1>0, ClassesFacts, Zenon DEF SingleTypeOK, SingleAsyncRequest, Unused, flags, ghosts, exchange
<1>2. SingleTypeOK'
  <2>1. {open', connected', used', expired', needRead', shutdown', rCrashed', stillborn',
         replaced', spurious'} \subseteq BOOLEAN /\ (used' => connected')
    BY <1>0, <1>1, ZenonT(40) DEF SingleTypeOK, ClassFacts, SingleAsyncRequest, Unused, flags,
                                  ghosts, exchange
  <2>2. /\ op' \in {"resolve", "connect", "tls", "upgrade", "idle", "write", "read",
                   "close", "none"}
        /\ result' \in {"none", "ok", "error"} /\ timer' \in {"off", "armed", "queued"}
    BY <1>0, <1>1, Zenon DEF SingleTypeOK, ClassFacts, SingleAsyncRequest, Unused, flags, ghosts,
                      exchange
  <2>3. /\ calls' \in 1 .. MaxCalls /\ text' \in {text, calls'}
        /\ accepted' \subseteq accepted \cup {calls'}
        /\ UNCHANGED <<buffer, wire, messages>>
    BY <1>0 DEF SingleTypeOK, SingleAsyncRequest, exchange
  <2>4. /\ {text', buffer', wire'} \subseteq 0 .. Garbage
        /\ calls' \in 0 .. MaxCalls /\ accepted' \subseteq 1 .. MaxCalls
        /\ messages' \in 0 .. MaxMessages
    BY <1>0, <2>3 DEF SingleTypeOK
  <2> QED
    BY <1>0, <1>1, <2>1, <2>2, <2>4 DEF SingleTypeOK
<1>3. inflight' \in Seq(0 .. Garbage) /\ heard' \in Seq(0 .. Garbage)
  BY Zenon DEF SingleInv, SingleAsyncRequest, Unused, flags, ghosts, exchange
<1>4. Traced'
  BY <1>0, <1>1 DEF SingleTypeOK, Traced, OfAccepted, Accepted, ClassFacts, SetUps, SingleAsyncRequest,
                    Unused, flags, ghosts, exchange
<1>5. Accepted'
  BY <1>0, <1>1 DEF Accepted, ClassFacts, SetUps, SingleAsyncRequest, Unused, flags, ghosts,
                    exchange
<1>6. Ending'
  BY <1>0, <1>1, Zenon DEF Ending, EndIsMarked, Accepted, ClassFacts, SetUps, SingleAsyncRequest,
                    Unused, flags, ghosts, exchange
<1> QED
  BY <1>2, <1>3, <1>4, <1>5, <1>6 DEF SingleInv

\* The write has ended: the answer is read, or the class's way is taken.
LEMMA OnWriteStep == ASSUME SessionAssumption, SingleInv, OnWrite PROVE SingleInv'
<1> USE DEF SessionAssumption, Garbage, Nobody
<1>0. SingleTypeOK /\ Traced /\ Accepted /\ Ending
  BY DEF SingleInv
<1>1. ClassFacts(class) /\ class' = class
  BY <1>0, ClassesFacts, Zenon DEF SingleTypeOK, OnWrite, Failed, close_session, Start, flags,
                            ghosts, exchange
<1>2. SingleTypeOK'
  <2>1. {open', connected', used', expired', needRead', shutdown', rCrashed', stillborn',
         replaced', spurious'} \subseteq BOOLEAN /\ (used' => connected')
    <3>1. CASE result = "ok"
      BY <1>0, <3>1 DEF SingleTypeOK, OnWrite, Start, flags
    <3>2. CASE result # "ok"
      <4>1. /\ UNCHANGED <<connected, used, needRead, shutdown, stillborn, replaced>>
            /\ UNCHANGED <<rCrashed, spurious>> /\ open' \in {open, FALSE} /\ expired' \in {expired, TRUE}
        BY <1>1, <3>2, Zenon DEF ClassFacts, OnWrite, Failed, close_session, Start
      <4> QED
        BY <1>0, <4>1, Zenon DEF SingleTypeOK
    <3> QED
      BY <3>1, <3>2, Zenon
  <2>2. /\ op' \in {"resolve", "connect", "tls", "upgrade", "idle", "write", "read",
                   "close", "none"}
        /\ result' \in {"none", "ok", "error"} /\ timer' \in {"off", "armed", "queued"}
    BY <1>0, <1>1, Zenon DEF SingleTypeOK, ClassFacts, OnWrite, Failed, close_session, Start,
                      flags, ghosts, exchange
  <2>3. /\ {text', buffer', wire'} \subseteq 0 .. Garbage
        /\ calls' \in 0 .. MaxCalls /\ accepted' \subseteq 1 .. MaxCalls
        /\ messages' \in 0 .. MaxMessages
    BY <1>0, <1>1, Zenon DEF SingleTypeOK, OnWrite, Failed, close_session, Start, flags,
                      ghosts, exchange
  <2> QED
    BY <1>0, <1>1, <2>1, <2>2, <2>3 DEF SingleTypeOK
<1>3. inflight' \in Seq(0 .. Garbage) /\ heard' \in Seq(0 .. Garbage)
  BY Zenon DEF SingleInv, OnWrite, Failed, close_session, Start, flags, ghosts,
         exchange
<1>4. Traced'
  BY <1>0, <1>1, Zenon DEF Traced, OfAccepted, Accepted, ClassFacts, SetUps, OnWrite, Failed,
                    close_session, Start, flags, ghosts, exchange
<1>5. Accepted'
  BY <1>0, <1>1, Zenon DEF Accepted, ClassFacts, SetUps, OnWrite, Failed, close_session,
                    Start, flags, ghosts, exchange
<1>6. Ending'
  BY <1>0, <1>1, Zenon DEF Ending, EndIsMarked, Accepted, ClassFacts, SetUps, OnWrite, Failed,
                    close_session, Start, flags, ghosts, exchange
<1> QED
  BY <1>2, <1>3, <1>4, <1>5, <1>6 DEF SingleInv

\* The callback hears a message that answers the accepted call.
LEMMA OnReadStep == ASSUME SessionAssumption, SingleInv, OnRead PROVE SingleInv'
<1> USE DEF SessionAssumption, Garbage, Nobody
<1>0. SingleTypeOK /\ Traced /\ Accepted /\ Ending
  BY DEF SingleInv
<1>1. ClassFacts(class) /\ class' = class
  BY <1>0, ClassesFacts, Zenon DEF SingleTypeOK, OnRead, Start, close_session, flags, ghosts,
                            exchange
<1>2. SingleTypeOK'
  <2>1. {open', connected', used', expired', needRead', shutdown', rCrashed', stillborn',
         replaced', spurious'} \subseteq BOOLEAN /\ (used' => connected')
    BY <1>0, <1>1, ZenonT(40) DEF SingleTypeOK, ClassFacts, OnRead, Start, close_session,
                                  flags, ghosts, exchange
  <2>2. /\ op' \in {"resolve", "connect", "tls", "upgrade", "idle", "write", "read",
                   "close", "none"}
        /\ result' \in {"none", "ok", "error"} /\ timer' \in {"off", "armed", "queued"}
    BY <1>0, <1>1, Zenon DEF SingleTypeOK, ClassFacts, OnRead, Start, close_session, flags,
                      ghosts, exchange
  <2>3. /\ {text', buffer', wire'} \subseteq 0 .. Garbage
        /\ calls' \in 0 .. MaxCalls /\ accepted' \subseteq 1 .. MaxCalls
        /\ messages' \in 0 .. MaxMessages
    BY <1>0, <1>1, Zenon DEF SingleTypeOK, OnRead, Start, close_session, flags, ghosts,
                      exchange
  <2> QED
    BY <1>0, <1>1, <2>1, <2>2, <2>3 DEF SingleTypeOK
<1>3. inflight' \in Seq(0 .. Garbage) /\ heard' \in Seq(0 .. Garbage)
  BY DEF SingleInv, SingleTypeOK, OnRead, Start, close_session, flags, ghosts,
         exchange
<1>4. Traced'
  <2>1. \A i \in DOMAIN heard' : heard'[i] = buffer \/ (i \in DOMAIN heard /\ heard'[i] = heard[i])
    BY DEF SingleInv, SingleTypeOK, OnRead
  <2>2. (op' # "write" /\ result' # "ok") \/ op' # "read"
    BY <1>1, Zenon DEF OnRead, Start, close_session, ClassFacts
  <2>3. op' # "write" /\ ~(op' = "read" /\ result' = "ok")
    BY <1>1, <2>2, Zenon DEF OnRead, Start, close_session, ClassFacts
  <2> QED
    BY <2>1, <2>3, Zenon DEF SingleInv, Traced, OfAccepted, OnRead, exchange
<1>5. Accepted'
  BY <1>0, <1>1, Zenon DEF Accepted, ClassFacts, SetUps, OnRead, Start, close_session, flags,
                    ghosts, exchange
<1>6. Ending'
  BY <1>0, <1>1 DEF Ending, EndIsMarked, Accepted, ClassFacts, SetUps, OnRead, Start,
                    close_session, flags, ghosts, exchange
<1> QED
  BY <1>2, <1>3, <1>4, <1>5, <1>6 DEF SingleInv

\* A read that failed closes the session, or is given to the callback.
LEMMA OnReadErrorStep ==
  ASSUME SessionAssumption, SingleInv, OnReadError PROVE SingleInv'
<1> USE DEF SessionAssumption, Garbage, Nobody
<1>0. SingleTypeOK /\ Traced /\ Accepted /\ Ending
  BY DEF SingleInv
<1>1. ClassFacts(class) /\ class' = class
  BY <1>0, ClassesFacts, Zenon DEF SingleTypeOK, OnReadError, Failed, close_session, Start,
                            flags, ghosts, exchange
<1>2. SingleTypeOK'
  BY <1>0, <1>1, ZenonT(40) DEF SingleTypeOK, ClassFacts, OnReadError, Failed, close_session,
                                Start, flags, ghosts, exchange
<1>3. inflight' \in Seq(0 .. Garbage) /\ heard' \in Seq(0 .. Garbage)
  BY Zenon DEF SingleInv, OnReadError, Failed, close_session, Start, flags, ghosts,
         exchange
<1>4. Traced'
  BY <1>0, <1>1, Zenon DEF Traced, OfAccepted, Accepted, ClassFacts, SetUps, OnReadError, Failed,
                    close_session, Start, flags, ghosts, exchange
<1>5. Accepted'
  BY <1>0, <1>1, Zenon DEF Accepted, ClassFacts, SetUps, OnReadError, Failed, close_session,
                    Start, flags, ghosts, exchange
<1>6. Ending'
  BY <1>0, <1>1 DEF Ending, EndIsMarked, Accepted, ClassFacts, SetUps, OnReadError,
                    Failed, close_session, Start, flags, ghosts, exchange
<1> QED
  BY <1>2, <1>3, <1>4, <1>5, <1>6 DEF SingleInv

\* async_close has completed.
LEMMA OnCloseStep == ASSUME SessionAssumption, SingleInv, OnClose PROVE SingleInv'
<1>1. Quietly
  BY Zenon DEF SingleInv, SingleTypeOK, Ending, Quietly, OnClose, Start, flags, ghosts,
         exchange
<1> QED
  BY <1>1, QuietStep

\* The owner asks for the end.
LEMMA GracefulCloseStep ==
  ASSUME SessionAssumption, SingleInv, AsyncCloseSessionGracefully PROVE SingleInv'
<1>1. Quietly
  BY Zenon DEF SingleInv, SingleTypeOK, Ending, Quietly, AsyncCloseSessionGracefully, flags,
               ghosts, exchange
<1> QED
  BY <1>1, QuietStep

\* async_shutdown has completed.
LEMMA OnShutdownStep == ASSUME SessionAssumption, SingleInv, OnShutdown PROVE SingleInv'
<1>1. Quietly
  BY Zenon DEF SingleInv, SingleTypeOK, Ending, Quietly, OnShutdown, close_session, flags,
               ghosts, exchange
<1> QED
  BY <1>1, QuietStep

\* The exchange answers the request it received.
LEMMA AnswerStep == ASSUME SessionAssumption, SingleInv, Answer PROVE SingleInv'
<1> USE DEF SessionAssumption, Garbage, Nobody
<1>0. SingleTypeOK /\ Traced /\ Accepted /\ Ending
  BY DEF SingleInv
<1>1. ClassFacts(class) /\ class' = class
  BY <1>0, ClassesFacts, Zenon DEF SingleTypeOK, Answer, flags, ghosts, exchange
<1>2. SingleTypeOK'
  <2>1. messages' \in 0 .. MaxMessages
    BY <1>0 DEF SingleTypeOK, Answer
  <2>2. /\ UNCHANGED <<class, op, result, timer, open, connected, used, expired, needRead,
                      shutdown>>
        /\ UNCHANGED <<text, buffer, calls, wire, rCrashed, stillborn, accepted, replaced,
                      spurious>>
    BY Zenon DEF Answer, flags, ghosts
  <2> QED
    BY <1>0, <2>1, <2>2, Zenon DEF SingleTypeOK
<1>3. inflight' \in Seq(0 .. Garbage) /\ heard' \in Seq(0 .. Garbage)
  BY DEF SingleInv, SingleTypeOK, Answer, flags, ghosts, exchange
<1>4. Traced'
  BY <1>0, <1>1 DEF Traced, OfAccepted, Answer, flags, ghosts, exchange
<1>5. Accepted'
  BY <1>0, <1>1, Zenon DEF Accepted, SetUps, Answer, flags, ghosts, exchange
<1>6. Ending'
  BY <1>0, <1>1, Zenon DEF Ending, EndIsMarked, Answer, flags, ghosts, exchange
<1> QED
  BY <1>2, <1>3, <1>4, <1>5, <1>6 DEF SingleInv

\* A session that was just constructed.
LEMMA SingleStarts == SessionAssumption /\ SingleInit => SingleInv
<1> SUFFICES ASSUME SessionAssumption, SingleInit PROVE SingleInv
  OBVIOUS
<1> USE DEF SessionAssumption, Garbage, Nobody
<1>1. ClassFacts(class)
  BY ClassesFacts, Zenon DEF SingleInit
<1>2. << >> \in Seq(0 .. Garbage)
  OBVIOUS
<1>3. stillborn \in BOOLEAN
  BY Zenon DEF SingleInit
<1>4. SingleTypeOK
  <2>1. {open, connected, used, expired, needRead, shutdown, rCrashed, stillborn,
         replaced, spurious} \subseteq BOOLEAN
    BY <1>3, Zenon DEF SingleInit
  <2>2. op \in {"none", "resolve"} /\ timer \in {"off", "armed"} /\ text \in 0 .. 1 /\ calls \in 0 .. 1
    BY DEF SingleInit
  <2>3. accepted \subseteq 1 .. MaxCalls /\ {text, buffer, wire} \subseteq 0 .. Garbage
    BY <2>2 DEF SingleInit
  <2> QED
    BY <2>1, <2>2, <2>3 DEF SingleInit, SingleTypeOK
<1>5. Traced /\ Accepted /\ Ending
  BY <1>1, <1>3 DEF SingleInit, Traced, OfAccepted, Accepted, Ending, EndIsMarked, ClassFacts,
                    SetUps
<1> QED
  BY <1>2, <1>4, <1>5, Zenon DEF SingleInit, SingleInv

\* Every step of the session, of its caller and of the network.
LEMMA SingleStep ==
  ASSUME SessionAssumption, SingleInv, [SingleNext]_singleVars PROVE SingleInv'
<1>1. CASE UNCHANGED singleVars
  <2>1. SingleTypeOK'
    BY <1>1, Zenon DEF SingleInv, SingleTypeOK, singleVars, flags, ghosts, exchange
  <2>2. Traced'
    BY <1>1, Zenon DEF SingleInv, Traced, OfAccepted, singleVars, flags, ghosts, exchange
  <2>3. inflight' = inflight /\ heard' = heard
    BY <1>1, Zenon DEF singleVars, exchange, ghosts
  <2>4. Accepted'
    BY <1>1, Zenon DEF SingleInv, Accepted, singleVars, flags, ghosts
  <2>5. Ending'
    BY <1>1, Zenon DEF SingleInv, Ending, EndIsMarked, singleVars, flags, ghosts
  <2> QED
    BY <2>1, <2>2, <2>3, <2>4, <2>5, Zenon DEF SingleInv
<1>2. CASE Handlers
  BY Zenon, <1>2, OnSetUpStep, OnHostNameRefusedStep, OnSetUpErrorStep, SendAtOnceStep, OnWriteStep,
     OnReadStep, OnReadErrorStep, OnCloseStep DEF Handlers
<1>3. CASE SingleNext /\ ~Handlers
  BY Zenon, <1>3, CompleteStep, TimerStep, TimerHandlerStep, SingleRequestStep,
     GracefulCloseStep, OnShutdownStep, AnswerStep DEF SingleNext
<1> QED
  BY <1>1, <1>2, <1>3, Zenon

\* Whatever the timer, the shutdown and repeated calls of AsyncRequest do, a session
\* of the five classes serves one request, its callback hears the answers to that
\* request only, and a session that has ended is marked expired: for every number of
\* calls and of messages.
THEOREM OneRequestEach ==
  ASSUME SessionAssumption PROVE SingleSpec => []SingleIsSound
<1>1. SingleInit => SingleInv
  BY SingleStarts, Zenon
<1>2. SingleInv /\ [SingleNext]_singleVars => SingleInv'
  BY SingleStep, Zenon
<1>3. SingleInv => SingleIsSound
  <2> SUFFICES ASSUME SingleInv PROVE SingleIsSound
    OBVIOUS
  <2>1. heard = << >> => Len(heard) = 0
    OBVIOUS
  <2>2. ~class.stream => Len(heard) <= 1
    <3>1. ~class.stream /\ heard # << >> => Len(heard) = 1
      BY Zenon DEF SingleInv, Ending
    <3>2. 0 <= 1 /\ 1 <= 1
      OBVIOUS
    <3> QED
      BY <2>1, <3>1, <3>2, Zenon
  <2>3. ServesOneRequest
    BY <2>2, Zenon DEF SingleInv, Traced, OfAccepted, Accepted, Ending, ServesOneRequest
  <2> QED
    BY <2>3, Zenon DEF SingleInv, Ending, SingleIsSound
<1> QED
  BY <1>1, <1>2, <1>3, PTL DEF SingleSpec

=============================================================================
