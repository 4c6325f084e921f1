----------------------------- MODULE HttpsPool -----------------------------
(***************************************************************************)
(* The HTTPS request path: V2::HttpsSession3 sessions kept ready by a      *)
(* V2::ConnectionPool, and binance::BookSnapshot2, which sends one request *)
(* per trading pair through them.                                          *)
(*                                                                         *)
(* Three threads interleave: the io_context thread (every handler of every *)
(* session and pool callback), the strand of the component that acquires   *)
(* sessions, and the thread that calls CloseAllSessions.                   *)
(*                                                                         *)
(* A session that closes is freed and its successor is created in the same *)
(* callback, so the pool's free list hands out the same block: Sessions    *)
(* are addresses, and one address hosts one session after another.  What   *)
(* still refers to a freed session refers to its successor.                *)
(***************************************************************************)
EXTENDS Integers, Sequences, FiniteSets

CONSTANTS
  Sessions,      \* addresses: pool_size_ of them
  Requests,      \* one snapshot request per trading pair
  None,          \* no request, no session, no callback
  MaxFaults      \* bound: timers that expire, operations that fail, CloseAllSessions

ASSUME NoneAssumption == None \notin Requests \cup Sessions
ASSUME FaultsAssumption == MaxFaults \in Nat
ASSUME MarksAssumption == {"rejection", "nothing"} \cap Requests = {}

VARIABLES
  session,     \* address -> the session living there
  strand,      \* address -> handlers posted to the session's strand
  queued,      \* io_context: <<address, point>> for a coroutine resumed with an
               \* error, <<address, "timer">> for the timer of a freed session
  available,   \* awaiable_connections_: entries per address
  caller,      \* the component's strand: where it is, for which request
  pending,     \* request events the component has not handled
  closer,      \* the thread in CloseAllSessions
  crashed,     \* an exception left io_context::run: the process terminated
  faults,
  invoked,     \* ghost: <<callback, body>> of every response callback run
  shared,      \* ghost: requests that met another one on the same session
  overdue,     \* ghost: requests whose session its own timer closed, the handler
               \* being queued when the handshake completed
  uprooted     \* ghost: addresses where a step of a session that was closed before
               \* took place

vars == <<session, strand, queued, available, caller, pending, closer,
          crashed, faults, invoked, shared, overdue, uprooted>>

-----------------------------------------------------------------------------

Statuses == {"Resolving", "Connecting", "Handshaking", "Ready", "kInProcess",
             "Cancelling", "Expired", "Closing"}

\* Where Run is suspended; "done" once it returned.
RunPoints == {"resolve", "connect", "handshake", "done"}

\* Construction up to the first suspension of Run.  timer is "queued" when the
\* timer's handler is queued, "late" when it still is after the handshake.
\* exchanges are the requests some RequestLoop awaits the response of; users is a
\* ghost, the requests the pool handed this session to.
Fresh ==
  [status |-> "Resolving", run |-> "resolve", timer |-> "armed", open |-> FALSE,
   queue |-> << >>, processing |-> FALSE, exchanges |-> {},
   onResponse |-> None, need |-> TRUE, users |-> {}]

Idle == [at |-> "idle", request |-> None, session |-> None]

Init ==
  /\ session = [s \in Sessions |-> Fresh]
  /\ strand = [s \in Sessions |-> << >>]
  /\ queued = {}
  /\ available = [s \in Sessions |-> 0]
  /\ caller = Idle
  /\ pending = Requests
  /\ closer = [at |-> "idle", session |-> None]
  /\ crashed = FALSE
  /\ faults = 0
  /\ invoked = {} /\ shared = {} /\ overdue = {} /\ uprooted = {}

-----------------------------------------------------------------------------
\* Closing a session.

\* The suspended coroutines of a session that an error resumes.
Suspended(old, s, points) ==
  {<<s, p>> : p \in {old.run} \cap points} \cup {<<s, r>> : r \in old.exchanges}

\* What is still to run of a session that is freed.
Orphans(old, s) ==
  Suspended(old, s, {"resolve", "connect", "handshake"})
    \cup IF old.timer \in {"queued", "late"} THEN {<<s, "timer">>} ELSE {}

\* Mutant of Replace: the session is freed and no new one is created.
ReplaceByNone(old, s, rest) ==
  /\ session' = [session EXCEPT ![s] = [Fresh EXCEPT !.run = "done", !.timer = "off"]]
  /\ queued' = rest \cup Orphans(old, s)

\* The pool's callback: Deallocate, then TryCreateNewSession in the same block.
Replace(old, s, rest) ==
  /\ session' = [session EXCEPT ![s] = Fresh]
  /\ queued' = rest \cup Orphans(old, s)

\* CloseSessionFast, then TransitionTo(new) with new Expired or Closing.  The
\* pool hears of it at most once; otherwise only the socket is closed, which
\* leaves the resolver alone.  rest is what stays queued.
Close(old, s, new, rest) ==
  IF old.status # new /\ old.need
    THEN Replace(old, s, rest)
    ELSE /\ session' = [session EXCEPT
              ![s] = [old EXCEPT !.status = new, !.open = FALSE, !.exchanges = {},
                                 !.run = IF old.run = "resolve" THEN "resolve" ELSE "done",
                                 !.need = FALSE]]
         /\ queued' = rest \cup Suspended(old, s, {"connect", "handshake"})

-----------------------------------------------------------------------------
\* Run and start_timer: the io_context thread establishes the session.

OnResolved(s) ==
  /\ session[s].run = "resolve"
  /\ session' = [session EXCEPT ![s] = [session[s] EXCEPT !.run = "connect", !.status = "Connecting"]]
  /\ UNCHANGED <<strand, queued, available, caller, pending, closer, crashed,
                 faults, invoked, shared, overdue, uprooted>>

OnConnected(s) ==
  /\ session[s].run = "connect"
  /\ session' = [session EXCEPT ![s] =
       [session[s] EXCEPT !.run = "handshake", !.status = "Handshaking"]]
  /\ UNCHANGED <<strand, queued, available, caller, pending, closer, crashed,
                 faults, invoked, shared, overdue, uprooted>>

\* Mutant of OnHandshake: the timer goes on running.
OnHandshakeTimerRuns(s) ==
  /\ session[s].run = "handshake"
  /\ session' = [session EXCEPT ![s] = [session[s] EXCEPT !.run = "done", !.open = TRUE]]
  /\ strand' = [strand EXCEPT ![s] = Append(@, <<"loop", None>>)]
  /\ UNCHANGED <<queued, available, caller, pending, closer, crashed, faults,
                 invoked, shared, overdue, uprooted>>

\* cancel_timer does not call back a handler that is already queued.
OnHandshake(s) ==
  /\ session[s].run = "handshake"
  /\ session' = [session EXCEPT ![s] =
       [session[s] EXCEPT !.run = "done", !.open = TRUE,
                          !.timer = IF session[s].timer = "queued" THEN "late" ELSE "off"]]
  /\ strand' = [strand EXCEPT ![s] = Append(@, <<"loop", None>>)]
  /\ UNCHANGED <<queued, available, caller, pending, closer, crashed, faults,
                 invoked, shared, overdue, uprooted>>

OnHandshakeError(s) ==
  /\ session[s].run = "handshake" /\ faults < MaxFaults
  /\ faults' = faults + 1
  /\ Close([session[s] EXCEPT !.run = "done"], s, "Expired", queued)
  /\ UNCHANGED <<strand, available, caller, pending, closer, crashed, invoked,
                 shared, overdue, uprooted>>

\* std::terminate: nothing of the process is left.
Terminate ==
  /\ crashed' = TRUE
  /\ session' = [s \in Sessions |-> Fresh]
  /\ strand' = [s \in Sessions |-> << >>]
  /\ available' = [s \in Sessions |-> 0]
  /\ queued' = {} /\ pending' = {}
  /\ caller' = Idle
  /\ closer' = [at |-> "done", session |-> None]
  /\ UNCHANGED <<invoked, shared, overdue, uprooted>>

\* async_resolve and async_connect throw; the completion handler of co_spawn
\* throws again, out of io_context::run.
OnNetworkError(s) ==
  /\ session[s].run \in {"resolve", "connect"} /\ faults < MaxFaults
  /\ faults' = faults + 1
  /\ Terminate

\* The timer expires: its handler is queued with success.
Expire(s) ==
  /\ session[s].timer = "armed" /\ faults < MaxFaults
  /\ faults' = faults + 1
  /\ session' = [session EXCEPT ![s] = [session[s] EXCEPT !.timer = "queued"]]
  /\ UNCHANGED <<strand, queued, available, caller, pending, closer, crashed, invoked,
                 shared, overdue, uprooted>>

\* A RequestLoop is posted to the strand q.
HasLoop(q) == \E i \in DOMAIN q : q[i][1] = "loop"

\* The timer's handler closes its session, however far Run has come by then.  A
\* RequestLoop posted before outlives the session it was posted for.
OnTimer(s) ==
  /\ session[s].timer \in {"queued", "late"}
  /\ Close([session[s] EXCEPT !.timer = "off"], s, "Expired", queued)
  /\ overdue' = overdue \cup IF session[s].timer = "late" THEN session[s].users ELSE {}
  /\ uprooted' = uprooted \cup IF HasLoop(strand[s]) THEN {s} ELSE {}
  /\ UNCHANGED <<strand, available, caller, pending, closer, crashed, faults,
                 invoked, shared>>

\* The timer's handler of a freed session, and Run resumed in the handshake by an
\* error: both close the session that lives at the address by then.
OnExpired(s, p) ==
  /\ <<s, p>> \in queued /\ p \in {"timer", "handshake"}
  /\ Close(session[s], s, "Expired", queued \ {<<s, p>>})
  /\ uprooted' = uprooted \cup {s}
  /\ UNCHANGED <<strand, available, caller, pending, closer, crashed, faults,
                 invoked, shared, overdue>>

\* Run resumed by an error in async_resolve or async_connect.
OnAborted(s, p) ==
  /\ <<s, p>> \in queued /\ p \in {"resolve", "connect"}
  /\ Terminate
  /\ UNCHANGED faults

-----------------------------------------------------------------------------
\* AsyncRequest and RequestLoop: handlers of the session's strand.

\* Ghost: the address, when its session is not the one r acquired.
Stray(s, r) == IF r \in session[s].users THEN {} ELSE {s}

\* Mutant of OnRequest: the request is queued and nobody starts processing it.
OnRequestNoStart(s) ==
  /\ strand[s] # << >> /\ Head(strand[s])[1] = "request"
  /\ session' = [session EXCEPT ![s].queue = Append(@, Head(strand[s])[2])]
  /\ strand' = [strand EXCEPT ![s] = Tail(@)]
  /\ UNCHANGED <<queued, available, caller, pending, closer, crashed, faults,
                 invoked, shared, overdue, uprooted>>

\* Mutant of OnRequest: a RequestLoop is started for every request.
OnRequestAlwaysLoop(s) ==
  /\ strand[s] # << >> /\ Head(strand[s])[1] = "request"
  /\ session' = [session EXCEPT ![s] =
       [session[s] EXCEPT !.queue = Append(session[s].queue, Head(strand[s])[2]),
                          !.processing = TRUE]]
  /\ strand' = [strand EXCEPT ![s] = Append(Tail(@), <<"loop", None>>)]
  /\ uprooted' = uprooted \cup Stray(s, Head(strand[s])[2])
  /\ UNCHANGED <<queued, available, caller, pending, closer, crashed, faults,
                 invoked, shared, overdue>>

OnRequest(s) ==
  /\ strand[s] # << >> /\ Head(strand[s])[1] = "request"
  /\ session' = [session EXCEPT ![s] =
       [session[s] EXCEPT !.queue = Append(session[s].queue, Head(strand[s])[2]),
                          !.processing = TRUE]]
  /\ strand' = [strand EXCEPT ![s] =
       IF session[s].processing THEN Tail(@) ELSE Append(Tail(@), <<"loop", None>>)]
  /\ uprooted' = uprooted \cup Stray(s, Head(strand[s])[2])
  /\ UNCHANGED <<queued, available, caller, pending, closer, crashed, faults,
                 invoked, shared, overdue>>

\* What RequestLoop makes of its session: Ready, or one request taken and sent.
Taken(old) ==
  IF old.queue = << >>
    THEN [old EXCEPT !.status = "Ready"]
    ELSE [old EXCEPT !.status = "kInProcess", !.queue = Tail(old.queue),
                     !.exchanges = IF old.open THEN old.exchanges \cup {Head(old.queue)}
                                    ELSE old.exchanges]

\* RequestLoop up to its suspension: Ready is reported to the pool, which
\* queues the session once more; one request is taken from the queue.  Writing
\* to a socket that is not connected fails.
StartLoop(s) ==
  /\ strand[s] # << >> /\ Head(strand[s])[1] = "loop"
  /\ strand' = [strand EXCEPT ![s] = Tail(@)]
  /\ available' = [available EXCEPT ![s] = IF session[s].status = "Ready" THEN @ ELSE @ + 1]
  /\ session' = [session EXCEPT ![s] = Taken(session[s])]
  /\ queued' = queued \cup
       IF session[s].open \/ session[s].queue = << >> THEN {}
         ELSE {<<s, Head(session[s].queue)>>}
  /\ UNCHANGED <<caller, pending, closer, crashed, faults, invoked, shared, overdue,
                 uprooted>>

\* RequestLoop after the response: the callback registered last is run.  The
\* parser behind it throws on an empty body, which ends the detached coroutine
\* before the session is closed.
FinishLoop(s, r, body, rest) ==
  LET callback == session[s].onResponse
      old == [session[s] EXCEPT !.exchanges = session[s].exchanges \ {r}, !.processing = FALSE]
  IN /\ invoked' = IF callback = None THEN invoked
                     ELSE invoked \cup {<<callback, body>>}
     /\ IF callback # None /\ body = "nothing"
          THEN /\ session' = [session EXCEPT ![s] =
                    [session[s] EXCEPT !.exchanges = session[s].exchanges \ {r}]]
               /\ queued' = rest
          ELSE Close(old, s, "Closing", rest)

\* The exchange brings the snapshot the request asked for, or a rejection.
OnResponse(s, r) ==
  /\ r \in session[s].exchanges
  /\ \E body \in {r, "rejection"} : FinishLoop(s, r, body, queued)
  /\ UNCHANGED <<strand, available, caller, pending, closer, crashed, faults,
                 shared, overdue, uprooted>>

\* The write or the read throws: RequestLoop catches and goes on without body.
OnExchangeError(s, r) ==
  /\ r \in session[s].exchanges /\ faults < MaxFaults
  /\ faults' = faults + 1
  /\ FinishLoop(s, r, "nothing", queued)
  /\ UNCHANGED <<strand, available, caller, pending, closer, crashed, shared, overdue,
                 uprooted>>

\* The same for an exchange whose session was freed, or closed, under it.
OnExchangeAborted(s, r) ==
  /\ <<s, r>> \in queued /\ r \in Requests
  /\ FinishLoop(s, r, "nothing", queued \ {<<s, r>>})
  /\ uprooted' = uprooted \cup {s}
  /\ UNCHANGED <<strand, available, caller, pending, closer, crashed, faults,
                 shared, overdue>>

-----------------------------------------------------------------------------
\* BookSnapshot2::CoExec on the component's strand.

\* A request event is handled, or dropped: there is no callback for the pair or
\* no endpoint for the market.
Accept(r) ==
  /\ caller = Idle /\ r \in pending
  /\ pending' = pending \ {r}
  /\ caller' \in {Idle, [Idle EXCEPT !.at = "acquire", !.request = r]}
  /\ UNCHANGED <<session, strand, queued, available, closer, crashed, faults,
                 invoked, shared, overdue, uprooted>>

\* Mutant of CanAcquire: the status is not looked at.
CanAcquireAny(s) == available[s] > 0

\* AcquireConnection takes an entry and puts it back at once; it spins until
\* the entry it took is of a Ready session.
CanAcquire(s) == available[s] > 0 /\ session[s].status = "Ready"

Acquire(s) ==
  /\ caller.at = "acquire" /\ CanAcquire(s)
  /\ caller' = [caller EXCEPT !.at = "register", !.session = s]
  /\ session' = [session EXCEPT ![s] =
       [session[s] EXCEPT !.users = session[s].users \cup {caller.request}]]
  /\ shared' = shared \cup
       IF session[s].users = {} THEN {} ELSE session[s].users \cup {caller.request}
  /\ UNCHANGED <<strand, queued, available, pending, closer, crashed, faults,
                 invoked, overdue, uprooted>>

RegisterOnResponse ==
  /\ caller.at = "register"
  /\ session' = [session EXCEPT ![caller.session] =
       [session[caller.session] EXCEPT !.onResponse = caller.request]]
  /\ caller' = [caller EXCEPT !.at = "request"]
  /\ uprooted' = uprooted \cup Stray(caller.session, caller.request)
  /\ UNCHANGED <<strand, queued, available, pending, closer, crashed, faults,
                 invoked, shared, overdue>>

AsyncRequest ==
  /\ caller.at = "request"
  /\ strand' = [strand EXCEPT ![caller.session] = Append(@, <<"request", caller.request>>)]
  /\ caller' = Idle
  /\ UNCHANGED <<session, queued, available, pending, closer, crashed, faults,
                 invoked, shared, overdue, uprooted>>

-----------------------------------------------------------------------------
\* CloseAllSessions, on a thread of its own.

CloseAllStarts ==
  /\ closer.at = "idle" /\ faults < MaxFaults
  /\ faults' = faults + 1
  /\ closer' = [at |-> "next", session |-> None]
  /\ UNCHANGED <<session, strand, queued, available, caller, pending, crashed,
                 invoked, shared, overdue, uprooted>>

\* An entry is taken for good; HandleCancellation changes the status first.
CancelNext(s) ==
  /\ closer.at = "next" /\ available[s] > 0
  /\ available' = [available EXCEPT ![s] = @ - 1]
  /\ session' = [session EXCEPT ![s] = [session[s] EXCEPT !.status = "Cancelling"]]
  /\ closer' = [at |-> "silence", session |-> s]
  /\ UNCHANGED <<strand, queued, caller, pending, crashed, faults, invoked,
                 shared, overdue, uprooted>>

\* ... and need_execute_on_closed_system after it.
Silence ==
  /\ closer.at = "silence"
  /\ session' = [session EXCEPT ![closer.session] =
       [session[closer.session] EXCEPT !.need = FALSE]]
  /\ closer' = [at |-> "next", session |-> None]
  /\ UNCHANGED <<strand, queued, available, caller, pending, crashed, faults,
                 invoked, shared, overdue, uprooted>>

CloseAllReturns ==
  /\ closer.at = "next" /\ \A s \in Sessions : available[s] = 0
  /\ closer' = [at |-> "done", session |-> None]
  /\ UNCHANGED <<session, strand, queued, available, caller, pending, crashed,
                 faults, invoked, shared, overdue, uprooted>>

-----------------------------------------------------------------------------

Progress ==
  \E s \in Sessions :
    \/ OnResolved(s) \/ OnConnected(s) \/ OnHandshake(s)
    \/ OnRequest(s) \/ StartLoop(s)
    \/ \E r \in Requests : OnResponse(s, r)

Aborts ==
  \E s \in Sessions :
    \/ OnTimer(s)
    \/ \E p \in {"timer", "handshake"} : OnExpired(s, p)
    \/ \E p \in {"resolve", "connect"} : OnAborted(s, p)
    \/ \E r \in Requests : OnExchangeAborted(s, r)

Faults ==
  \E s \in Sessions :
    \/ Expire(s) \/ OnHandshakeError(s) \/ OnNetworkError(s)
    \/ \E r \in Requests : OnExchangeError(s, r)

Component ==
  \/ \E r \in Requests : Accept(r)
  \/ \E s \in Sessions : Acquire(s)
  \/ RegisterOnResponse
  \/ AsyncRequest

CloseAllSessions ==
  CloseAllStarts \/ (\E s \in Sessions : CancelNext(s)) \/ Silence \/ CloseAllReturns

\* Bound: once a step meant for a freed session took place, only the errors it
\* causes are followed.
Intact == ~crashed /\ uprooted = {}

Next ==
  \/ Intact /\ (Progress \/ Faults \/ Component \/ CloseAllSessions)
  \/ ~crashed /\ Aborts

Spec == Init /\ [][Next]_vars

\* The io_context thread runs its handlers in the order they are queued and the
\* network answers; the component's strand is not starved.  Nothing makes
\* faults or CloseAllSessions happen.
Fairness ==
  /\ \A s \in Sessions :
       /\ WF_vars(Intact /\ (OnResolved(s) \/ OnConnected(s) \/ OnHandshake(s)))
       /\ WF_vars(Intact /\ (OnRequest(s) \/ StartLoop(s)))
       /\ \A r \in Requests : WF_vars(Intact /\ OnResponse(s, r))
  /\ WF_vars(~crashed /\ Aborts)
  /\ WF_vars(Intact /\ Component)

FairSpec == Spec /\ Fairness

-----------------------------------------------------------------------------

\* Every variable stays in its domain; in particular CloseAllSessions takes no
\* entry from an empty queue of connections.
TypeOK ==
  /\ \A s \in Sessions :
       /\ session[s].status \in Statuses /\ session[s].run \in RunPoints
       /\ session[s].queue \in Seq(Requests) /\ session[s].exchanges \subseteq Requests
       /\ session[s].onResponse \in Requests \cup {None}
       /\ available[s] >= 0
       /\ \A i \in 1 .. Len(strand[s]) : strand[s][i] \in
            {<<"loop", None>>} \cup ({"request"} \X Requests)
  /\ queued \subseteq Sessions \X ((RunPoints \ {"done"}) \cup {"timer"} \cup Requests)
  /\ invoked \subseteq Requests \X (Requests \cup {"rejection", "nothing"})

\* RequestLoop never writes to a stream another RequestLoop is still using, though
\* the pool hands one session to several requests.
OneExchangeAtATime ==
  \A s \in Sessions : \A r1, r2 \in session[s].exchanges : r1 = r2

\* Between AcquireConnection and AsyncRequest the session stays the Ready one
\* the pool returned, unless the pool returned it to another request as well, its
\* timer had expired before the handshake completed and the handler ran after it,
\* a step of a session closed before took place there, or CloseAllSessions runs.
HeldSessionIsReady ==
  caller.at \in {"register", "request"} =>
    \/ session[caller.session].status = "Ready"
    \/ caller.request \in shared \cup overdue
    \/ caller.session \in uprooted \/ closer.at # "idle"

\* Whatever ends a session, the callback of the pool replaces it by one that is
\* being established, gets Ready or is in exchange, so that the pool does not run
\* dry.  A session is lost only when the callback of its request threw on an
\* empty body, to a step of a session closed before, and to CloseAllSessions.
PoolKeepsItsSize ==
  closer.at = "idle" => \A s \in Sessions \ uprooted :
    \/ session[s].run # "done"
    \/ HasLoop(strand[s])
    \/ session[s].status = "Ready" /\ available[s] > 0
    \/ session[s].status = "kInProcess" /\ session[s].exchanges # {}
    \/ \E r \in session[s].users : <<r, "nothing">> \in invoked

\* A session of the pool has one exchange at a time on its stream, a caller that
\* holds one holds it ready, and a session that ends is replaced by one other.
PoolIsSound == TypeOK /\ OneExchangeAtATime /\ HeldSessionIsReady /\ PoolKeepsItsSize

\* Every request handed to AsyncRequest gets its callback run once the network
\* answers, whatever the other sessions do.  The exceptions are the ones the
\* code has: a session shared with another request (its RequestLoop serves one
\* request), a step meant for a predecessor of the session, and the end of the
\* process.
Answered ==
  \A r \in Requests :
    (caller.at = "request" /\ caller.request = r)
      ~> \/ \E m \in invoked : m[1] = r
         \/ r \in shared \/ uprooted # {}
         \/ crashed

\* AcquireConnection returns, and the strand goes on to the next request: a fault
\* takes at most one session out of the pool.  The exceptions: as many faults as
\* the pool has sessions, a step meant for a freed session, CloseAllSessions.
AcquireReturns ==
  caller.at = "acquire"
    ~> \/ caller.at # "acquire"
       \/ faults >= Cardinality(Sessions)
       \/ crashed \/ uprooted # {} \/ closer.at # "idle"

\* The callback map of BookSnapshot2 is there "to store parsing callbacks for
\* each trading pair" (Binance.h): a response to one pair's request is never
\* parsed by the callback of another.
OwnCallback == \A m \in invoked : m[2] \in Requests => m[2] = m[1]

=============================================================================
