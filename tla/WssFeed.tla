------------------------------ MODULE WssFeed ------------------------------
(***************************************************************************)
(* The websocket request path: WssSession3 sessions kept by a              *)
(* V2::ConnectionPool, and BookEventGetter3, which writes subscription     *)
(* requests to the one session it calls active.                            *)
(*                                                                         *)
(* The io_context thread runs every handler and coroutine of the sessions; *)
(* the getter's strand and AsyncStop run on other threads and share        *)
(* active_session_ with it.  As in HttpsPool, Sessions are addresses: a    *)
(* session that expires is freed and its successor is created in the same  *)
(* block.                                                                  *)
(***************************************************************************)
EXTENDS Integers, Sequences, FiniteSets

CONSTANTS
  Sessions,      \* addresses: pool_size_ of them
  None,          \* no session
  MaxRequests,   \* bound: subscription requests sent to the getter
  MaxFaults      \* bound: errors, early timeouts, AsyncStop

VARIABLES
  session,     \* address -> the session living there
  inbox,       \* address -> AsyncWrite's handlers posted to the strand
  aborts,      \* io_context: addresses of ReadLoops resumed by an abort
  available,   \* awaiable_connections_: entries per address
  active,      \* active_session_
  getter,      \* the getter's strand: where it is, which request it handles
  userClose,   \* the program registered a close callback of its own
  aborted,     \* an assertion of Beast ended the process
  faults,
  written,     \* ghost: requests the exchange received
  crowded,     \* ghost: addresses where a request was queued before the
               \* session's own WriteLoop ran
  uprooted     \* ghost: addresses whose session was freed while coroutines or
               \* handlers of it were left, or closed by an aborted ReadLoop

net    == <<session, inbox, aborts, available>>
app    == <<active, getter, userClose, aborted>>
ghosts == <<written, crowded, uprooted>>
vars   == <<net, app, faults, ghosts>>

Requests == 1 .. MaxRequests

-----------------------------------------------------------------------------

\* Construction up to the first suspension of Run.  timer: not started, armed,
\* its handler queued, or cancelled.  loops are the WriteLoop coroutines,
\* "posted", in the one second "wait" or in async_write; own is the one Run
\* spawns.  heard: the exchange sends data on this connection; torn, a ghost: a
\* write failed.
Fresh ==
  [status |-> "Resolving", run |-> "resolve", timer |-> "unset", open |-> FALSE,
   queue |-> << >>, isWriting |-> FALSE, loops |-> << >>, reading |-> "off",
   needRead |-> TRUE, onResponse |-> FALSE, onClose |-> "none", heard |-> FALSE,
   torn |-> FALSE]

Init ==
  /\ session = [s \in Sessions |-> Fresh]
  /\ inbox = [s \in Sessions |-> << >>]
  /\ aborts = {}
  /\ available = [s \in Sessions |-> 0]
  /\ active = None
  /\ getter = [at |-> "idle", request |-> 0]
  /\ userClose \in BOOLEAN
  /\ aborted = FALSE
  /\ faults = 0
  /\ written = {} /\ crowded = {} /\ uprooted = {}

Fault == faults < MaxFaults /\ faults' = faults + 1

-----------------------------------------------------------------------------
\* Closing.

\* What the close of the socket makes of a session.  The WriteLoops in async_write
\* and a Run in progress end with an error; nothing tells the pool.
Closed(old) ==
  [old EXCEPT !.open = FALSE, !.heard = FALSE,
              !.run = IF @ = "connect" THEN "failed" ELSE @,
              !.reading = IF @ = "read" THEN "off" ELSE @,
              !.loops = SelectSeq(@, LAMBDA l : l.at # "write")]

\* CloseSessionFast of the session at s, found in state old.  A ReadLoop that
\* awaits data is resumed by the abort; the close callbacks run.
CloseSessionFast(s, old, rest) ==
  /\ session' = [session EXCEPT ![s] = Closed(old)]
  /\ aborts' = rest \cup IF old.reading = "read" THEN {s} ELSE {}
  /\ active' = IF old.onClose = "default" THEN None ELSE active

\* TransitionTo(Expired): the pool frees the session and creates the next one in
\* the block.  Its WriteLoops keep their frames, and their this.
Replaced(old) ==
  [Fresh EXCEPT !.loops = SelectSeq(old.loops, LAMBDA l : l.at # "write")]

-----------------------------------------------------------------------------
\* Run and start_timer.

OnResolved(s) ==
  /\ session[s].run = "resolve"
  /\ session' = [session EXCEPT ![s].run = "connect", ![s].timer = "armed"]
  /\ UNCHANGED <<inbox, aborts, available, app, faults, ghosts>>

\* timer_.cancel() does not stop a handler that is already queued.
Cancelled(timer) == IF timer = "armed" THEN "cancelled" ELSE timer

\* The connection and both handshakes are made: the timer is cancelled, the pool
\* hears Ready, and the two loops are spawned.
OnEstablished(s) ==
  /\ session[s].run = "connect"
  /\ session' = [session EXCEPT
       ![s].run = "done", ![s].timer = Cancelled(@), ![s].open = TRUE,
       ![s].status = "Ready", ![s].reading = "posted",
       ![s].loops = Append(@, [at |-> "posted", own |-> TRUE, message |-> 0])]
  /\ available' = [available EXCEPT ![s] = @ + 1]
  /\ UNCHANGED <<inbox, aborts, app, faults, ghosts>>

\* Run logs the error and returns: the status stays, and so does the timer.
OnRunError(s) ==
  /\ session[s].run \in {"resolve", "connect"} /\ Fault
  /\ session' = [session EXCEPT ![s].run = "failed"]
  /\ UNCHANGED <<inbox, aborts, available, app, ghosts>>

\* The timer expires after a failed Run, or before Run is done.
Expire(s) ==
  /\ session[s].timer = "armed"
  /\ \/ session[s].run = "failed" /\ UNCHANGED faults
     \/ session[s].run = "connect" /\ Fault
  /\ session' = [session EXCEPT ![s].timer = "queued"]
  /\ UNCHANGED <<inbox, aborts, available, app, ghosts>>

\* Mutant of OnExpired: the session is closed and nothing takes its place.
OnExpiredCloses(s) ==
  /\ session[s].timer = "queued"
  /\ session' = [session EXCEPT ![s] = [Closed(@) EXCEPT !.timer = "cancelled"]]
  /\ UNCHANGED <<inbox, aborts, available, app, faults, ghosts>>

\* The handler frees the session, also one that became Ready after the handler
\* was queued, and then closes the socket: the successor's, which is not open
\* yet.
OnExpired(s) ==
  /\ session[s].timer = "queued"
  /\ session' = [session EXCEPT ![s] = Replaced(@)]
  /\ aborts' = aborts \cup IF session[s].reading = "read" THEN {s} ELSE {}
  /\ uprooted' = IF session[s].reading = "off" /\ session[s].loops = << >> /\ inbox[s] = << >>
                   THEN uprooted ELSE uprooted \cup {s}
  /\ UNCHANGED <<inbox, available, app, faults, written, crowded>>

-----------------------------------------------------------------------------
\* AsyncWrite and WriteLoop.

\* Mutant of OnWrite: a WriteLoop is started for every message.
OnWriteAlwaysStarts(s) ==
  /\ inbox[s] # << >>
  /\ inbox' = [inbox EXCEPT ![s] = Tail(@)]
  /\ session' = [session EXCEPT
       ![s].queue = Append(@, Head(inbox[s])), ![s].isWriting = TRUE,
       ![s].loops = Append(@, [at |-> "posted", own |-> FALSE, message |-> 0])]
  /\ UNCHANGED <<aborts, available, app, faults, written, uprooted, crowded>>

\* The handler AsyncWrite dispatches to strand_.
OnWrite(s) ==
  /\ inbox[s] # << >>
  /\ inbox' = [inbox EXCEPT ![s] = Tail(@)]
  /\ session' = [session EXCEPT
       ![s].queue = Append(@, Head(inbox[s])),
       ![s].isWriting = TRUE,
       ![s].loops = IF session[s].isWriting THEN @
         ELSE Append(@, [at |-> "posted", own |-> FALSE, message |-> 0])]
  /\ crowded' = crowded \cup
       IF \E i \in DOMAIN session[s].loops : session[s].loops[i].own THEN {s} ELSE {}
  /\ UNCHANGED <<aborts, available, app, faults, written, uprooted>>

WithoutLoop(old, i) ==
  SubSeq(old.loops, 1, i - 1) \o SubSeq(old.loops, i + 1, Len(old.loops))

\* Mutant of Loop: an empty queue ends the loop and leaves is_writing_ set.
LoopKeepsFlag(old, i) ==
  IF ~old.needRead \/ old.queue = << >>
    THEN [old EXCEPT !.loops = WithoutLoop(old, i)]
    ELSE [old EXCEPT !.queue = Tail(@),
                     !.loops[i] = [at |-> "wait", own |-> old.loops[i].own,
                                   message |-> Head(old.queue)]]

\* One turn of the while of loop i, up to the wait.  The loop that finds no
\* message clears is_writing_, whoever set it.
Loop(old, i) ==
  IF ~old.needRead
    THEN [old EXCEPT !.loops = WithoutLoop(old, i)]
  ELSE IF old.queue = << >>
    THEN [old EXCEPT !.loops = WithoutLoop(old, i), !.isWriting = FALSE]
    ELSE [old EXCEPT !.queue = Tail(@),
                     !.loops[i] = [at |-> "wait", own |-> old.loops[i].own,
                                   message |-> Head(old.queue)]]

StartLoop(s, i) ==
  /\ session[s].loops[i].at = "posted"
  /\ session' = [session EXCEPT ![s] = Loop(@, i)]
  /\ UNCHANGED <<inbox, aborts, available, app, faults, ghosts>>

Writing(s) == \E i \in DOMAIN session[s].loops : session[s].loops[i].at = "write"

\* The second is over.  Writing to a closed socket throws: the loop breaks with
\* is_writing_ set.  Beast allows one async_write at a time: without its
\* assertions a second one waits for the first.
StartSend(s, i) ==
  /\ session[s].loops[i].at = "wait"
  /\ \A j \in 1 .. i - 1 : session[s].loops[j].at # "wait"
  /\ session' = [session EXCEPT ![s] =
       IF @.open THEN [@ EXCEPT !.loops[i].at = "write"]
                 ELSE [@ EXCEPT !.loops = WithoutLoop(session[s], i)]]
  /\ UNCHANGED <<inbox, aborts, available, app, faults, ghosts>>

\* With its assertions a second async_write ends the process.
AssertOneWrite(s, i) ==
  /\ session[s].loops[i].at = "wait" /\ session[s].open /\ Writing(s)
  /\ aborted' = TRUE
  /\ UNCHANGED <<net, active, getter, userClose, faults, ghosts>>

\* async_write completes; the exchange answers on this connection.
Sent(s, i) ==
  /\ session[s].loops[i].at = "write"
  /\ \A j \in 1 .. i - 1 : session[s].loops[j].at # "write"
  /\ session' = [session EXCEPT ![s] = [Loop(@, i) EXCEPT !.heard = TRUE]]
  /\ written' = written \cup {session[s].loops[i].message}
  /\ UNCHANGED <<inbox, aborts, available, app, faults, crowded, uprooted>>

OnWriteError(s, i) ==
  /\ session[s].loops[i].at = "write" /\ Fault
  /\ session' = [session EXCEPT ![s].loops = WithoutLoop(session[s], i),
                                ![s].torn = TRUE]
  /\ UNCHANGED <<inbox, aborts, available, app, ghosts>>

-----------------------------------------------------------------------------
\* ReadLoop.

\* The while of ReadLoop: it awaits data, or closes the session and ends.
ReadOn(s) ==
  IF session[s].needRead
    THEN /\ session' = [session EXCEPT ![s].reading =
                          IF session[s].open THEN "read" ELSE "off"]
         /\ IF session[s].open THEN UNCHANGED <<aborts, active>>
              ELSE aborts' = aborts \cup {s} /\ UNCHANGED active
    ELSE CloseSessionFast(s, [session[s] EXCEPT !.reading = "off"], aborts)

StartRead(s) ==
  /\ session[s].reading = "posted"
  /\ ReadOn(s)
  /\ UNCHANGED <<inbox, available, getter, userClose, aborted, faults, ghosts>>

\* Data arrives: the callbacks registered run, and the loop goes on.
OnData(s) ==
  /\ session[s].reading = "read" /\ session[s].heard
  /\ ReadOn(s)
  /\ UNCHANGED <<inbox, available, getter, userClose, aborted, faults, ghosts>>

\* A callback throws (a parser that got an unexpected message): the exception
\* ends the detached coroutine, and nobody reads this connection any more.
OnThrow(s) ==
  /\ session[s].reading = "read" /\ session[s].heard /\ session[s].onResponse
  /\ Fault
  /\ session' = [session EXCEPT ![s].reading = "off"]
  /\ UNCHANGED <<inbox, aborts, available, app, ghosts>>

OnReadError(s) ==
  /\ session[s].reading = "read" /\ Fault
  /\ CloseSessionFast(s, [session[s] EXCEPT !.reading = "off"], aborts)
  /\ UNCHANGED <<inbox, available, getter, userClose, aborted, ghosts>>

\* async_read aborted by a close: the session at the address is closed again.
OnReadAborted(s) ==
  /\ s \in aborts
  /\ CloseSessionFast(s, session[s], aborts \ {s})
  /\ uprooted' = uprooted \cup {s}
  /\ UNCHANGED <<inbox, available, getter, userClose, aborted, faults, written, crowded>>

-----------------------------------------------------------------------------
\* BookEventGetter3::HandleBookEvent; every step loads active_session_ anew.

HandleBookEvent ==
  /\ getter.at = "idle" /\ getter.request < MaxRequests
  /\ getter' = [at |-> IF active = None THEN "acquire" ELSE "register",
                request |-> getter.request + 1]
  /\ UNCHANGED <<net, active, userClose, aborted, faults, ghosts>>

\* AcquireConnection spins until an entry it takes is of a Ready session.
CanAcquire(s) == available[s] > 0 /\ session[s].status = "Ready"

AcquireActiveSession(s) ==
  /\ getter.at = "acquire" /\ CanAcquire(s)
  /\ active' = s
  /\ getter' = [getter EXCEPT !.at = "register"]
  /\ UNCHANGED <<net, userClose, aborted, faults, ghosts>>

\* LockFreeCallbackManager::RegisterCallback accepts the first callback only.
FirstOnly(old, new) == IF old = "none" THEN new ELSE old

\* Mutant of RegisterCallback: a session that is active already is left alone.
RegisterCallbackOnce ==
  /\ getter.at = "register"
  /\ getter' = [getter EXCEPT !.at = "close"]
  /\ session' = [s \in Sessions |-> IF s # active \/ getter.request > 1
                   THEN session[s] ELSE [session[s] EXCEPT !.onResponse = TRUE]]
  /\ UNCHANGED <<inbox, aborts, available, active, userClose, aborted, faults, ghosts>>

\* No callback for the pair: the request is dropped, the session stays active.
RegisterCallback ==
  /\ getter.at = "register"
  /\ \/ getter' = [getter EXCEPT !.at = "idle"] /\ UNCHANGED session
     \/ /\ getter' = [getter EXCEPT !.at = "close"]
        /\ session' = [s \in Sessions |-> IF s # active THEN session[s]
                         ELSE [session[s] EXCEPT !.onResponse = TRUE]]
  /\ UNCHANGED <<inbox, aborts, available, active, userClose, aborted, faults, ghosts>>

RegisterOnClose ==
  /\ getter.at = "close"
  /\ getter' = [getter EXCEPT !.at = "send"]
  /\ session' = [s \in Sessions |-> IF s # active THEN session[s]
       ELSE [session[s] EXCEPT
               !.onClose = FirstOnly(@, IF userClose THEN "user" ELSE "default")]]
  /\ UNCHANGED <<inbox, aborts, available, active, userClose, aborted, faults, ghosts>>

\* Without an active session the request is dropped.
SendAsyncRequest ==
  /\ getter.at = "send"
  /\ getter' = [getter EXCEPT !.at = "idle"]
  /\ inbox' = [s \in Sessions |-> IF s # active THEN inbox[s]
                 ELSE Append(inbox[s], getter.request)]
  /\ UNCHANGED <<session, aborts, available, active, userClose, aborted, faults, ghosts>>

\* AsyncStop, from the bus: need_read_ ends both loops at their next turn.
AsyncStop ==
  /\ active # None /\ session[active].needRead /\ Fault
  /\ session' = [session EXCEPT ![active].needRead = FALSE]
  /\ UNCHANGED <<inbox, aborts, available, app, ghosts>>

-----------------------------------------------------------------------------

Loops(s) == DOMAIN session[s].loops

Establish(s) == OnResolved(s) \/ OnEstablished(s)

Expiry(s) == (session[s].run = "failed" /\ Expire(s)) \/ OnExpired(s)

Write(s) ==
  \/ OnWrite(s)
  \/ \E i \in Loops(s) : StartLoop(s, i) \/ StartSend(s, i) \/ AssertOneWrite(s, i) \/ Sent(s, i)

Read(s) == StartRead(s) \/ OnData(s)

Faults(s) ==
  \/ OnRunError(s) \/ (session[s].run = "connect" /\ Expire(s))
  \/ OnThrow(s) \/ OnReadError(s)
  \/ \E i \in Loops(s) : OnWriteError(s, i)

Getter ==
  \/ HandleBookEvent
  \/ \E s \in Sessions : AcquireActiveSession(s)
  \/ RegisterCallback \/ RegisterOnClose \/ SendAsyncRequest

Running(s) == Establish(s) \/ Expiry(s) \/ Write(s) \/ Read(s) \/ Faults(s)

\* Bound: once a session was freed under its coroutines, only the aborts that
\* causes are followed.
Intact == ~aborted /\ uprooted = {}

Next ==
  \/ Intact /\ ((\E s \in Sessions : Running(s)) \/ Getter \/ AsyncStop)
  \/ \E s \in Sessions : OnReadAborted(s)

Spec == Init /\ [][Next]_vars

\* What the io_context thread does without waiting for data.
Io == \E s \in Sessions : Establish(s) \/ Expiry(s) \/ Write(s)

\* The io_context thread runs while it has work, and so does the getter's strand.
\* Nothing makes data arrive.
Fairness == WF_vars(Intact /\ Io) /\ WF_vars(Intact /\ Getter)

FairSpec == Spec /\ Fairness

-----------------------------------------------------------------------------

\* Every variable stays in its domain; in particular a session that reported
\* Expired is gone from the pool.
TypeOK ==
  /\ \A s \in Sessions :
       /\ session[s].status \in {"Resolving", "Ready"}
       /\ session[s].run \in {"resolve", "connect", "done", "failed"}
       /\ session[s].queue \in Seq(Requests) /\ inbox[s] \in Seq(Requests)
       /\ session[s].reading \in {"off", "posted", "read"}
       /\ available[s] \in Nat
  /\ active \in Sessions \cup {None}
  /\ written \subseteq Requests

\* is_writing_ keeps a second WriteLoop away from the stream, though WriteLoop
\* clears it for whoever set it, unless a request was queued before the loop Run
\* spawns itself got to look at the queue.
OneWriter ==
  \A s \in Sessions \ crowded : Len(session[s].loops) <= 1

\* Data that arrives finds a callback registered on its session, though the
\* session may close or be replaced between the getter's steps.
DataFindsCallback ==
  \A s \in Sessions \ uprooted : session[s].heard => session[s].onResponse

\* A request handed to a session is written to the exchange, whatever the other
\* sessions do, unless that session closes, is stopped, or had a write error.
Delivered ==
  \A s \in Sessions, r \in Requests :
    (getter.at = "send" /\ getter.request = r /\ active = s)
      ~> \/ r \in written
         \/ ~session[s].open \/ ~session[s].needRead \/ session[s].torn
         \/ ~Intact

\* Every address of the pool gets a session that connects, whatever the others
\* do: one that cannot connect is replaced when its timer expires, and one whose
\* timer expired while it connected is replaced, too.  Only a failed resolve,
\* which comes before the timer is started, takes an address out of the pool.
EveryAddressConnects ==
  \A s \in Sessions :
    session[s].run # "done"
      ~> \/ session[s].run = "done"
         \/ session[s].run = "failed" /\ session[s].timer = "unset"
         \/ ~Intact

\* AcquireConnection "Blocks until a ready connection is available" (Https.h): the
\* session it returns is connected.
AcquiredIsConnected ==
  [][active = None /\ active' # None => session[active'].open]_vars

=============================================================================
