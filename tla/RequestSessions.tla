-------------------------- MODULE RequestSessions --------------------------
(***************************************************************************)
(* The five session classes that serve one request each: V2::HttpsSession, *)
(* V2::HttpsSession2, WssSession, WssSession2 and WSSession.               *)
(*                                                                         *)
(* They go through the same steps: a chain of asynchronous operations sets *)
(* the connection up, a timer may close it, a caller hands in a request,   *)
(* which is written, and what is read goes to a callback.  They differ in  *)
(* when the timer runs and in what they do with an error; `class' says how *)
(* the class of this behaviour's session decides.                          *)
(*                                                                         *)
(* The io_context runs on several threads and the timer is on no strand:   *)
(* its handler, the handlers of the stream and the caller interleave.  The *)
(* completion of an operation and the handler it queues are two steps.     *)
(***************************************************************************)
EXTENDS Naturals, Sequences

CONSTANTS MaxCalls,     \* bound: calls of SingleAsyncRequest
          MaxMessages   \* bound: messages the exchange sends

VARIABLES class,      \* the class of the session
          op,         \* the operation in flight, "idle" between two, "none" after the last
          result,     \* its completion: "none" yet, "ok" or "error"
          timer,      \* timer_
          open,       \* the socket
          connected, used, expired,    \* is_connected_, is_used_, is_expired_
          needRead,   \* need_read_
          shutdown,   \* async_shutdown in flight
          text,       \* req_, request_json_: the call it came from
          buffer,     \* buffer_, res_: the call it answers
          calls,      \* calls of SingleAsyncRequest so far
          inflight,   \* messages on the way to us, by the call they answer
          messages,   \* messages sent by the exchange so far
          wire,       \* the call whose request the exchange received, or Nobody
          rCrashed,    \* an exception left io_context::run
          stillborn,  \* ghost: SSL_set_tlsext_host_name failed
          accepted,   \* ghost: calls SingleAsyncRequest went through with
          replaced,   \* ghost: text was replaced while it was being written
          heard,      \* ghost: the calls the messages given to the callback answer
          spurious    \* ghost: the callback ran without a message

flags == <<connected, used, expired, needRead, shutdown>>
ghosts == <<stillborn, accepted, replaced, heard, spurious>>
exchange == <<inflight, messages, wire>>
singleVars == <<class, op, result, timer, open, flags, text, buffer, calls, exchange,
          rCrashed, ghosts>>

Nobody == 0

\* A call can be made and a message sent.
SessionAssumption == MaxCalls \in Nat \ {0} /\ MaxMessages \in Nat \ {0}

\* What the exchange receives when the buffer it is sent from was freed.
Garbage == MaxCalls + 1

-----------------------------------------------------------------------------
\* The classes.  timer: when it is armed, and whether success cancels it.
\* onError: what an error does while the session is set up; onWriteError and
\* onReadError likewise; stream: read on after the first message.

HttpsSession ==
  [name |-> "HttpsSession", setup |-> <<"resolve", "connect", "tls">>,
   armed |-> "constructed", cancels |-> FALSE, onError |-> "close",
   onWriteError |-> "close", onReadError |-> "close", stream |-> FALSE,
   checksFirst |-> TRUE, requestAtOnce |-> FALSE]

\* It keeps a pointer to the callback instead of a copy.
HttpsSession2 == [HttpsSession EXCEPT !.name = "HttpsSession2"]

\* Errors of Run and of the write are thrown; one of the read is not looked at.
WssSession ==
  [name |-> "WssSession", setup |-> <<"resolve", "connect", "tls", "upgrade">>,
   armed |-> "resolved", cancels |-> TRUE, onError |-> "throw",
   onWriteError |-> "stop", onReadError |-> "callback", stream |-> TRUE,
   checksFirst |-> TRUE, requestAtOnce |-> FALSE]

\* AsyncRequest moves the text into request_json_ before it checks the flags.
WssSession2 ==
  [WssSession EXCEPT !.name = "WssSession2", !.onWriteError = "close",
                     !.onReadError = "close", !.checksFirst = FALSE]

\* No flags and no timer of its own: tcp_stream::expires_after bounds the set-up.
WSSession ==
  [WssSession EXCEPT !.name = "WSSession", !.armed = "never", !.onError = "stop",
                     !.requestAtOnce = TRUE]

Classes == {HttpsSession, HttpsSession2, WssSession, WssSession2, WSSession}

IsHttps == class.name \in {"HttpsSession", "HttpsSession2"}

Following(o) ==
  LET i == CHOOSE j \in DOMAIN class.setup : class.setup[j] = o
  IN IF i = Len(class.setup) THEN "idle" ELSE class.setup[i + 1]

-----------------------------------------------------------------------------
\* HttpsSession names the host before it arms the timer; when that fails the
\* session does nothing more.
SingleInit ==
  /\ class \in Classes
  /\ stillborn \in (IF IsHttps THEN BOOLEAN ELSE {FALSE})
  /\ op = IF stillborn THEN "none" ELSE "resolve"
  /\ timer = IF class.armed = "constructed" /\ ~stillborn THEN "armed" ELSE "off"
  /\ result = "none" /\ open = FALSE
  /\ connected = FALSE /\ used = FALSE /\ expired = FALSE
  /\ needRead = TRUE /\ shutdown = FALSE
  /\ text = IF class.requestAtOnce THEN 1 ELSE Nobody
  /\ calls = IF class.requestAtOnce THEN 1 ELSE 0
  /\ accepted = IF class.requestAtOnce THEN {1} ELSE {}
  /\ buffer = Nobody /\ wire = Nobody
  /\ inflight = << >> /\ messages = 0 /\ heard = << >>
  /\ rCrashed = FALSE /\ replaced = FALSE /\ spurious = FALSE

\* Mutant of close_session: the flag is not set.
CloseSocketOnly(o) ==
  /\ open' = FALSE /\ expired' = expired
  /\ op' = o
  /\ result' = IF o \in {"idle", "none", "resolve"} \/ result # "none" THEN result
               ELSE "error"

\* close_session, with o the operation then in flight: closing the socket ends
\* it with an error unless it has completed; it does not cancel the resolver.
close_session(o) ==
  /\ open' = FALSE /\ expired' = TRUE
  /\ op' = o
  /\ result' = IF o \in {"idle", "none", "resolve"} \/ result # "none" THEN result
               ELSE "error"

\* The next operation is started; it completes later.
Start(o) == op' = o /\ result' = "none" /\ UNCHANGED <<open, expired>>

\* What an error does, by the way the class chose.
Failed(way) ==
  \/ way = "close" /\ close_session("none") /\ UNCHANGED <<rCrashed, spurious>>
  \/ way = "stop" /\ Start("none") /\ UNCHANGED <<rCrashed, spurious>>
  \/ way = "callback" /\ Start("read") /\ spurious' = TRUE /\ UNCHANGED rCrashed
  \/ way = "throw" /\ Start("none") /\ rCrashed' = TRUE /\ UNCHANGED spurious

-----------------------------------------------------------------------------
\* The network completes the operation in flight.  A write sends what the
\* buffer holds; if the text was replaced meanwhile, anything may be sent.
Complete ==
  /\ op \notin {"idle", "none"} /\ result = "none"
  /\ \/ result' = "error" /\ UNCHANGED <<open, buffer, inflight, wire>>
     \/ /\ result' = "ok"
        /\ op \in {"resolve", "connect"} \/ open
        /\ open' = (open \/ op = "connect")
        /\ op = "read" => inflight # << >>
        /\ buffer' = IF op = "read" THEN Head(inflight) ELSE buffer
        /\ inflight' = IF op = "read" THEN Tail(inflight) ELSE inflight
        /\ IF op = "write"
             THEN wire' \in (IF replaced THEN 1 .. Garbage ELSE {text})
             ELSE wire' = wire
  /\ UNCHANGED <<class, op, timer, flags, text, calls, messages, rCrashed, ghosts>>

\* Mutant of TimerAfter: every class cancels its timer once it is connected.
TimerAfterAlwaysCancels(o) ==
  IF o = "resolve" /\ class.armed = "resolved" THEN "armed"
  ELSE IF Following(o) = "idle" /\ timer = "armed" THEN "off"
  ELSE timer

\* The timer once set-up operation o has succeeded.  What cancel finds already
\* queued is not cancelled.
TimerAfter(o) ==
  IF o = "resolve" /\ class.armed = "resolved" THEN "armed"
  ELSE IF Following(o) = "idle" /\ class.cancels /\ timer = "armed" THEN "off"
  ELSE timer

\* on_resolve, on_connect and on_handshake, or Run between two co_awaits.
OnSetUp ==
  /\ op \in {class.setup[i] : i \in DOMAIN class.setup} /\ result = "ok"
  /\ Following(op) = "idle" => ~class.requestAtOnce
  /\ Start(Following(op))
  /\ connected' = (Following(op) = "idle")
  /\ timer' = TimerAfter(op)
  /\ UNCHANGED <<class, used, needRead, shutdown, text, buffer, calls, exchange,
                 rCrashed, ghosts>>

\* SSL_set_tlsext_host_name fails after the host was resolved.
OnHostNameRefused ==
  /\ op = "resolve" /\ result = "ok" /\ ~IsHttps
  /\ Start("none") /\ stillborn' = TRUE
  /\ UNCHANGED <<class, timer, connected, used, needRead, shutdown, text, buffer,
                 calls, exchange, rCrashed, accepted, replaced, heard, spurious>>

\* An error while the session is set up.
OnSetUpError ==
  /\ op \in {class.setup[i] : i \in DOMAIN class.setup} /\ result = "error"
  /\ Failed(class.onError)
  /\ UNCHANGED <<class, timer, connected, used, needRead, shutdown, text, buffer,
                 calls, exchange, stillborn, accepted, replaced, heard>>

\* WSSession::on_handshake: a request of "{}" means to listen right away, to
\* what the end point itself names.
SendAtOnce ==
  /\ op = "upgrade" /\ result = "ok" /\ class.requestAtOnce
  /\ \/ Start("write") /\ wire' = wire
     \/ Start("read") /\ wire' = text
  /\ UNCHANGED <<class, timer, connected, used, needRead, shutdown, text, buffer,
                 calls, inflight, messages, rCrashed, ghosts>>

\* The timer expires, and its handler runs.
SingleExpire ==
  /\ timer = "armed" /\ timer' = "queued"
  /\ UNCHANGED <<class, op, result, open, flags, text, buffer, calls, exchange,
                 rCrashed, ghosts>>

start_timer ==
  /\ timer = "queued" /\ timer' = "off"
  /\ close_session(op)
  /\ UNCHANGED <<class, connected, used, needRead, shutdown, text, buffer, calls,
                 exchange, rCrashed, ghosts>>

-----------------------------------------------------------------------------
\* Mutant of Unused: is_used_ is not looked at.
UnusedIfConnected == connected

\* The checks at the head of AsyncRequest; is_expired_ is not among them.
Unused == connected /\ ~used

SingleAsyncRequest ==
  /\ ~class.requestAtOnce /\ calls < MaxCalls
  /\ calls' = calls + 1
  /\ IF Unused
       THEN /\ op' = "write" /\ result' = "none" /\ used' = TRUE
            /\ text' = calls' /\ accepted' = accepted \cup {calls'}
            /\ UNCHANGED replaced
       ELSE /\ text' = IF class.checksFirst THEN text ELSE calls'
            /\ replaced' = (replaced \/ (op = "write" /\ ~class.checksFirst))
            /\ UNCHANGED <<op, result, used, accepted>>
  /\ UNCHANGED <<class, timer, open, connected, expired, needRead, shutdown,
                 buffer, exchange, rCrashed, stillborn, heard, spurious>>

\* on_write, or AsyncRequest after the write; the loop of WssSession2 does not
\* begin once need_read_ is reset.
OnWrite ==
  /\ op = "write" /\ result # "none"
  /\ IF result = "ok"
       THEN Start(IF needRead THEN "read" ELSE "close") /\ UNCHANGED <<rCrashed, spurious>>
       ELSE Failed(class.onWriteError)
  /\ UNCHANGED <<class, timer, connected, used, needRead, shutdown, text, buffer,
                 calls, exchange, stillborn, accepted, replaced, heard>>

\* on_read with a message: the callback, then the next read, or the end.
OnRead ==
  /\ op = "read" /\ result = "ok"
  /\ heard' = Append(heard, buffer)
  /\ IF class.stream THEN Start(IF needRead THEN "read" ELSE "close")
                     ELSE close_session("none")
  /\ UNCHANGED <<class, timer, connected, used, needRead, shutdown, text, buffer,
                 calls, exchange, rCrashed, stillborn, accepted, replaced, spurious>>

OnReadError ==
  /\ op = "read" /\ result = "error"
  /\ Failed(class.onReadError)
  /\ UNCHANGED <<class, timer, connected, used, needRead, shutdown, text, buffer,
                 calls, exchange, stillborn, accepted, replaced, heard>>

\* async_close of a web socket has completed: AsyncRequest returns.
OnClose ==
  /\ op = "close" /\ result # "none"
  /\ Start("none")
  /\ UNCHANGED <<class, timer, connected, used, needRead, shutdown, text, buffer,
                 calls, exchange, rCrashed, ghosts>>

\* AsyncCloseSessionGracefully: a shutdown for the first two classes, the end
\* of the read loop for WssSession2; the others have none.
AsyncCloseSessionGracefully ==
  /\ class.name \notin {"WssSession", "WSSession"}
  /\ IF IsHttps THEN shutdown' = TRUE /\ UNCHANGED needRead
                ELSE needRead' = FALSE /\ UNCHANGED shutdown
  /\ UNCHANGED <<class, op, result, timer, open, connected, used, expired, text,
                 buffer, calls, exchange, rCrashed, ghosts>>

\* async_shutdown has completed, whether with an error or not.
OnShutdown ==
  /\ shutdown /\ shutdown' = FALSE
  /\ close_session(op)
  /\ UNCHANGED <<class, timer, connected, used, needRead, text, buffer, calls,
                 exchange, rCrashed, ghosts>>

\* The exchange answers the request: once, or with a stream of messages.
Answer ==
  /\ wire # Nobody
  /\ messages < IF class.stream THEN MaxMessages ELSE 1
  /\ messages' = messages + 1
  /\ inflight' = Append(inflight, wire)
  /\ UNCHANGED <<class, op, result, timer, open, flags, text, buffer, calls, wire,
                 rCrashed, ghosts>>

Handlers ==
  OnSetUp \/ OnHostNameRefused \/ OnSetUpError \/ SendAtOnce \/ OnWrite \/ OnRead
    \/ OnReadError \/ OnClose

SingleNext ==
  /\ ~rCrashed
  /\ Complete \/ Handlers \/ SingleExpire \/ start_timer \/ SingleAsyncRequest
       \/ AsyncCloseSessionGracefully \/ OnShutdown \/ Answer

SingleSpec == SingleInit /\ [][SingleNext]_singleVars

\* A timer expires in the end, and a thread of the io_context runs every handler
\* that is queued.  Nothing is assumed of the network or the exchange.
SingleFairSpec ==
  /\ SingleSpec
  /\ WF_singleVars(~rCrashed /\ Handlers) /\ WF_singleVars(~rCrashed /\ SingleExpire)
  /\ WF_singleVars(~rCrashed /\ start_timer)

-----------------------------------------------------------------------------
\* Types of the session's members.
SingleTypeOK ==
  /\ class \in Classes
  /\ op \in {"resolve", "connect", "tls", "upgrade", "idle", "write", "read",
             "close", "none"}
  /\ result \in {"none", "ok", "error"}
  /\ timer \in {"off", "armed", "queued"}
  /\ {open, connected, used, expired, needRead, shutdown, rCrashed, stillborn,
      replaced, spurious} \subseteq BOOLEAN
  /\ {text, buffer, wire} \subseteq 0 .. Garbage
  /\ calls \in 0 .. MaxCalls /\ accepted \subseteq 1 .. MaxCalls
  /\ messages \in 0 .. MaxMessages
  /\ used => connected

\* A session serves one request: AsyncRequest goes through once, whatever timer,
\* shutdown and repeated calls do, and every message the callback is given
\* answers that request.  The exception is WssSession2 when a refused call
\* replaced request_json_ while it was being written.  The callback runs for
\* messages only, except that WssSession and WSSession do not look at the error
\* of a read.
ServesOneRequest ==
  /\ \A a, b \in accepted : a = b
  /\ spurious => class.name \in {"WssSession", "WSSession"}
  /\ ~replaced => \A i \in DOMAIN heard : heard[i] \in accepted
  /\ ~class.stream => Len(heard) <= 1

\* A session with nothing left to do is marked expired, so that its owner can
\* tell: on_resolve, on_connect, on_handshake, on_write and on_read all end in
\* close_session when they fail, and so does WssSession2.  Only the end of its
\* loop on request, and a host name that was refused, leave no mark.
EndIsMarked ==
  (op = "none" /\ class.onReadError = "close" /\ ~rCrashed) =>
    expired \/ stillborn \/ ~needRead

\* A session of these classes serves one request, its callback hears the answers
\* to it, and one with nothing left to do is marked expired.
SingleIsSound == SingleTypeOK /\ ServesOneRequest /\ EndIsMarked

\* No session with a running timer is stuck in its set-up, and an https session
\* whose exchange never answers is closed all the same: its timer is not
\* cancelled when the handshake has succeeded.
SingleEndsOrConnects ==
  (timer = "armed") ~> (expired \/ rCrashed \/ (connected /\ ~IsHttps))

=============================================================================
