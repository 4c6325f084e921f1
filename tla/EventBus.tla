------------------------------ MODULE EventBus ------------------------------
(***************************************************************************)
(* The lifetime of events on aot::CoBus.  A component allocates a payload  *)
(* and the bus event that wraps it from pools, hands the bus event to      *)
(* AsyncSend, and drops its own references; every subscriber that          *)
(* overrides the handler spawns a coroutine on its own executor.  An event *)
(* goes back to its pool with the last boost::intrusive_ptr to it.         *)
(*                                                                         *)
(* Each thread's remaining work is an agenda of elementary operations; one *)
(* step performs the first.  Subscribers are the Binance spot part of the  *)
(* wiring in example/check_many_trading_pairs_config/main.cpp.             *)
(***************************************************************************)
EXTENDS Integers, Sequences, FiniteSets

CONSTANTS
  Pairs,       \* trading pairs, the part of an event that handlers act on
  MaxEvents    \* bound on the events sent, and blocks of each pool

VARIABLES
  cell,      \* block -> what its memory holds
  free,      \* <<class, layer>> -> the pool's blocks, next to be allocated first
  agenda,    \* thread -> what it still does, in order
  inbox,     \* component -> coroutines spawned on its executor
  events,    \* number of events sent or about to be
  asked      \* <<pair, pair>>: the pair a snapshot was to be requested for, and was

busVars == <<cell, free, agenda, inbox, events, asked>>

-----------------------------------------------------------------------------

RequestClasses == {"RequestNewSnapshot"}
SubscribeClasses == {"RequestDiffOrderBook"}
SnapshotClasses == {"ResponseNewSnapshot"}
DiffClasses == {"BookDiffSnapshot"}
UpdateClasses == {"MEMarketUpdate2"}
BBOClasses == {"NewBBO"}
Classes == RequestClasses \cup SubscribeClasses \cup SnapshotClasses
           \cup DiffClasses \cup UpdateClasses \cup BBOClasses

Subscribers ==
  [generator |-> <<"snapshot", "getter", "orderBook">>,
   getter    |-> <<"generator">>,
   snapshot  |-> <<"generator">>,
   orderBook |-> <<"redPanda", "arbitrage">>]

Components == {"generator", "getter", "snapshot", "orderBook", "redPanda", "arbitrage"}

\* The io_context's thread runs the callbacks of the sessions.
Runners == Components \cup {"io"}

\* AsyncHandleEvent: which components override it, and for which classes; what
\* the others inherit from bus::Component does nothing.
Handles(c) ==
  CASE c = "generator" -> {"ResponseNewSnapshot", "BookDiffSnapshot"}
    [] c = "getter"    -> {"RequestDiffOrderBook"}
    [] c = "snapshot"  -> {"RequestNewSnapshot"}
    [] c = "orderBook" -> {"ResponseNewSnapshot", "BookDiffSnapshot", "MEMarketUpdate2"}
    [] OTHER           -> {"NewBBO"}

\* The handler of this class takes a plain pointer, the others an intrusive_ptr.
Raw == RequestClasses

Cells == Classes \X {"bus", "payload"} \X (1 .. MaxEvents)

ClassOf(b) == b[1]
PayloadOf(b) == cell[b].wraps

-----------------------------------------------------------------------------
\* What the handlers and callbacks send.

Publish(by, class, p) == <<"publish", by, class, p>>

RequestNewSnapshot(p) == << Publish("generator", "RequestNewSnapshot", p) >>
RequestSubscribeToDiff(p) == << Publish("generator", "RequestDiffOrderBook", p) >>
ProcessBookDiffSnapshot(p) == << Publish("getter", "BookDiffSnapshot", p) >>
AnswerSnapshot(p) == << Publish("snapshot", "ResponseNewSnapshot", p) >>
SnapshotCallback(p) == << Publish("generator", "ResponseNewSnapshot", p) >>
ProcessBookEntries(p) == << Publish("generator", "MEMarketUpdate2", p) >>
SendBBOToBus(p) == << Publish("orderBook", "NewBBO", p) >>

\* The diff callback of the batch handler sends the generator's event on.
ForwardDiff(b) == << <<"send", "generator", b>> >>

\* The coroutine that requests a snapshot for p, on the generator's strand.
Spawn(p) == << <<"spawn", "generator", [event |-> << >>, pair |-> p, again |-> FALSE]>> >>

\* The bodies a handler's coroutine may have for a task, by the state of the
\* component.  BookSnapshot2 goes on in a second coroutine of its own.
Bodies(c, t) ==
  LET p == t.pair
      reacts ==
        CASE c = "generator" /\ t.event = << >> -> {RequestNewSnapshot(p)}
          [] c = "generator" /\ ClassOf(t.event) = "BookDiffSnapshot" ->
               {Spawn(p), ForwardDiff(t.event), SnapshotCallback(p) \o ForwardDiff(t.event),
                ProcessBookEntries(p), << >>}
          [] c = "orderBook" -> {SendBBOToBus(p), << >>}
          [] c = "snapshot" /\ ~t.again -> {<< <<"spawn", c, [t EXCEPT !.again = TRUE]>> >>}
          [] c = "snapshot" /\ t.again -> {<< <<"ask", t.event, p>> >>}
          [] OTHER -> {<< >>}
  IN {r \o IF t.event = << >> \/ ClassOf(t.event) \in Raw THEN << >>
             ELSE << <<"release", t.event, p, << >> >> >> : r \in reacts}

\* Bound: number of events a body sends.
Sends(body) ==
  Cardinality({i \in DOMAIN body :
    body[i][1] = "publish" \/ (body[i][1] = "spawn" /\ body[i][2] = "generator")})

BusInit ==
  /\ cell = [b \in Cells |-> [alive |-> FALSE, ref |-> 0, wraps |-> << >>,
                               pair |-> CHOOSE p \in Pairs : TRUE]]
  /\ free = [l \in Classes \X {"bus", "payload"} |->
               [i \in 1 .. MaxEvents |-> <<l[1], l[2], i>>]]
  /\ agenda = [t \in Runners |-> << >>]
  /\ inbox = [c \in Components |-> << >>]
  /\ events = 0
  /\ asked = {}

-----------------------------------------------------------------------------
\* Elementary operations of a thread.

Doing(t, op) == agenda[t] # << >> /\ Head(agenda[t])[1] = op
Continue(t, more) == agenda' = [agenda EXCEPT ![t] = more \o Tail(@)]

\* CoBus::AsyncSend visits the subscribers in order; those that do not override
\* the handler do nothing.
Visit(by, b) ==
  LET takers == SelectSeq(Subscribers[by], LAMBDA c : ClassOf(b) \in Handles(c))
  IN [i \in 1 .. Len(takers) |-> <<"accept", b, takers[i]>>]

\* Allocate the payload and the bus event and wrap the one in the other, then
\* AsyncSend.  Two local pointers go out of scope after it; the one to the bus
\* event also stands for AsyncSend's argument, which it outlives.
DoPublish(t) ==
  /\ Doing(t, "publish")
  /\ LET op == Head(agenda[t])
         w == Head(free[<<op[3], "payload">>])
         b == Head(free[<<op[3], "bus">>])
     IN /\ free' = [free EXCEPT ![<<op[3], "payload">>] = Tail(@),
                                ![<<op[3], "bus">>] = Tail(@)]
        /\ cell' = [cell EXCEPT
             ![w] = [alive |-> TRUE, ref |-> 2, wraps |-> << >>, pair |-> op[4]],
             ![b] = [alive |-> TRUE, ref |-> 1, wraps |-> w, pair |-> op[4]]]
        /\ Continue(t, Visit(op[2], b) \o << <<"release", b, op[4], << >> >>, <<"release", w, op[4], << >> >> >>)
  /\ UNCHANGED <<inbox, events, asked>>

\* An event received before is sent on: AsyncSend's argument is a new pointer.
DoForward(t) ==
  /\ Doing(t, "send")
  /\ LET op == Head(agenda[t])
     IN /\ cell' = [cell EXCEPT ![op[3]].ref = @ + 1]
        /\ Continue(t, Visit(op[2], op[3]) \o << <<"release", op[3], cell[op[3]].pair, << >> >> >>)
  /\ UNCHANGED <<free, inbox, events, asked>>

\* Mutant of Accept: every handler takes a plain pointer.
AcceptRaw(t) ==
  /\ Doing(t, "accept")
  /\ LET b == Head(agenda[t])[2]
     IN inbox' = [inbox EXCEPT ![Head(agenda[t])[3]] =
                    Append(@, [event |-> b, pair |-> cell[PayloadOf(b)].pair, again |-> FALSE])]
  /\ Continue(t, << >>)
  /\ UNCHANGED <<cell, free, events, asked>>

\* Accept: the handler spawns its coroutine, which keeps a reference unless the
\* handler was given a plain pointer.
Accept(t) ==
  /\ Doing(t, "accept")
  /\ LET b == Head(agenda[t])[2]
     IN /\ inbox' = [inbox EXCEPT ![Head(agenda[t])[3]] =
              Append(@, [event |-> b, pair |-> cell[PayloadOf(b)].pair, again |-> FALSE])]
        /\ cell' = IF ClassOf(b) \in Raw THEN cell ELSE [cell EXCEPT ![b].ref = @ + 1]
  /\ Continue(t, << >>)
  /\ UNCHANGED <<free, events, asked>>

\* The blocks go back to the front of their pools.  Memory keeps its contents.
GiveBack(blocks) ==
  free' = [l \in DOMAIN free |->
             SelectSeq(blocks, LAMBDA b : <<b[1], b[2]>> = l) \o free[l]]

\* Mutant of Destroyed: the destructor does not release the payload.
DestroyedShallow(b) == << >>

\* What the destructor of b does first: a bus event releases its payload, after
\* which its own block is given back.
Destroyed(b) ==
  IF PayloadOf(b) = << >> THEN << >>
  ELSE << <<"release", PayloadOf(b), cell[b].pair, <<b>> >> >>

\* Drop a reference to b, the last one or not, while the destructor of the blocks
\* dying runs.
Drop(t, b, dying, last) ==
  /\ cell' = [cell EXCEPT ![b].ref = @ - 1, ![b].alive = ~last]
  /\ IF last /\ Destroyed(b) # << >>
     THEN Continue(t, Destroyed(b)) /\ UNCHANGED free
     ELSE Continue(t, << >>) /\ GiveBack(IF last THEN <<b>> \o dying ELSE dying)
  /\ UNCHANGED <<inbox, events, asked>>

\* Mutant of Release: the last reference is taken to be the last but one.
ReleaseEarly(t) ==
  /\ Doing(t, "release")
  /\ LET op == Head(agenda[t]) IN Drop(t, op[2], op[4], cell[op[2]].ref <= 2)

\* intrusive_ptr_release: fetch_sub, and if that was the last one Deallocate.
Release(t) ==
  /\ Doing(t, "release")
  /\ LET op == Head(agenda[t]) IN Drop(t, op[2], op[4], cell[op[2]].ref = 1)

DoSpawn(t) ==
  /\ Doing(t, "spawn")
  /\ inbox' = [inbox EXCEPT ![Head(agenda[t])[2]] = Append(@, Head(agenda[t])[3])]
  /\ Continue(t, << >>)
  /\ UNCHANGED <<cell, free, events, asked>>

\* BookSnapshot2 builds the request from what its pointer leads to by now.
Ask(t) ==
  /\ Doing(t, "ask")
  /\ LET op == Head(agenda[t])
     IN asked' = asked \cup {<<op[3], cell[PayloadOf(op[2])].pair>>}
  /\ Continue(t, << >>)
  /\ UNCHANGED <<cell, free, inbox, events>>

-----------------------------------------------------------------------------

\* An executor starts the first coroutine spawned on it.
Start(c) ==
  /\ agenda[c] = << >> /\ inbox[c] # << >>
  /\ inbox' = [inbox EXCEPT ![c] = Tail(@)]
  /\ \E body \in Bodies(c, Head(inbox[c])) :
       LET sends == IF Head(inbox[c]).event = << >> THEN 0 ELSE Sends(body)
       IN /\ events + sends <= MaxEvents
          /\ events' = events + sends
          /\ agenda' = [agenda EXCEPT ![c] = body]
  /\ UNCHANGED <<cell, free, asked>>

\* A message from the exchange, or a pair to be tracked.
Input(t, body) ==
  /\ agenda[t] = << >> /\ events < MaxEvents
  /\ events' = events + 1
  /\ agenda' = [agenda EXCEPT ![t] = body]
  /\ UNCHANGED <<cell, free, inbox, asked>>

Step(t) ==
  \/ DoPublish(t) \/ DoForward(t) \/ Accept(t) \/ Release(t) \/ DoSpawn(t) \/ Ask(t)

HandleTrackingNewTradingPair == \E p \in Pairs : Input("generator", RequestSubscribeToDiff(p))
HandleResponse == \E p \in Pairs : Input("io", ProcessBookDiffSnapshot(p))
HandleAnswer == \E a \in asked : Input("io", AnswerSnapshot(a[2]))

BusNext ==
  \/ \E t \in Runners : Step(t)
  \/ \E c \in Components : Start(c)
  \/ HandleTrackingNewTradingPair \/ HandleResponse \/ HandleAnswer

BusSpec == BusInit /\ [][BusNext]_busVars

\* What a thread does next: an operation, or the next coroutine of its executor.
Run(t) == Step(t) \/ (t \in Components /\ Start(t))

\* Every thread keeps running.
BusFairness == \A t \in Runners : WF_busVars(Run(t))

BusFairSpec == BusSpec /\ BusFairness

-----------------------------------------------------------------------------

\* Number of pointers to b: the ones a thread has still to release, the ones
\* coroutines not started yet hold, and those inside events.
Pointers(b) ==
  LET releases(t) == {i \in DOMAIN agenda[t] : agenda[t][i][1] = "release" /\ agenda[t][i][2] = b}
      waiting(c) == {i \in DOMAIN inbox[c] : inbox[c][i].event = b /\ ClassOf(b) \notin Raw}
  IN Cardinality(UNION {{t} \X releases(t) : t \in Runners})
     + Cardinality(UNION {{c} \X waiting(c) : c \in Components})
     + Cardinality({e \in Cells : cell[e].alive /\ cell[e].wraps = b})

\* Every variable stays in its domain; in particular no count falls below zero.
BusTypeOK ==
  /\ \A b \in Cells : cell[b].ref \in Nat /\ cell[b].pair \in Pairs
                       /\ (cell[b].wraps = << >> \/ cell[b].wraps \in Cells)
  /\ \A l \in DOMAIN free : \A i \in DOMAIN free[l] : free[l][i] \in Cells
  /\ events \in 0 .. MaxEvents
  /\ asked \subseteq Pairs \X Pairs

\* ref_count_ is the number of pointers to the event, whatever threads copy and
\* drop them at the same time.
CountsPointers ==
  \A b \in Cells : cell[b].alive => cell[b].ref = Pointers(b)

\* What a coroutine holds an intrusive_ptr to is alive and still the event it
\* was sent, and so is the payload: neither block has been used again.
HeldEventIsAlive ==
  LET Intact(b, p) == /\ cell[b].alive /\ cell[b].pair = p
                      /\ PayloadOf(b) # << >> =>
                           cell[PayloadOf(b)].alive /\ cell[PayloadOf(b)].pair = p
  IN /\ \A t \in Runners : \A i \in DOMAIN agenda[t] :
          agenda[t][i][1] = "release" => Intact(agenda[t][i][2], agenda[t][i][3])
     /\ \A c \in Components : \A i \in DOMAIN inbox[c] :
          inbox[c][i].event # << >> /\ ClassOf(inbox[c][i].event) \notin Raw
            => Intact(inbox[c][i].event, inbox[c][i].pair)

\* A block is in its pool at most once, and only when it holds no event.
FreedOnce ==
  \A l \in DOMAIN free :
    /\ \A i, j \in DOMAIN free[l] : free[l][i] = free[l][j] => i = j
    /\ \A i \in DOMAIN free[l] : ~cell[free[l][i]].alive

\* ref_count_ is the number of intrusive_ptrs to an event, an event that a
\* coroutine holds one to is alive and unchanged, and it is given back to its
\* pool once.
BusLifetimes == BusTypeOK /\ CountsPointers /\ HeldEventIsAlive /\ FreedOnce

\* Every event and every payload goes back to its pool: nothing keeps a
\* reference for ever.
BusReturned == <>[](\A l \in DOMAIN free : Len(free[l]) = MaxEvents)

\* "need extend lifetime object" (Binance.h, at the handlers that take an
\* intrusive_ptr): a request is still the one that was sent when BookSnapshot2
\* reads it.
RequestOutlivesHandler == \A a \in asked : a[1] = a[2]

=============================================================================
