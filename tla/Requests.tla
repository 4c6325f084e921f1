------------------------------ MODULE Requests ------------------------------
(***************************************************************************)
(* What the program says to an exchange and what it makes of the answers:  *)
(* the endpoint table, the argument maps, the request factories that sign  *)
(* them, the subscription messages, and the parser managers that turn a    *)
(* document into book data or into an API response.                        *)
(*                                                                         *)
(* One run of the program wires one component to one exchange, network     *)
(* and market (`wired'); the exchange itself is external.  A document is a *)
(* record of the fields the parsers look at; argument values are symbolic. *)
(***************************************************************************)
EXTENDS Integers, FiniteSets, Sequences, SequencesExt, FiniteSetsExt

CONSTANTS Pairs,        \* the trading pairs of the program's pair tables
          Depths,       \* the snapshot depths a request may ask for
          MaxRequests,  \* bound: requests built in one behaviour
          MaxDocs       \* bound: documents the exchange sends

VARIABLES wired,   \* [exchange, network, market] the component was built with
          pool,    \* the connection pool: made or not, and the endpoint it connects to
          sent,    \* the requests put on the wire, in order
          answered, \* positions in `sent' the exchange has answered
          streams, \* the pairs the exchange streams to us
          inbox,   \* documents on the way to us, in order
          docs,    \* documents sent so far
          bus,     \* book events given to the bus, each with its document
          acks     \* API responses logged by ProcessApiResponse

vars == <<wired, pool, sent, answered, streams, inbox, docs, bus, acks>>

-----------------------------------------------------------------------------
(* The endpoint table.  The enumerations keep the values of the source. *)

Binance == 0
Bybit == 1
Mainnet == 0
Testnet == 1
Spot == 0
Futures == 1
Options == 2
InvalidMarket == 3
HTTPS == 0
WS == 1

Wiring == [exchange : {Binance, Bybit}, network : {Mainnet, Testnet},
           market : {Spot, Futures, Options, InvalidMarket}]

EndpointKey(w, protocol) ==
  [exchange |-> w.exchange, network |-> w.network, market |-> w.market,
   protocol |-> protocol]

(* A number below four, shifted left, as the set of its bits; the exclusive *)
(* or of two numbers is the symmetric difference of their bits.             *)
Shifted(n, by) == {by + i : i \in {j \in 0 .. 1 : (n \div 2^j) % 2 = 1}}

(* The hash of a key as an off-by-one in the shifts would compute it. *)
HashSharedBit(k) ==
  SymDiff(SymDiff(Shifted(k.exchange, 0), Shifted(k.network, 1)),
          SymDiff(Shifted(k.market, 1), Shifted(k.protocol, 3)))

EndpointKeyHash(k) ==
  SymDiff(SymDiff(Shifted(k.exchange, 0), Shifted(k.network, 1)),
          SymDiff(Shifted(k.market, 2), Shifted(k.protocol, 3)))

(* unordered_map compares the stored hash and then calls operator==, whose *)
(* comma makes it compare the protocols only.                              *)
SameKey(k, l) == EndpointKeyHash(k) = EndpointKeyHash(l) /\ k.protocol = l.protocol

(* The initializer list in order: an entry whose key is already there is   *)
(* dropped.                                                                *)
Endpoints ==
  LET list == [i \in 1..16 |->
        [exchange |-> (i - 1) \div 8, network |-> ((i - 1) \div 4) % 2,
         market |-> ((i - 1) \div 2) % 2, protocol |-> (i - 1) % 2]]
      Add(table, k) ==
        IF \E l \in table : SameKey(k, l) THEN table ELSE table \cup {k}
  IN FoldLeft(Add, {}, list)

(* What the map finds for a key: at most one endpoint. *)
Found ==
  [k \in {EndpointKey(w, protocol) : w \in Wiring, protocol \in {HTTPS, WS}} |->
     {l \in Endpoints : SameKey(k, l)}]

GetEndpoint(k) == Found[k]

(* recv_window capped by the endpoint's threshold. *)
RecvWindow(e) ==
  LET threshold == IF e.exchange = Bybit /\ e.network = Mainnet THEN 100 ELSE 60000
  IN IF 5000 > threshold THEN threshold ELSE 5000

-----------------------------------------------------------------------------
(* Argument maps.  Args is an unordered_map whose hash is the key's length; *)
(* it is modelled by the sequence of its entries in iteration order.        *)

KeySize ==
  [symbol |-> 6, side |-> 4, type |-> 4, quantity |-> 8, price |-> 5,
   timeInForce |-> 11, newClientOrderId |-> 16, origClientOrderId |-> 17,
   limit |-> 5, recvWindow |-> 10, timestamp |-> 9, signature |-> 9]

(* Bucket count of a table that has held between one and 13 elements. *)
Buckets == 13

(* operator[]: assign in place, or link a new node first in its bucket, or  *)
(* first of all when its bucket is empty.                                   *)
Put(args, key, value) ==
  LET Bucket(k) == KeySize[k] % Buckets
      at == {i \in DOMAIN args : args[i].key = key}
      mates == {i \in DOMAIN args : Bucket(args[i].key) = Bucket(key)}
      First(S) == CHOOSE i \in S : \A j \in S : i <= j
      entry == [key |-> key, value |-> value]
  IN IF at # {} THEN [args EXCEPT ![First(at)] = entry]
     ELSE InsertAt(args, IF mates = {} THEN 1 ELSE First(mates), entry)

PutAll(entries) ==
  FoldLeft(LAMBDA args, e : Put(args, e[1], e[2]), <<>>, entries)

NoId == "invalid"
Orders == [pair : Pairs, side : {"BUY", "SELL", "invalid"}, id : {"7", NoId}]

(* SetSide logs and sets nothing for another side; SetOrderId skips the    *)
(* invalid id.                                                             *)
LimitOrderArgs(o) ==
  PutAll(<<<<"symbol", o.pair>>>>
         \o (IF o.side = "invalid" THEN <<>> ELSE <<<<"side", o.side>>>>)
         \o <<<<"type", "LIMIT">>, <<"quantity", "qty">>, <<"price", "price">>,
              <<"timeInForce", "GTC">>>>
         \o (IF o.id = NoId THEN <<>> ELSE <<<<"newClientOrderId", o.id>>>>))

CancelOrderArgs(o) ==
  PutAll(<<<<"symbol", o.pair>>>>
         \o (IF o.id = NoId THEN <<>> ELSE <<<<"origClientOrderId", o.id>>>>))

SnapshotArgs(pair, depth) ==
  PutAll(<<<<"symbol", pair>>, <<"limit", IF depth > 5000 THEN 5000 ELSE depth>>>>)

-----------------------------------------------------------------------------
(* The request factories. *)

(* Signer::Sign: the HMAC, taken to be different for different data. *)
Sign(data) == [hmac |-> data]

Request(host, path, query) ==
  [over |-> "https", host |-> host, path |-> path, query |-> query]

(* Signed before the time stamp was added. *)
FactoryRequestSignsFirst(host, path, args, need_sign) ==
  LET signed == Put(args, "signature", Sign(args))
      stamped == Put(Put(signed, "recvWindow", RecvWindow(host)), "timestamp", "now")
  IN Request(host, path, IF need_sign THEN stamped ELSE args)

FactoryRequest(host, path, args, need_sign) ==
  LET stamped == Put(Put(args, "recvWindow", RecvWindow(host)), "timestamp", "now")
      signed == Put(stamped, "signature", Sign(stamped))
  IN Request(host, path, IF need_sign THEN signed ELSE args)

SnapshotPath(market) ==
  CASE market = Spot -> "/api/v3/depth"
    [] market = Futures -> "/fapi/v1/depth"
    [] OTHER -> ""

-----------------------------------------------------------------------------
(* Subscription messages: FamilyBookEventGetter::ArgsBody.                 *)

Ids == {"1", ""}

(* The frequency a generator puts into its request: Binance's passes        *)
(* kFrequencyMSInvalid, Bybit's the snapshot depth.                         *)
InvalidFrequency == 0
BinanceFrequency == InvalidFrequency
BybitFrequency == 50

Message(subscribe, id, params) ==
  [over |-> "ws", subscribe |-> subscribe, id |-> id, params |-> params]

(* Binance sets "params" only when the frequency is invalid. *)
BinanceArgsBody(pair, frequency, subscribe, id) ==
  Message(subscribe, id, IF frequency = InvalidFrequency THEN {pair} ELSE {})

(* Binance's condition taken over. *)
BybitArgsBodyLikeBinance(pair, frequency, subscribe, id) ==
  BinanceArgsBody(pair, frequency, subscribe, id)

(* Bybit sets "args" only when the frequency is valid. *)
BybitArgsBody(pair, frequency, subscribe, id) ==
  Message(subscribe, id, IF frequency = InvalidFrequency THEN {} ELSE {pair})

-----------------------------------------------------------------------------
(* Documents and what the parsers make of them (Binance; the module         *)
(* BybitGenerator has Bybit's).  `fault' is the first field that cannot be  *)
(* read: the update ids, a price level, or none.                            *)

Unknown == "unknown"
Documents ==
  [form : {"depth", "error", "ack", "other"}, pair : Pairs \cup {Unknown},
   id : Ids, ok : BOOLEAN, fault : {"none", "U", "levels"}]

Doc(form, pair, id, ok, fault) ==
  [form |-> form, pair |-> pair, id |-> id, ok |-> ok, fault |-> fault]

DetermineType(doc) ==
  CASE doc.form = "depth" -> "kDepthUpdate"
    [] doc.form = "error" -> "kErrorResponse"
    [] doc.form = "ack" -> "kNonQueryResponse"
    [] OTHER -> "kUnknown"

(* The handlers InitParserManager registers. *)
Handlers == {"kNonQueryResponse", "kDepthUpdate"}

Diff(exchange, pair, whole) ==
  [kind |-> "diff", exchange |-> exchange, pair |-> pair, whole |-> whole]

(* A value-initialised BookDiffSnapshot, the first alternative of ParsedData. *)
EmptyDiff == Diff("kInvalid", Unknown, FALSE)

(* An exception keeps what was read before it; an unknown pair returns {}. *)
ParseDiff(doc) ==
  IF doc.fault = "U" THEN Diff("kBinance", Unknown, FALSE)
  ELSE IF doc.pair \notin Pairs THEN EmptyDiff
  ELSE Diff("kBinance", doc.pair, doc.fault = "none")

(* ApiResponseParser::Parse: success iff "result" is null; no id reads as 0. *)
ParseApiResponse(doc) ==
  [kind |-> "api", status |-> IF doc.ok THEN "kSuccess" ELSE "kError",
   id |-> IF doc.id = "" THEN "0" ELSE doc.id]

Parse(doc) ==
  LET type == DetermineType(doc)
  IN IF type \notin Handlers THEN EmptyDiff
     ELSE IF type = "kDepthUpdate" THEN ParseDiff(doc)
     ELSE ParseApiResponse(doc)

-----------------------------------------------------------------------------
Init ==
  /\ wired \in Wiring
  /\ pool = [made |-> FALSE, to |-> {}]
  /\ sent = <<>> /\ answered = {} /\ streams = {}
  /\ inbox = <<>> /\ docs = 0 /\ bus = <<>> /\ acks = {}

(* HttpsConnectionPoolFactory2::Create; the pool is nullptr when no         *)
(* endpoint is found.                                                       *)
Create ==
  /\ ~pool.made
  /\ pool' = [made |-> TRUE, to |-> GetEndpoint(EndpointKey(wired, HTTPS))]
  /\ UNCHANGED <<wired, sent, answered, streams, inbox, docs, bus, acks>>

(* Send a request over a session of the pool; CoExec returns before that    *)
(* when there is no pool.                                                   *)
Send(request) ==
  /\ pool.to # {}
  /\ Len(sent) < MaxRequests
  /\ sent' = Append(sent, request)
  /\ UNCHANGED <<wired, pool, answered, streams, inbox, docs, bus, acks>>

(* OrderNewLimit3::CoExec and CancelOrder3::CoExec. *)
NewOrder ==
  /\ wired.exchange = Binance
  /\ \E o \in Orders, host \in GetEndpoint(EndpointKey(wired, HTTPS)) :
       Send(FactoryRequest(host, "/api/v3/order", LimitOrderArgs(o), TRUE))

CancelOrder ==
  /\ wired.exchange = Binance
  /\ \E o \in Orders, host \in GetEndpoint(EndpointKey(wired, HTTPS)) :
       Send(FactoryRequest(host, "/api/v3/order", CancelOrderArgs(o), TRUE))

(* binance::BookSnapshot2::CoExec. *)
Snapshot ==
  /\ wired.exchange = Binance
  /\ \E p \in Pairs, d \in Depths, host \in GetEndpoint(EndpointKey(wired, HTTPS)) :
       Send(FactoryRequest(host, SnapshotPath(wired.market), SnapshotArgs(p, d), FALSE))

(* BookEventGetter: subscribe to a pair or unsubscribe from it.  The web    *)
(* socket needs no https pool.                                              *)
Subscribe ==
  \E p \in Pairs, subscribe \in BOOLEAN, id \in Ids :
    /\ Len(sent) < MaxRequests
    /\ sent' = Append(sent, IF wired.exchange = Binance
         THEN BinanceArgsBody(p, BinanceFrequency, subscribe, id)
         ELSE BybitArgsBody(p, BybitFrequency, subscribe, id))
    /\ UNCHANGED <<wired, pool, answered, streams, inbox, docs, bus, acks>>

-----------------------------------------------------------------------------
(* The exchange. *)

Deliver(doc) ==
  /\ docs < MaxDocs
  /\ docs' = docs + 1
  /\ inbox' = Append(inbox, doc)

(* It refuses a message that names no stream. *)
Answer(i) ==
  LET m == sent[i]
  IN /\ i \notin answered /\ m.over = "ws"
     /\ answered' = answered \cup {i}
     /\ IF wired.exchange = Bybit
        THEN streams' = streams /\ UNCHANGED <<inbox, docs>>
        ELSE IF m.params = {}
        THEN streams' = streams /\ Deliver(Doc("error", Unknown, m.id, FALSE, "none"))
        ELSE /\ streams' = IF m.subscribe THEN streams \cup m.params
                                          ELSE streams \ m.params
             /\ Deliver(Doc("ack", Unknown, m.id, TRUE, "none"))
     /\ UNCHANGED <<wired, pool, sent, bus, acks>>

(* A depth update, now and then one the parser cannot read to its end or    *)
(* one for a pair that is not in the tables; or another notice.             *)
Push ==
  /\ \/ \E p \in streams, fault \in {"none", "U", "levels"} :
          Deliver(Doc("depth", p, "", TRUE, fault))
     \/ streams # {} /\ Deliver(Doc("depth", Unknown, "", TRUE, "none"))
     \/ streams # {} /\ Deliver(Doc("other", Unknown, "", TRUE, "none"))
  /\ UNCHANGED <<wired, pool, sent, answered, streams, bus, acks>>

-----------------------------------------------------------------------------
(* BookEventGetterComponentCallbackHandler::HandleResponse: book data goes  *)
(* to the bus, an API response to the log.                                  *)
HandleResponse ==
  LET doc == Head(inbox)
      parsed == Parse(doc)
  IN /\ inbox # <<>>
     /\ inbox' = Tail(inbox)
     /\ IF parsed.kind = "diff"
        THEN bus' = Append(bus, [data |-> parsed, doc |-> doc]) /\ UNCHANGED acks
        ELSE acks' = acks \cup {parsed} /\ UNCHANGED bus
     /\ UNCHANGED <<wired, pool, sent, answered, streams, docs>>

Next ==
  \/ Create \/ NewOrder \/ CancelOrder \/ Snapshot
  \/ Subscribe
  \/ \E i \in DOMAIN sent : Answer(i)
  \/ Push \/ HandleResponse

Spec == Init /\ [][Next]_vars

-----------------------------------------------------------------------------
Http == {sent[i] : i \in {j \in DOMAIN sent : sent[j].over = "https"}}

(* The shape of the state.  A snapshot request of Binance asks for at least *)
(* one level and for at most 5000 (SetLimit).                               *)
TypeOK ==
  /\ wired \in Wiring
  /\ pool \in [made : BOOLEAN, to : SUBSET Endpoints] /\ Cardinality(pool.to) <= 1
  /\ answered \subseteq DOMAIN sent
  /\ streams \subseteq Pairs
  /\ \A i \in DOMAIN inbox : inbox[i] \in Documents
  /\ \A r \in Http : \A i \in DOMAIN r.query :
       r.query[i].key = "limit" => r.query[i].value \in 1..5000

(* Whatever the order in which the unordered_map lists its arguments, the   *)
(* query string the exchange receives, without the signature, is the string *)
(* that was signed: it accepts the signature of every order and cancel.     *)
SignatureAccepted ==
  \A r \in Http : \A i \in DOMAIN r.query :
    r.query[i].key = "signature" => Sign(RemoveAt(r.query, i)) = r.query[i].value

(* Although operator== of the endpoint keys compares the protocols only, the *)
(* pool connects to the host of the exchange, network and market the         *)
(* component was wired with, and a request goes over a connection to that    *)
(* host and asks it for the snapshot by the path of that market.             *)
ReachesItsVenue ==
  /\ pool.to \subseteq {EndpointKey(wired, HTTPS)}
  /\ \A r \in Http :
       /\ pool.to = {r.host}
       /\ r.path = "/fapi/v1/depth" => r.host.market = Futures
       /\ r.path = "/api/v3/depth" => r.host.market = Spot

(* Each exchange's convention for the frequency of a subscription agrees    *)
(* with what its generator passes: no subscription is refused for naming no *)
(* stream.                                                                  *)
SubscriptionAccepted ==
  /\ \A i \in DOMAIN sent : sent[i].over = "ws" => sent[i].params # {}
  /\ \A i \in DOMAIN inbox : inbox[i].form # "error"
  /\ \A a \in acks : a.status = "kSuccess"

(* A diff given to the bus with the ids and the pair of a depth update has  *)
(* all its levels.  Refuted: an exception in the level lists keeps what was *)
(* read before it, and the diff is published.                               *)
PublishedDiffsAreWhole ==
  \A i \in DOMAIN bus : bus[i].data.pair # Unknown => bus[i].data.whole

(* A document no handler is registered for never becomes book data: Parse   *)
(* is documented to throw for it.                                           *)
UnhandledIsNotBookData ==
  \A i \in DOMAIN bus : DetermineType(bus[i].doc) \in Handlers

=============================================================================
