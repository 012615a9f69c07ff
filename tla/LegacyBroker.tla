------------------------------- MODULE LegacyBroker ------------------------------
(***************************************************************************)
(* The broker's older adapters, of websocket and of MQTT clients           *)
(* (src/packages/broker/src/plugins/legacyWebsocket and legacyMqtt): who    *)
(* listens to which stream is kept on both sides, by the streams of an     *)
(* adapter and by the connections; SubscriptionManager counts the adapters *)
(* that want a stream and subscribes the node. Requests await the answers  *)
(* of services, during which connections come and go. A client may         *)
(* subscribe to a stream more than once: both sides hold lists, of which   *)
(* only the number of times matters here.                                  *)
(***************************************************************************)
EXTENDS Naturals, Sequences, FiniteSets

CONSTANTS WsClients, MqttClients, Streams,
          MaxRequests, MaxSent, MaxFull  \* bounds: requests in all, messages of a
                                         \* resend, times that a socket is full

Adapters == {"websocket", "mqtt"}
Clients == WsClients \cup MqttClients
AdapterOf(c) == IF c \in WsClients THEN "websocket" ELSE "mqtt"

VARIABLES
    books,      \* who listens to what (see Init)
    requests,   \* all so far: [client, kind, stream, state, paused, sent]
    ongoing,    \* ongoingResendResponses: client |-> indices of its requests
    sockets,    \* client |-> "new", "open" or "closed"
    connected,  \* the servers' connections
    dead,       \* connections marked as dead
    ponged,     \* websocket clients that have answered the last ping
    full,       \* websocket clients whose socket takes no more for now
    fulls,      \* how often that has come about
    spoiled,    \* history: streams an MQTT client has unsubscribed from
    late,       \* history: requests that went on after their client had gone
    forgotten   \* history: resends that the end of another one took off ongoing

fullVars == <<full, fulls>>
clientVars == <<sockets, connected, dead, ponged, fullVars>>
history == <<spoiled, late, forgotten>>
brokerVars == <<books, requests, ongoing, clientVars, history>>

Nowhere == [c \in Clients |-> [s \in Streams |-> 0]]

Init ==
    /\ books = [streams |-> [a \in Adapters |-> {}],      \* those an adapter has
                listens |-> Nowhere,                       \* client, stream |-> how often it is
                                                           \* among the stream's connections
                of |-> Nowhere,                            \* and the stream among its streams
                count |-> [s \in Streams |-> 0],           \* SubscriptionManager.streams
                node |-> {}]                               \* what the node is subscribed to
    /\ requests = <<>>
    /\ ongoing = [c \in Clients |-> {}]
    /\ sockets = [c \in Clients |-> "new"]
    /\ connected = {} /\ dead = {} /\ ponged = WsClients /\ full = {} /\ fulls = 0
    /\ spoiled = {} /\ late = {} /\ forgotten = {}

----------------------------------------------------------------------------
Less(n, by) == IF n <= by THEN 0 ELSE n - by

\* SubscriptionManager.
CountsUp(b, s) == [b EXCEPT !.count[s] = @ + 1, !.node = @ \cup {s}]
CountsDown(b, left) ==
    [b EXCEPT !.count = [s \in Streams |-> IF s \in left THEN Less(@[s], 1) ELSE @[s]],
              !.node = @ \ {s \in left : b.count[s] <= 1}]

\* subscribe / handleSubscribeRequest, once permitted: the first one makes the
\* stream and subscribes the node. A stream never stays in another state than
\* 'subscribed', so that the timeout of StreamStateManager.create does nothing.
Created(b, a, s) ==
    IF s \in b.streams[a] THEN b ELSE CountsUp([b EXCEPT !.streams[a] = @ \cup {s}], s)
Joined(b, c, s) ==
    [Created(b, AdapterOf(c), s) EXCEPT !.listens[c][s] = @ + 1, !.of[c][s] = @ + 1]

\* Connections are taken from the streams of adapter a, and these from them, so
\* many times; checkRoomEmpty: a stream that is left without any is deleted.
Removed(b, a, times) ==
    LET listens == [c \in Clients |-> [s \in Streams |-> Less(b.listens[c][s], times[c][s])]]
        touched == {s \in b.streams[a] : \E c \in Clients : times[c][s] > 0}
        emptied == {s \in touched : \A c \in Clients : AdapterOf(c) = a => listens[c][s] = 0}
    IN  [CountsDown(b, emptied) EXCEPT
            !.streams[a] = @ \ emptied, !.listens = listens,
            !.of = [c \in Clients |-> [s \in Streams |-> Less(@[c][s], times[c][s])]]]
Once(c, s) == [Nowhere EXCEPT ![c][s] = 1]

\* RequestHandler.unsubscribe. An MQTT client's (handleUnsubscribeRequest)
\* leaves it among the stream's connections.
WsLeft(b, c, s) ==
    IF s \notin b.streams["websocket"] THEN b ELSE Removed(b, "websocket", Once(c, s))
MqttLeft(b, c, s) ==
    IF s \notin b.streams["mqtt"] THEN b
    ELSE [CountsDown(b, {s}) EXCEPT !.of[c][s] = Less(@, 1)]

\* Mutation: each stream is left once.
ClosedOnceEach(b, a, gone) ==
    Removed(b, a, [c \in Clients |-> [s \in Streams |-> IF c \in gone /\ b.of[c][s] > 0 THEN 1 ELSE 0]])
\* removeConnection and _closeConnection, of connections of adapter a: once for
\* each entry of their streams.
Closed(b, a, gone) ==
    Removed(b, a, [c \in Clients |-> [s \in Streams |-> IF c \in gone THEN b.of[c][s] ELSE 0]])

\* onConnectionClose: the connections' resends are aborted.
Abort(gone) ==
    /\ requests' = [i \in DOMAIN requests |->
                       IF \E c \in gone : i \in ongoing[c] THEN [requests[i] EXCEPT !.state = "aborted"]
                       ELSE requests[i]]
    /\ ongoing' = [c \in Clients |-> IF c \in gone THEN {} ELSE ongoing[c]]
Forget(a, gone) ==
    /\ books' = Closed(books, a, gone)
    /\ connected' = connected \ gone
    /\ Abort(gone)

----------------------------------------------------------------------------
\* The servers' 'connection' handlers. A websocket without valid versions in
\* its URL is closed at once.
Connects(c) ==
    /\ sockets[c] = "new"
    /\ \/ sockets' = [sockets EXCEPT ![c] = "open"] /\ connected' = connected \cup {c}
       \/ c \in WsClients /\ sockets' = [sockets EXCEPT ![c] = "closed"] /\ UNCHANGED connected
    /\ UNCHANGED <<books, requests, ongoing, dead, ponged, fullVars, history>>

\* handleRequest and the packets 'subscribe' and 'publish'. Permission to
\* publish is asked for messages without a signature.
Asks(c, kind, s) ==
    /\ c \in connected /\ Len(requests) < MaxRequests
    /\ kind = "resend" => c \in WsClients
    /\ \E state \in {"checking"} \cup (IF kind = "publish" /\ c \in WsClients THEN {"validating"} ELSE {}) :
          requests' = Append(requests, [client |-> c, kind |-> kind, stream |-> s, state |-> state,
                                        paused |-> FALSE, sent |-> 0])
    /\ UNCHANGED <<books, ongoing, clientVars, history>>

Becomes(i, state) == requests' = [requests EXCEPT ![i].state = state]
Note(i) == late' = IF requests[i].client \in connected THEN late ELSE late \cup {i}

\* checkPermission or authenticate has answered. Whoever is dead is not
\* subscribed by the websocket server; the MQTT server does not ask.
Subscribed(i) ==
    /\ requests[i].kind = "subscribe"
    /\ IF requests[i].client \in dead \cap WsClients
       THEN Becomes(i, "silent") /\ UNCHANGED <<books, late>>
       ELSE /\ books' = Joined(books, requests[i].client, requests[i].stream)
            /\ Becomes(i, "answered") /\ Note(i)
Permitted(i) ==
    /\ requests[i].state = "checking"
    /\ \/ Subscribed(i)
       \/ requests[i].kind = "resend" /\ Becomes(i, "fetching") /\ UNCHANGED <<books, late>>
       \/ requests[i].kind = "publish" /\ Becomes(i, "validating") /\ UNCHANGED <<books, late>>
    /\ UNCHANGED <<ongoing, clientVars, spoiled, forgotten>>
\* Publisher.validateAndPublish.
Published(i) ==
    /\ requests[i].state = "validating"
    /\ Becomes(i, "answered")
    /\ UNCHANGED <<books, ongoing, clientVars, history>>
\* A check, a validation or all storage nodes have failed. (Connections that
\* are dead are not told of all of them.)
Refused(i) ==
    /\ requests[i].state \in {"checking", "validating", "fetching"}
    /\ Becomes(i, "refused")
    /\ UNCHANGED <<books, ongoing, clientVars, history>>

\* createHistoricalDataResponse has found a storage node that answers.
Fetched(i) ==
    LET c == requests[i].client
    IN  /\ requests[i].state = "fetching"
        /\ ongoing' = [ongoing EXCEPT ![c] = @ \cup {i}]
        /\ Becomes(i, IF c \in dead THEN "silent" ELSE "streaming")
        /\ Note(i)
        /\ UNCHANGED <<books, clientVars, spoiled, forgotten>>
ResumedOne(c, to) ==
    [i \in DOMAIN requests |->
        IF /\ requests[i].client = c /\ requests[i].state = "streaming"
           /\ to \/ \A j \in DOMAIN requests : requests[j].client = c /\ requests[j].paused => i <= j
        THEN [requests[i] EXCEPT !.paused = to] ELSE requests[i]]
\* The handlers of sendResendResponse. A full socket pauses all its resends.
Paused(c, to) ==
    [i \in DOMAIN requests |->
        IF requests[i].client = c /\ requests[i].state = "streaming"
        THEN [requests[i] EXCEPT !.paused = to] ELSE requests[i]]
Fills(c) ==
    /\ fulls < MaxFull /\ fulls' = fulls + 1
    /\ full' = full \cup {c}
Data(i) ==
    LET r == requests[i]
    IN  /\ r.state = "streaming" /\ ~r.paused /\ r.sent < MaxSent
        /\ \/ requests' = [Paused(r.client, TRUE) EXCEPT ![i].sent = @ + 1] /\ Fills(r.client)
           \/ /\ r.client \notin full
              /\ requests' = [requests EXCEPT ![i].sent = @ + 1] /\ UNCHANGED fullVars
        /\ UNCHANGED <<books, ongoing, sockets, connected, dead, ponged, history>>
End(i) ==
    LET c == requests[i].client
    IN  /\ requests[i].state = "streaming" /\ ~requests[i].paused
        /\ Becomes(i, "answered")
        /\ ongoing' = [ongoing EXCEPT ![c] = {}]
        /\ forgotten' = forgotten \cup {j \in ongoing[c] \ {i} : requests[j].state = "streaming"}
        /\ UNCHANGED <<books, clientVars, spoiled, late>>
\* broadcastMessage, to a listener whose socket is full then.
Broadcast(c) ==
    /\ c \in WsClients /\ \E s \in Streams : books.listens[c][s] > 0
    /\ requests' = Paused(c, TRUE) /\ Fills(c)
    /\ UNCHANGED <<books, ongoing, sockets, connected, dead, ponged, history>>
Drain(c) ==
    /\ sockets[c] = "open" /\ c \in full
    /\ requests' = Paused(c, FALSE) /\ full' = full \ {c}
    /\ UNCHANGED <<fulls, books, ongoing, sockets, connected, dead, ponged, history>>

\* UnsubscribeRequest, and the packet 'unsubscribe'.
Unsubscribe(c, s) ==
    /\ c \in connected
    /\ books' = IF c \in WsClients THEN WsLeft(books, c, s) ELSE MqttLeft(books, c, s)
    /\ spoiled' = IF c \in MqttClients /\ s \in books.streams["mqtt"]
                  THEN spoiled \cup {s} ELSE spoiled
    /\ UNCHANGED <<requests, ongoing, clientVars, late, forgotten>>

----------------------------------------------------------------------------
\* The socket closes. 'close' is heard once by the websocket server, and by
\* the MQTT server also after it has closed the connection itself.
SocketCloses(c) ==
    /\ sockets[c] = "open"
    /\ sockets' = [sockets EXCEPT ![c] = "closed"]
    /\ IF c \in MqttClients
       THEN Forget(AdapterOf(c), {c}) /\ dead' = dead \cup {c}
       ELSE UNCHANGED dead /\ IF c \in connected THEN Forget(AdapterOf(c), {c})
                              ELSE UNCHANGED <<books, requests, ongoing, connected>>
    /\ UNCHANGED <<ponged, fullVars, history>>
\* An MQTT client was silent for streamsTimeout.
Timeout(c) ==
    /\ c \in MqttClients \cap connected
    /\ Forget(AdapterOf(c), {c})
    /\ UNCHANGED <<sockets, dead, ponged, fullVars, history>>
\* pingConnections: who has not answered the last ping is terminated.
PingConnections ==
    LET silent == (connected \cap WsClients) \ ponged
    IN  /\ Forget("websocket", silent)
        /\ dead' = dead \cup silent
        /\ sockets' = [c \in Clients |-> IF c \in silent THEN "closed" ELSE sockets[c]]
        /\ ponged' = ponged \ connected
        /\ UNCHANGED <<fullVars, history>>
Pong(c) ==
    /\ c \in WsClients \ ponged /\ sockets[c] = "open"
    /\ ponged' = ponged \cup {c}
    /\ UNCHANGED <<books, requests, ongoing, sockets, connected, dead, fullVars, history>>
\* close() of a server: its sockets close later.
CloseServer(a) ==
    LET all == {c \in connected : AdapterOf(c) = a}
    IN  /\ all # {}
        /\ Forget(a, all)
        /\ dead' = IF a = "websocket" THEN dead \cup all ELSE dead
        /\ UNCHANGED <<sockets, ponged, fullVars, history>>

Next ==
    \/ \E c \in Clients :
          \/ Connects(c) \/ SocketCloses(c) \/ Timeout(c) \/ Pong(c) \/ Broadcast(c) \/ Drain(c)
          \/ \E s \in Streams :
                Unsubscribe(c, s) \/ \E kind \in {"subscribe", "resend", "publish"} : Asks(c, kind, s)
    \/ \E i \in DOMAIN requests :
          Permitted(i) \/ Published(i) \/ Refused(i) \/ Fetched(i) \/ Data(i) \/ End(i)
    \/ PingConnections
    \/ \E a \in Adapters : CloseServer(a)

\* Services answer, storage nodes send what they have and sockets drain.
Fairness ==
    \A i \in 1..MaxRequests :
        /\ WF_brokerVars(i \in DOMAIN requests /\ (Permitted(i) \/ Published(i) \/ Fetched(i)))
        /\ WF_brokerVars(i \in DOMAIN requests /\ End(i))
        /\ WF_brokerVars(i \in DOMAIN requests /\ Drain(requests[i].client))
Spec == Init /\ [][Next]_brokerVars
FairSpec == Spec /\ Fairness

----------------------------------------------------------------------------
TypeOK ==
    /\ books \in [streams : [Adapters -> SUBSET Streams], listens : [Clients -> [Streams -> Nat]],
                  of : [Clients -> [Streams -> Nat]], count : [Streams -> Nat], node : SUBSET Streams]
    /\ requests \in Seq([client : Clients, kind : {"subscribe", "resend", "publish"}, stream : Streams,
                         state : {"checking", "validating", "fetching", "streaming",
                                  "answered", "refused", "silent", "aborted"},
                         paused : BOOLEAN, sent : Nat])
    /\ ongoing \in [Clients -> SUBSET DOMAIN requests]
    /\ sockets \in [Clients -> {"new", "open", "closed"}]
    /\ connected \cup dead \cup full \subseteq Clients /\ ponged \subseteq WsClients
    /\ fulls \in Nat /\ spoiled \subseteq Streams /\ late \cup forgotten \subseteq DOMAIN requests

\* Whatever overlaps, the node is subscribed to a stream exactly as long as
\* somebody listens to it, in either adapter, and each adapter that has
\* listeners counts once; unless an MQTT client has unsubscribed from the
\* stream. (RequestHandler.subscribe and unsubscribe, SubscriptionManager)
NodeServesListeners ==
    \A s \in Streams \ spoiled :
        LET wanting == {AdapterOf(c) : c \in {d \in Clients : books.listens[d][s] > 0}}
        IN  /\ s \in books.node <=> wanting # {}
            /\ books.count[s] = Cardinality(wanting)
            /\ \A a \in Adapters : s \in books.streams[a] <=> a \in wanting

\* A client that is gone listens to nothing and has no resend running, unless
\* its request went on after it had gone, or the end of another of its resends
\* has made the broker forget the one that runs. (removeConnection,
\* _closeConnection, onConnectionClose)
ClosedLeaveNothing ==
    \A c \in Clients \ connected :
        /\ \A s \in Streams \ spoiled :
              books.listens[c][s] > 0 =>
                  \E i \in late : requests[i].client = c /\ requests[i].stream = s
        /\ \A i \in DOMAIN requests \ (late \cup forgotten) :
              requests[i].client = c => requests[i].state # "streaming"

\* Both: what the broker keeps for its clients is what they are owed.
ListenersAreKept == NodeServesListeners /\ ClosedLeaveNothing

\* Whoever stays gets an answer, however its resends pause each other.
\* (handleRequest, sendResendResponse)
EveryRequestIsAnswered ==
    \A i \in 1..MaxRequests :
        i \in DOMAIN requests ~>
            /\ i \in DOMAIN requests
            /\ \/ requests[i].client \notin connected
               \/ requests[i].state \in {"answered", "refused"}
==================================================================================
