------------------------------ MODULE WebRtcEndpoint -----------------------------
(***************************************************************************)
(* Two nodes set up WebRTC connections with each other (src/packages/      *)
(* network/src/connection/WebRtcEndpoint.ts, WebRtcConnection.ts and       *)
(* NodeWebRtcConnection.ts). Their offers and answers go over a tracker    *)
(* (RtcSignaller.ts, rtcSignallingHandlers.ts): in order over one tracker, *)
(* in any order over two; some get lost, or come back as an error when the *)
(* tracker does not know the receiver. The node with the smaller peer id   *)
(* makes the offers. A connection that is closed has no listeners left and *)
(* takes part in nothing: only those in the endpoint's table are modelled. *)
(* What node-datachannel does is external: a link comes up between two     *)
(* connections that have each other's description, or it does not.         *)
(***************************************************************************)
EXTENDS Integers, Sequences, FiniteSets

CONSTANTS Offerer, Answerer,
          Routers,   \* trackers that relay signals (routerId)
          MaxPingPongAttempts,
          MaxCalls,  \* bound: calls of connect() and close()
          MaxLost,   \* bound: signals that do not arrive
          None

VARIABLES
    connections,  \* node |-> its connection to the other one, or None
    pending,      \* node |-> attempts whose promise is not settled
    signals,      \* node |-> router |-> signals on the way to the node
    links,        \* ids of connections whose link has come up
    peerEvents,   \* history: node |-> PEER_CONNECTED since the last PEER_DISCONNECTED
    stopped,      \* nodes whose endpoint has stopped
    lastId,       \* uuids made so far
    routers,      \* history: those that connections were made over
    calls, lost

vars == <<connections, pending, signals, links, peerEvents, stopped, lastId, routers, calls, lost>>

Nodes == {Offerer, Answerer}
Other(n) == CHOOSE o \in Nodes : o # n
IsOffering(n) == n = Offerer

NoId == 0  \* the connectionId 'none'; ids made by uuidv4 are 1, 2, ...
Connection ==
    [id : Nat,                     \* connectionId
     router : Routers,             \* routerId
     attempt : Nat \union {None},  \* deferredConnectionAttempt
     timer : BOOLEAN,              \* connectionTimeoutRef is running
     remote : BOOLEAN,             \* has the other's description
     described : BOOLEAN,          \* its own description was signalled
     connected : BOOLEAN,          \* lastState is connected
     open : BOOLEAN,               \* the data channel is open
     pings : 0..MaxPingPongAttempts]
Signal == [type : {"offer", "answer"}, id : Nat] \union {[type |-> "connect"], [type |-> "error"]}

\* createConnection and connect(): the timer runs from the start.
NewConnection(id, router, attempt) ==
    [id |-> id, router |-> router, attempt |-> attempt, timer |-> TRUE, remote |-> FALSE,
     described |-> FALSE, connected |-> FALSE, open |-> FALSE, pings |-> 0]
NewAttempt(n) == CHOOSE k \in 1..Cardinality(pending[n]) + 1 : k \notin pending[n]
NewId(n) == IF IsOffering(n) THEN lastId + 1 ELSE NoId

Has(n) == connections[n] # None
IsOpen(n) == Has(n) /\ connections[n].open

\* The endpoints of some nodes have stopped from the start in runs of other things.
Starts(down) ==
    /\ connections = [n \in Nodes |-> None]
    /\ pending = [n \in Nodes |-> {}]
    /\ signals = [n \in Nodes |-> [r \in Routers |-> <<>>]]
    /\ links = {} /\ routers = {} /\ stopped = down /\ lastId = 0 /\ calls = 0 /\ lost = 0
    /\ peerEvents = [n \in Nodes |-> 0]
Init == Starts({})

\* The connection as it is after a change.
Becomes(n, connection) == connections' = [connections EXCEPT ![n] = connection]

\* connection.close(): the attempt it still has is rejected, it leaves the
\* table, and the endpoint emits PEER_DISCONNECTED.
\* Mutant: the attempt of a connection that is closed is forgotten.
RejectedNever(n) == pending
Rejected(n) == [pending EXCEPT ![n] = @ \ {connections[n].attempt}]
Closed(n) ==
    /\ Becomes(n, None)
    /\ pending' = Rejected(n)
    /\ peerEvents' = [peerEvents EXCEPT ![n] = 0]

\* A new connection in an empty place of the table.
Created(n, connection) ==
    /\ pending' = [pending EXCEPT ![n] = @ \union {connection.attempt}]
    /\ Becomes(n, connection)
    /\ routers' = routers \union {connection.router}
    /\ UNCHANGED peerEvents

(***************************************************************************)
(* replaceConnection: the new connection takes over the attempt of the old *)
(* one before that is closed, or has one of its own.                       *)
(***************************************************************************)
TakenOver(n) == IF connections[n].attempt # None THEN connections[n].attempt ELSE NewAttempt(n)
Replaced(n, connection) ==
    /\ pending' = [pending EXCEPT ![n] = @ \union {connection.attempt}]
    /\ Becomes(n, connection)
    /\ routers' = routers \union {connection.router}
    /\ peerEvents' = [peerEvents EXCEPT ![n] = 0]

\* connect(), by an instruction of the tracker or again after the connection
\* was lost: then an answerer asks for an offer. With a connection there is
\* already an answer: its state, or its attempt.
Send(to, r, signal) == signals' = [signals EXCEPT ![to][r] = Append(@, signal)]
Connect(n, r, trackerInstructed) ==
    /\ n \notin stopped /\ ~Has(n) /\ calls < MaxCalls
    /\ Created(n, NewConnection(NewId(n), r, NewAttempt(n)))
    /\ lastId' = IF IsOffering(n) THEN lastId + 1 ELSE lastId
    /\ IF ~trackerInstructed /\ ~IsOffering(n) THEN Send(Other(n), r, [type |-> "connect"])
       ELSE UNCHANGED signals
    /\ calls' = calls + 1
    /\ UNCHANGED <<links, stopped, lost>>

\* The local description is there: it is signalled with the id of now.
Describe(n) ==
    /\ Has(n) /\ ~connections[n].described
    /\ IsOffering(n) \/ connections[n].remote
    /\ Becomes(n, [connections[n] EXCEPT !.described = TRUE])
    /\ Send(Other(n), connections[n].router,
            [type |-> IF IsOffering(n) THEN "offer" ELSE "answer", id |-> connections[n].id])
    /\ UNCHANGED <<pending, links, peerEvents, stopped, lastId, routers, calls, lost>>

(***************************************************************************)
(* The listeners of the signaller, for the first signal on the way.        *)
(***************************************************************************)
Receives(n, r, type) ==
    /\ signals[n][r] # <<>> /\ Head(signals[n][r]).type = type
    /\ signals' = [signals EXCEPT ![n][r] = Tail(@)]
    /\ UNCHANGED <<links, stopped, calls, lost>>
Ignored == UNCHANGED <<connections, pending, routers, peerEvents>>
WithOffer(connection, id) == [connection EXCEPT !.id = id, !.remote = TRUE]

\* Mutant: a connection that has had an offer takes no other.
OnRtcOfferOnce(n, r) ==
    /\ Receives(n, r, "offer")
    /\ UNCHANGED lastId
    /\ LET id == Head(signals[n][r]).id
       IN  \/ /\ n \notin stopped /\ ~Has(n)
              /\ Created(n, WithOffer(NewConnection(NoId, r, NewAttempt(n)), id))
           \/ /\ n \notin stopped /\ Has(n) /\ connections[n].id = NoId
              /\ Becomes(n, WithOffer(connections[n], id))
              /\ UNCHANGED <<pending, routers, peerEvents>>
           \/ (n \in stopped \/ (Has(n) /\ connections[n].id # NoId)) /\ Ignored
OnRtcOffer(n, r) ==
    /\ Receives(n, r, "offer")
    /\ UNCHANGED lastId
    /\ LET made(attempt) == WithOffer(NewConnection(NoId, r, attempt), Head(signals[n][r]).id)
       IN  \/ n \in stopped /\ Ignored
           \/ n \notin stopped /\ ~Has(n) /\ Created(n, made(NewAttempt(n)))
           \/ /\ n \notin stopped /\ Has(n) /\ connections[n].id # NoId
              /\ Replaced(n, made(TakenOver(n)))
           \/ /\ n \notin stopped /\ Has(n) /\ connections[n].id = NoId
              /\ Becomes(n, WithOffer(connections[n], Head(signals[n][r]).id))
              /\ UNCHANGED <<pending, routers, peerEvents>>

\* An answer to another connection than the present one is not for it.
OnRtcAnswer(n, r) ==
    /\ Receives(n, r, "answer")
    /\ IF Has(n) /\ connections[n].id = Head(signals[n][r]).id
       THEN /\ Becomes(n, [connections[n] EXCEPT !.remote = TRUE])
            /\ UNCHANGED <<pending, routers, peerEvents>>
       ELSE Ignored
    /\ UNCHANGED lastId

OnConnect(n, r) ==
    /\ Receives(n, r, "connect")
    /\ IF n \in stopped THEN Ignored /\ UNCHANGED lastId
       ELSE /\ IF Has(n) THEN Replaced(n, NewConnection(lastId + 1, r, TakenOver(n)))
               ELSE Created(n, NewConnection(lastId + 1, r, NewAttempt(n)))
            /\ lastId' = lastId + 1

\* An error closes whatever connection there is now.
OnError(n, r) ==
    /\ Receives(n, r, "error")
    /\ IF Has(n) THEN Closed(n) /\ UNCHANGED routers ELSE Ignored
    /\ UNCHANGED lastId

\* A signal is lost, or the tracker does not know its receiver and says so.
LoseSignal(n, r) ==
    /\ signals[n][r] # <<>> /\ lost < MaxLost
    /\ LET rest == [signals EXCEPT ![n][r] = Tail(@)]
       IN  \/ signals' = rest
           \/ /\ Head(signals[n][r]).type # "error"
              /\ signals' = [rest EXCEPT ![Other(n)][r] = Append(@, [type |-> "error"])]
    /\ lost' = lost + 1
    /\ UNCHANGED <<connections, pending, links, peerEvents, stopped, lastId, routers, calls>>

(***************************************************************************)
(* What node-datachannel reports of a connection.                          *)
(***************************************************************************)
Linked(n) == Has(n) /\ connections[n].id \in links
LinkUp ==
    /\ \A n \in Nodes : Has(n) /\ connections[n].remote
    /\ connections[Offerer].id = connections[Answerer].id
    /\ links' = links \union {connections[Offerer].id}
    /\ links' # links
    /\ UNCHANGED <<connections, pending, signals, peerEvents, stopped, lastId, routers, calls, lost>>
StateConnected(n) ==
    /\ Linked(n) /\ ~connections[n].connected
    /\ Becomes(n, [connections[n] EXCEPT !.connected = TRUE])
    /\ UNCHANGED <<pending, signals, links, peerEvents, stopped, lastId, routers, calls, lost>>

\* emitOpen: the attempt is resolved. The answerer's data channel is opened when
\* it comes and may report so again; PEER_CONNECTED is emitted once.
Resolved(n) == [pending EXCEPT ![n] = @ \ {connections[n].attempt}]
\* Mutant: every report of the open channel is passed on (on instead of once).
EventsAfterEveryOpen(n) == peerEvents[n] + 1
EventsAfterOpen(n) == IF connections[n].open THEN peerEvents[n] ELSE peerEvents[n] + 1
EmitOpen(n) ==
    /\ Linked(n) /\ connections[n].connected
    /\ connections[n].open => ~IsOffering(n)
    /\ Becomes(n, [connections[n] EXCEPT !.open = TRUE, !.attempt = None, !.timer = FALSE])
    /\ pending' = Resolved(n)
    /\ peerEvents' = [peerEvents EXCEPT ![n] = EventsAfterOpen(n)]
    /\ UNCHANGED <<signals, links, stopped, lastId, routers, calls, lost>>

\* It fails, or breaks by itself or since the other end has closed.
Breaks(n) ==
    /\ Has(n) /\ connections[n].remote /\ Closed(n)
    /\ UNCHANGED <<signals, links, stopped, lastId, routers, calls, lost>>

ConnectionTimeout(n) ==
    /\ Has(n) /\ connections[n].timer /\ Closed(n)
    /\ UNCHANGED <<signals, links, stopped, lastId, routers, calls, lost>>

\* ping(): one too many without a pong closes the connection.
\* Mutant: pingAttempts is set back whenever a ping is sent.
PingUncounted(n) ==
    /\ IsOpen(n)
    /\ Becomes(n, [connections[n] EXCEPT !.pings = 0])
    /\ UNCHANGED <<pending, peerEvents, signals, links, stopped, lastId, routers, calls, lost>>
Ping(n) ==
    /\ IsOpen(n)
    /\ IF connections[n].pings >= MaxPingPongAttempts THEN Closed(n)
       ELSE /\ Becomes(n, [connections[n] EXCEPT !.pings = @ + 1])
            /\ UNCHANGED <<pending, peerEvents>>
    /\ UNCHANGED <<signals, links, stopped, lastId, routers, calls, lost>>
Pong(n) ==
    /\ IsOpen(n) /\ IsOpen(Other(n)) /\ connections[n].id = connections[Other(n)].id
    /\ connections[n].pings > 0
    /\ Becomes(n, [connections[n] EXCEPT !.pings = 0])
    /\ UNCHANGED <<pending, signals, links, peerEvents, stopped, lastId, routers, calls, lost>>

\* close(), when the node drops a neighbor or they share no protocol version.
Close(n) ==
    /\ Has(n) /\ calls < MaxCalls
    /\ Closed(n)
    /\ calls' = calls + 1
    /\ UNCHANGED <<signals, links, stopped, lastId, routers, lost>>

\* stop(): the listeners are gone before the connections are closed.
Stop(n) ==
    /\ n \notin stopped
    /\ stopped' = stopped \union {n}
    /\ IF Has(n) THEN Closed(n) /\ UNCHANGED routers ELSE Ignored
    /\ UNCHANGED <<signals, links, lastId, calls, lost>>

Next ==
    \/ \E n \in Nodes :
          \/ \E r \in Routers :
                \/ \E trackerInstructed \in BOOLEAN : Connect(n, r, trackerInstructed)
                \/ OnRtcOffer(n, r) \/ OnRtcAnswer(n, r) \/ OnConnect(n, r) \/ OnError(n, r)
                \/ LoseSignal(n, r)
          \/ Describe(n) \/ StateConnected(n) \/ EmitOpen(n) \/ Breaks(n)
          \/ ConnectionTimeout(n) \/ Ping(n) \/ Pong(n) \/ Close(n) \/ Stop(n)
    \/ LinkUp

\* The timers of the connections fire. Nothing is assumed of the network.
Fairness == \A n \in Nodes : WF_vars(ConnectionTimeout(n)) /\ WF_vars(Ping(n))
Spec == Init /\ [][Next]_vars
FairSpec == Spec /\ Fairness

TypeOK ==
    /\ connections \in [Nodes -> Connection \union {None}]
    /\ pending \in [Nodes -> SUBSET Nat]
    /\ signals \in [Nodes -> [Routers -> Seq(Signal)]] /\ routers \subseteq Routers
    /\ links \subseteq Nat /\ stopped \subseteq Nodes
    /\ peerEvents \in [Nodes -> Nat]
    /\ lastId \in Nat /\ calls \in Nat /\ lost \in Nat

\* The node hears of each connection that opens once, and that it is gone before
\* it hears of another: it takes a peer for connected exactly while it is.
EventsMatchConnections ==
    \A n \in Nodes : peerEvents[n] = IF IsOpen(n) THEN 1 ELSE 0

\* With one tracker and no signal lost, an answerer is never left with a
\* connection that the offerer has replaced while no offer for the new one is on
\* the way or to come.
AgreeOnceQuiet ==
    LET theirs == connections[Offerer] mine == connections[Answerer]
    IN  (lost = 0 /\ Cardinality(routers) = 1 /\ Has(Offerer) /\ Has(Answerer) /\ mine.id # NoId) =>
            \/ mine.id = theirs.id
            \/ ~theirs.described
            \/ \E i \in DOMAIN signals[Answerer][theirs.router] :
                  signals[Answerer][theirs.router][i] = [type |-> "offer", id |-> theirs.id]

\* Both: a node's idea of a connection is neither behind the connection nor
\* behind the other end.
EndsAgree == EventsMatchConnections /\ AgreeOnceQuiet

\* Every attempt is settled in the end.
EveryAttemptSettles == \A n \in Nodes : pending[n] # {} ~> pending[n] = {}

\* A connection whose other end is gone does not stay open, even when the network
\* never reports it.
HalfOpenCloses ==
    \A n \in Nodes : \A id \in 1..MaxCalls :
        (IsOpen(n) /\ connections[n].id = id /\ ~(Has(Other(n)) /\ connections[Other(n)].id = id))
            ~> ~(IsOpen(n) /\ connections[n].id = id)

\* Nobody waits for ever for a peer, neither to connect nor for its messages.
NoPeerHangs == EveryAttemptSettles /\ HalfOpenCloses
==================================================================================
