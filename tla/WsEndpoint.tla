------------------------------- MODULE WsEndpoint -------------------------------
(***************************************************************************)
(* A node's WebSocket connection with a tracker (src/packages/network/src/ *)
(* connection/ws). Both ends are endpoints with a table of connections by  *)
(* peer id; the node's opens the sockets, the tracker's accepts them. A    *)
(* socket is in neither table before its handshake: the tracker says       *)
(* hello, the node replies. Closing a socket takes effect later, by its    *)
(* 'close' event, which comes at each end in its own time; meanwhile the   *)
(* node may have opened another one. A broken socket is silent: only pings *)
(* and handshake timers tell. What the ws library and TCP do is external.  *)
(***************************************************************************)
EXTENDS Naturals, FiniteSets

CONSTANTS Sockets,    \* bound: sockets that exist side by side; closed ones are used again
          MaxFaults,  \* bound: sockets that break, fail to open or are slower than a timer,
                      \* and ends that stop
          None

Ends == {"node", "tracker"}
Peer(e) == IF e = "node" THEN "tracker" ELSE "node"

VARIABLES
    ready,        \* end |-> socket |-> readyState, where "terminated" waits for its 'close' event
    mail,         \* handshake messages on the way
    setUp,        \* end |-> sockets that have become a connection
    table,        \* end |-> the socket of the other end in connectionById
    byUrl,        \* the node's connectionsByServerUrl
    pending,      \* the socket of pendingConnections: its promise is not settled
    timers,       \* sockets whose handshake timer runs at the node
    timerRef,     \* the node's handshakeTimeoutRefs of the tracker
    uuids,        \* sockets whose handshake timer runs at the tracker
    awaiting,     \* end |-> sockets whose last ping was not answered (respondedPong is false)
    browser,      \* the node runs in a browser, which can neither ping nor terminate
    stopped,      \* ends that have stopped
    broken,       \* sockets that carry nothing any more
    faults,
    crossed,      \* history: a connection was removed or replaced by another socket's event
    robbed        \* history: a handshake cleared another socket's timer

vars == <<ready, mail, setUp, table, byUrl, pending, timers, timerRef, uuids, awaiting,
          browser, stopped, broken, faults, crossed, robbed>>

State == {"none", "connecting", "open", "closing", "terminated", "closed"}
TypeOK ==
    /\ ready \in [Ends -> [Sockets -> State]]
    /\ mail \subseteq {"hello", "reply"} \X Sockets
    /\ setUp \in [Ends -> SUBSET Sockets] /\ table \in [Ends -> Sockets \union {None}]
    /\ {byUrl, pending, timerRef} \subseteq Sockets \union {None}
    /\ timers \subseteq Sockets /\ uuids \subseteq Sockets
    /\ awaiting \in [Ends -> SUBSET Sockets]
    /\ browser \in BOOLEAN /\ stopped \subseteq Ends
    /\ broken \subseteq Sockets /\ faults \in 0..MaxFaults
    /\ crossed \in BOOLEAN /\ robbed \in BOOLEAN

\* Ends that are down from the start take no part in what happens.
Starts(down) ==
    /\ ready = [e \in Ends |-> [s \in Sockets |-> "closed"]]
    /\ mail = {} /\ setUp = [e \in Ends |-> {}] /\ table = [e \in Ends |-> None]
    /\ byUrl = None /\ pending = None /\ timers = {} /\ timerRef = None /\ uuids = {}
    /\ awaiting = [e \in Ends |-> {}]
    /\ browser \in BOOLEAN /\ stopped = down /\ broken = {} /\ faults = 0
    /\ crossed = FALSE /\ robbed = FALSE
Init == Starts({})

----------------------------------------------------------------------------
(***************************************************************************)
(* Sockets.                                                                *)
(***************************************************************************)
Receives(e, s) == ready[e][s] \in {"open", "closing"} /\ s \notin broken
Becomes(e, s, state) == ready' = [ready EXCEPT ![e][s] = state]
\* socket.close() and socket.terminate(); a browser's terminate() is a close().
AfterClose(e, s) == IF ready[e][s] = "open" THEN "closing" ELSE ready[e][s]
AfterTerminate(e, s) ==
    IF ready[e][s] = "closed" THEN "closed"
    ELSE IF e = "node" /\ browser THEN AfterClose(e, s) ELSE "terminated"

\* What costs a fault: something that would still come is not waited for.
Costs(early) == (early => faults < MaxFaults) /\ faults' = faults + (IF early THEN 1 ELSE 0)

\* The attempt is over, if it still was in progress.
\* Mutant: it stays in pendingConnections.
SettledNever(s) == pending
Settled(s) == IF pending = s THEN None ELSE pending

Free(s) == /\ \A e \in Ends : ready[e][s] = "closed"
           /\ s \notin timers \union uuids /\ s \notin {timerRef, byUrl}
           /\ \A e \in Ends : table[e] # s

(***************************************************************************)
(* The node calls connect() at once and every five seconds. It returns     *)
(* when the connection it has is open; one that is not is closed. Then it  *)
(* returns the attempt in progress, or makes one.                          *)
(***************************************************************************)
ConnectNeeded == byUrl # None => ready["node"][byUrl] # "open"
ConnectPossible == pending = None
Connect(s) ==
    /\ "node" \notin stopped
    /\ ConnectNeeded /\ ConnectPossible
    /\ Free(s) /\ s = CHOOSE t \in Sockets : Free(t)
    /\ ready' = [e \in Ends |-> [ready[e] EXCEPT ![s] = IF e = "node" THEN "connecting" ELSE "none"]]
    /\ pending' = s
    /\ mail' = {m \in mail : m[2] # s}
    /\ setUp' = [e \in Ends |-> setUp[e] \ {s}]
    /\ awaiting' = [e \in Ends |-> awaiting[e] \ {s}]
    /\ broken' = broken \ {s}
    /\ UNCHANGED <<table, byUrl, timers, timerRef, uuids, browser, stopped, faults, crossed, robbed>>

\* The tracker's server has a new socket: it says hello and starts a timer.
ServerAccepts(s) ==
    /\ ready["node"][s] = "connecting" /\ ready["tracker"][s] = "none"
    /\ "tracker" \notin stopped /\ s \notin broken
    /\ Becomes("tracker", s, "open")
    /\ mail' = mail \union {<<"hello", s>>}
    /\ uuids' = uuids \union {s}
    /\ UNCHANGED <<setUp, table, byUrl, pending, timers, timerRef, awaiting, browser, stopped,
                   broken, faults, crossed, robbed>>

\* 'open' at the node: handshakeInit starts the timer; its reference goes
\* where that of any other socket to this tracker was.
\* Mutant: no second timer while there is a reference to a first one.
HandshakeInitOnce(s) == IF timerRef # None THEN timers ELSE timers \union {s}
HandshakeInit(s) == timers \union {s}
SocketOpens(s) ==
    /\ ready["node"][s] = "connecting" /\ ready["tracker"][s] # "none" /\ s \notin broken
    /\ Becomes("node", s, "open")
    /\ timers' = HandshakeInit(s) /\ timerRef' = s
    /\ UNCHANGED <<mail, setUp, table, byUrl, pending, uuids, awaiting, browser, stopped,
                   broken, faults, crossed, robbed>>

\* 'error' and 'close' before 'open'.
ConnectFails(s) ==
    /\ ready["node"][s] = "connecting"
    /\ Costs(s \notin broken /\ "tracker" \notin stopped /\ ready["tracker"][s] \in {"none", "open"})
    /\ ready' = [e \in Ends |->
           [ready[e] EXCEPT ![s] = IF e = "node" \/ @ = "none" THEN "closed" ELSE @]]
    /\ pending' = Settled(s)
    /\ UNCHANGED <<mail, setUp, table, byUrl, timers, timerRef, uuids, awaiting, browser,
                   stopped, broken, crossed, robbed>>

----------------------------------------------------------------------------
(***************************************************************************)
(* The handshake. clearHandshake() at the node clears the timer under the  *)
(* tracker's id, whichever socket started it. onNewConnection puts the     *)
(* connection into the table unless the endpoint has stopped.              *)
(***************************************************************************)
Added(e, s) == IF e \in stopped THEN table[e] ELSE s
Crosses(e, s) == crossed' = (crossed \/ table[e] \notin {s, None})

HandshakeArrives(s) ==
    /\ <<"hello", s>> \in mail /\ Receives("node", s)
    /\ timers' = timers \ {timerRef} /\ timerRef' = None
    /\ robbed' = (robbed \/ timerRef \in timers \ {s})
    /\ mail' = (mail \ {<<"hello", s>>}) \union
                   (IF ready["node"][s] = "open" THEN {<<"reply", s>>} ELSE {})
    /\ setUp' = [setUp EXCEPT !["node"] = @ \union {s}]
    /\ byUrl' = s
    /\ table' = [table EXCEPT !["node"] = Added("node", s)]
    /\ pending' = Settled(s)
    /\ Crosses("node", s)
    /\ UNCHANGED <<ready, uuids, awaiting, browser, stopped, broken, faults>>

HandshakeTimeout(s) ==
    /\ s \in timers
    /\ Costs(<<"hello", s>> \in mail /\ Receives("node", s))
    /\ Becomes("node", s, AfterClose("node", s))
    /\ timers' = timers \ {s} /\ timerRef' = None
    /\ pending' = Settled(s)
    /\ UNCHANGED <<mail, setUp, table, byUrl, uuids, awaiting, browser, stopped, broken,
                   crossed, robbed>>

\* The tracker knows the socket by its uuid.
ReplyArrives(s) ==
    /\ <<"reply", s>> \in mail /\ Receives("tracker", s)
    /\ mail' = mail \ {<<"reply", s>>}
    /\ uuids' = uuids \ {s}
    /\ setUp' = [setUp EXCEPT !["tracker"] = @ \union {s}]
    /\ table' = [table EXCEPT !["tracker"] = Added("tracker", s)]
    /\ Crosses("tracker", s)
    /\ UNCHANGED <<ready, byUrl, pending, timers, timerRef, awaiting, browser, stopped, broken,
                   faults, robbed>>

ServerHandshakeTimeout(s) ==
    /\ s \in uuids
    /\ Costs(Receives("tracker", s) /\ ready["node"][s] \in {"connecting", "open"})
    /\ Becomes("tracker", s, AfterTerminate("tracker", s))
    /\ uuids' = uuids \ {s}
    /\ UNCHANGED <<mail, setUp, table, byUrl, pending, timers, timerRef, awaiting, browser,
                   stopped, broken, crossed, robbed>>

----------------------------------------------------------------------------
(***************************************************************************)
(* Connections. onClose removes the connection of the peer, whichever      *)
(* socket it is of; the node's doClose does the same to its own map. A     *)
(* socket that was not set up only rejects its promise.                    *)
(***************************************************************************)
GoneAtThePeer(e, s) ==
    ready[Peer(e)][s] \in {"closing", "terminated", "closed"} /\ s \notin broken

Emptied(e, s) == IF s \in setUp[e] THEN None ELSE table[e]
Forgotten(e, s) == IF e = "node" /\ s \in setUp[e] THEN None ELSE byUrl
SocketCloses(e, s) ==
    /\ \/ ready[e][s] \in {"closing", "terminated"}
       \/ ready[e][s] = "open" /\ GoneAtThePeer(e, s)
    /\ Becomes(e, s, "closed")
    /\ table' = [table EXCEPT ![e] = Emptied(e, s)]
    /\ byUrl' = Forgotten(e, s)
    /\ pending' = IF e = "node" THEN Settled(s) ELSE pending
    /\ IF s \in setUp[e] THEN Crosses(e, s) ELSE UNCHANGED crossed
    /\ UNCHANGED <<mail, setUp, timers, timerRef, uuids, awaiting, browser, stopped, broken,
                   faults, robbed>>

(***************************************************************************)
(* PingPongWs, every five seconds: who did not answer the last ping is     *)
(* terminated. A socket answers by itself; a browser's ping is a text that *)
(* the tracker answers over the connection its table has for the node.     *)
(***************************************************************************)
Answers(e, s) ==
    /\ ready[Peer(e)][s] = "open" /\ Receives(e, s)
    /\ e = "node" /\ browser => table["tracker"] = s

WillAnswer(e, s) ==
    Answers(e, s) \/ (<<"reply", s>> \in mail /\ Receives("tracker", s) /\ Receives(e, s))

\* Mutant: whoever is silent is asked again and again.
UnansweredNever(e, s) == FALSE
Unanswered(e, s) == s \in awaiting[e]

PingConnections(e) ==
    /\ e \notin stopped /\ table[e] # None
    /\ IF Unanswered(e, table[e])
       THEN /\ Costs(WillAnswer(e, table[e]))
            /\ Becomes(e, table[e], AfterTerminate(e, table[e]))
            /\ UNCHANGED awaiting
       ELSE /\ awaiting' = [awaiting EXCEPT ![e] = @ \union {table[e]}]
            /\ UNCHANGED <<ready, faults>>
    /\ UNCHANGED <<mail, setUp, table, byUrl, pending, timers, timerRef, uuids, browser,
                   stopped, broken, crossed, robbed>>

PongArrives(e, s) ==
    /\ s \in awaiting[e] /\ Answers(e, s)
    /\ awaiting' = [awaiting EXCEPT ![e] = @ \ {s}]
    /\ UNCHANGED <<ready, mail, setUp, table, byUrl, pending, timers, timerRef, uuids, browser,
                   stopped, broken, faults, crossed, robbed>>

\* send() over a socket that is no longer open fails and terminates it.
SendFails(e) ==
    /\ e \notin stopped /\ table[e] # None /\ ready[e][table[e]] = "closing"
    /\ Becomes(e, table[e], AfterTerminate(e, table[e]))
    /\ UNCHANGED <<mail, setUp, table, byUrl, pending, timers, timerRef, uuids, awaiting,
                   browser, stopped, broken, faults, crossed, robbed>>

(***************************************************************************)
(* stop() of the node clears the timers it knows and closes the connection *)
(* in its table; a handshake in progress goes on. The tracker's terminates *)
(* every socket it has.                                                    *)
(***************************************************************************)
StopNode ==
    /\ timers' = timers \ {timerRef} /\ timerRef' = None
    /\ ready' = [ready EXCEPT !["node"] = [s \in Sockets |->
                     IF s = table["node"] THEN AfterClose("node", s) ELSE @[s]]]
    /\ UNCHANGED uuids
StopTracker ==
    /\ uuids' = {}
    /\ ready' = [ready EXCEPT !["tracker"] = [s \in Sockets |->
                     IF @[s] = "none" THEN "closed" ELSE AfterTerminate("tracker", s)]]
    /\ UNCHANGED <<timers, timerRef>>
Stop(e) ==
    /\ e \notin stopped /\ Costs(TRUE)
    /\ stopped' = stopped \union {e}
    /\ IF e = "node" THEN StopNode ELSE StopTracker
    /\ UNCHANGED <<mail, setUp, table, byUrl, pending, awaiting, browser, broken, crossed,
                   robbed>>

Break(s) ==
    /\ s \notin broken /\ ready["node"][s] # "closed" /\ Costs(TRUE)
    /\ broken' = broken \union {s}
    /\ UNCHANGED <<ready, mail, setUp, table, byUrl, pending, timers, timerRef, uuids, awaiting,
                   browser, stopped, crossed, robbed>>

Next ==
    \/ \E s \in Sockets :
           \/ Connect(s) \/ ServerAccepts(s) \/ SocketOpens(s) \/ ConnectFails(s)
           \/ HandshakeArrives(s) \/ HandshakeTimeout(s)
           \/ ReplyArrives(s) \/ ServerHandshakeTimeout(s) \/ Break(s)
           \/ \E e \in Ends : SocketCloses(e, s) \/ PongArrives(e, s)
    \/ \E e \in Ends : PingConnections(e) \/ SendFails(e) \/ Stop(e)

Spec == Init /\ [][Next]_vars

(***************************************************************************)
(* An attempt to open a socket ends; what is sent over an unbroken socket  *)
(* arrives; timers fire; a socket that is closing is closed (the library   *)
(* waits thirty seconds for the other side); the intervals run.            *)
(***************************************************************************)
Fairness ==
    /\ \A s \in Sockets :
           /\ WF_vars(Connect(s)) /\ WF_vars(ServerAccepts(s))
           /\ WF_vars(SocketOpens(s) \/ ConnectFails(s))
           /\ WF_vars(HandshakeArrives(s)) /\ WF_vars(HandshakeTimeout(s))
           /\ WF_vars(ReplyArrives(s)) /\ WF_vars(ServerHandshakeTimeout(s))
           /\ \A e \in Ends : WF_vars(SocketCloses(e, s)) /\ WF_vars(PongArrives(e, s))
    /\ \A e \in Ends : WF_vars(PingConnections(e))

FairSpec == Spec /\ Fairness

----------------------------------------------------------------------------
\* The promise of connect() is settled, since while it is not no other
\* attempt is made: unless the handshake of an earlier socket has cleared the
\* timer of this one, or the node has stopped. (AbstractClientWsEndpoint.connect)
EveryConnectSettles ==
    pending # None ~> pending = None \/ robbed \/ "node" \in stopped

\* A socket that has become silent does not stay in a table: an end that
\* has not stopped gives it up. (PingPongWs.pingConnections)
SilenceIsNoticed == <>[](\A e \in Ends \ stopped : table[e] \notin broken)

\* Nobody waits for ever, neither for a promise nor for a silent tracker or node.
NoSocketHangs == EveryConnectSettles /\ SilenceIsNoticed

\* Whatever breaks or comes late, in the end node and tracker have each
\* other in their tables, by the same socket: unless a late event of one
\* socket has been taken for one of another. (Node.connectToBootstrapTrackers,
\* AbstractWsEndpoint.onNewConnection and onClose)
Connected == table["node"] # None /\ table["node"] = table["tracker"]
NodeComesBack == <>[](Connected \/ crossed \/ robbed \/ stopped # {})

\* Not so: a node that has stopped is forgotten by the tracker. A handshake
\* in progress when it stops sets up a socket that nobody closes.
StoppedNodeIsForgotten == "node" \in stopped ~> table["tracker"] = None \/ "tracker" \in stopped
================================================================================
