--------------------------- MODULE TrackerNetwork ---------------------------
(***************************************************************************)
(* A tracker and its nodes: statuses one way, instructions the other, over *)
(* sockets that break, and user calls at the nodes.  Node.ts,              *)
(* InstructionThrottler.ts and InstructionRetryManager.ts in               *)
(* network/src/logic, and the connections of AbstractWsEndpoint.ts.        *)
(*                                                                         *)
(* All connections of a handler settle together here; NodeInstructions has *)
(* the details of one node.  The tracker handles an event without          *)
(* yielding, so nothing else happens unless it is Idle.                    *)
(***************************************************************************)
EXTENDS Tracker, Sequences

CONSTANT MaxFaults  \* bound: how often connections fail or break and users unsubscribe

ASSUME MaxFaultsAssumption == MaxFaults \in Nat

Instruction == [stream : Stream, nodeIds : SUBSET Node, counter : Nat \ {0}]

\* What InstructionRetryManager keeps until its timer fires.
Retry == [instruction : Instruction, again : BOOLEAN]

ASSUME NoInstructionAssumption == None \notin Instruction /\ None \notin Retry

VARIABLES
    node,           \* what each node keeps of each stream
    up,             \* the nodes whose socket to the tracker is open
    known,          \* the nodes in the tracker's connectionById
    stale,          \* the nodes with an older socket the tracker has not seen close
    toTracker,      \* statuses on their way
    toNode,         \* instructions on their way
    faults,         \* history: faults so far
    disturbed,      \* history: a socket broke, or an instruction met a stream that was removed or
                    \* a handler that outlived its stream or its timer
    lastSent        \* history: the last counter sent to each member of an overlay

sockets == <<up, known, stale>>
channels == <<toTracker, toNode>>
history == <<faults, disturbed, lastSent>>
networkVars == <<trackerVars, node, sockets, channels, history>>

\* A stream that is not set up: its entries in the StreamManager, the throttler and the retry
\* manager.
Blank ==
    [isSetUp |-> FALSE, neighbors |-> {}, counter |-> 0, seen |-> 0, queue |-> None,
     retry |-> None, handlers |-> {}]

NoneSent == [n \in Node |-> [s \in Stream |-> 0]]

NetworkInit ==
    /\ TrackerInit
    /\ node = [n \in Node |-> [s \in Stream |-> Blank]]
    /\ up = {} /\ known = {} /\ stale = {}
    /\ toTracker = [n \in Node |-> <<>>] /\ toNode = [n \in Node |-> <<>>]
    /\ faults = 0 /\ disturbed = FALSE /\ lastSent = NoneSent

-----------------------------------------------------------------------------
(* Statuses.                                                               *)

ReportOf(e) ==
    [neighbors |-> e.neighbors, counter |-> IF e.isSetUp THEN e.counter ELSE -1]

StatusOf(entries, s) == [single |-> TRUE, streams |-> [r \in {s} |-> ReportOf(entries[s])]]

FullStatusOf(entries) ==
    [single |-> FALSE,
     streams |-> [s \in { r \in Stream : entries[r].isSetUp } |-> ReportOf(entries[s])]]

\* sendStatus: without a socket the status is lost.
Sent(n, statuses) == IF n \in up THEN toTracker[n] \o statuses ELSE toTracker[n]

Fails == faults < MaxFaults /\ faults' = faults + 1

-----------------------------------------------------------------------------
(* Nodes.                                                                  *)

\* handleTrackerInstruction up to its await.
Begun(e, i, reattempt, by) ==
    [e EXCEPT
        !.isSetUp = TRUE,
        !.neighbors = @ \cap i.nodeIds,
        !.retry = [instruction |-> i, again |-> FALSE],
        !.handlers = @ \cup {[instruction |-> i, reattempt |-> reattempt, by |-> by]}]

Busy(e) == \E h \in e.handlers : h.by = "throttler"

\* A handler without connections to wait for ends before anything else happens at the node.
NextTask(n) == \A s \in Stream : \A h \in node[n][s].handlers : h.instruction.nodeIds # {}

\* InstructionThrottler.add
Accepts(e, i) == e.seen = 0 \/ e.seen <= i.counter

ReceiveInstruction(n) ==
    LET i == Head(toNode[n])
        s == i.stream
        e == [node[n][s] EXCEPT !.seen = i.counter]
    IN  /\ Idle /\ NextTask(n)
        /\ toNode[n] # <<>>
        /\ toNode' = [toNode EXCEPT ![n] = Tail(@)]
        /\ node' = IF ~ Accepts(node[n][s], i) THEN node
                   ELSE [node EXCEPT ![n][s] =
                            IF Busy(e) THEN [e EXCEPT !.queue = i]
                            ELSE Begun(e, i, FALSE, "throttler")]
        /\ disturbed' = (disturbed \/ (Accepts(node[n][s], i) /\ ~ Busy(node[n][s])
                                       /\ (~ node[n][s].isSetUp \/ node[n][s].handlers # {})))
        /\ UNCHANGED <<trackerVars, sockets, toTracker, faults, lastSent>>

\* Mutation: the counter of the instruction is not kept.
EndedUncounted(e, h, failed) ==
    IF e.isSetUp
    THEN [e EXCEPT !.neighbors = @ \cup (h.instruction.nodeIds \ failed), !.handlers = @ \ {h}]
    ELSE [e EXCEPT !.handlers = @ \ {h}]

\* What follows the await.  A stream that was removed meanwhile gets neither neighbors nor
\* counter.
Ended(e, h, failed) ==
    IF e.isSetUp
    THEN [e EXCEPT !.neighbors = @ \cup (h.instruction.nodeIds \ failed),
                   !.counter = h.instruction.counter,
                   !.handlers = @ \ {h}]
    ELSE [e EXCEPT !.handlers = @ \ {h}]

\* Mutation: the instruction in the queue waits for another one to come.
ContinuedUnqueued(e, h) ==
    IF h.by = "retry" /\ e.retry # None
    THEN [e EXCEPT !.retry = [instruction |-> h.instruction, again |-> TRUE]]
    ELSE e

\* The throttler goes on with the instruction in its queue; the retry manager arms its timer.
Continued(e, h) ==
    CASE h.by = "throttler" /\ e.queue # None ->
            Begun([e EXCEPT !.queue = None], e.queue, FALSE, "throttler")
      [] h.by = "retry" /\ e.retry # None ->
            [e EXCEPT !.retry = [instruction |-> h.instruction, again |-> TRUE]]
      [] OTHER -> e

HandlerEnds(n, s, failed) ==
    \E h \in node[n][s].handlers :
        LET e == Ended(node[n][s], h, failed)
            reports == ~ h.reattempt \/ failed # {} \/ ~ e.isSetUp
        IN  /\ Idle
            /\ failed \subseteq h.instruction.nodeIds
            /\ node' = [node EXCEPT ![n][s] = Continued(e, h)]
            /\ toTracker' = IF reports
                            THEN [toTracker EXCEPT ![n] =
                                     Sent(n, <<StatusOf([node[n] EXCEPT ![s] = e], s)>>)]
                            ELSE toTracker
            /\ IF failed = {} THEN UNCHANGED faults ELSE Fails
            /\ UNCHANGED <<trackerVars, sockets, toNode, disturbed, lastSent>>

\* retryFunction; no handler of the stream is in flight when its timer fires.
RetryFires(n, s) ==
    LET e == node[n][s]
    IN  /\ Idle /\ NextTask(n)
        /\ e.retry # None /\ e.handlers = {}
        /\ node' = [node EXCEPT ![n][s] = Begun(e, e.retry.instruction, e.retry.again, "retry")]
        /\ UNCHANGED <<trackerVars, sockets, channels, history>>

Subscribe(n, s) ==
    LET entries == [node[n] EXCEPT ![s].isSetUp = TRUE]
    IN  /\ Idle /\ NextTask(n)
        /\ ~ node[n][s].isSetUp
        /\ node' = [node EXCEPT ![n] = entries]
        /\ toTracker' = [toTracker EXCEPT ![n] = Sent(n, <<StatusOf(entries, s)>>)]
        /\ UNCHANGED <<trackerVars, sockets, toNode, history>>

\* The throttler forgets the stream and the promise of its handler is cancelled; the handler
\* goes on.
Unsubscribe(n, s) ==
    LET cancelled == { IF h.by = "throttler" THEN [h EXCEPT !.by = "cancelled"] ELSE h :
                         h \in node[n][s].handlers }
        entries == [node[n] EXCEPT ![s] = [Blank EXCEPT !.handlers = cancelled]]
    IN  /\ Idle /\ NextTask(n)
        /\ node[n][s].isSetUp
        /\ Fails
        /\ node' = [node EXCEPT ![n] = entries]
        /\ toTracker' = [toTracker EXCEPT ![n] = Sent(n, <<StatusOf(entries, s)>>)]
        /\ UNCHANGED <<trackerVars, sockets, toNode, disturbed, lastSent>>

\* onNodeDisconnected, at both ends of the connection of m and n.
Without(entries, p) == [s \in Stream |-> [entries[s] EXCEPT !.neighbors = @ \ {p}]]

ConnectionLost(m, n) ==
    LET other(k) == IF k = m THEN n ELSE m
        loses(k) == k \in {m, n} /\ Without(node[k], other(k)) # node[k]
    IN  /\ Idle /\ NextTask(m) /\ NextTask(n)
        /\ m # n
        /\ loses(m) \/ loses(n)
        /\ Fails
        /\ node' = [k \in Node |-> IF loses(k) THEN Without(node[k], other(k)) ELSE node[k]]
        /\ toTracker' = [k \in Node |->
                            IF loses(k) THEN Sent(k, <<FullStatusOf(Without(node[k], other(k)))>>)
                            ELSE toTracker[k]]
        /\ UNCHANGED <<trackerVars, sockets, toNode, disturbed, lastSent>>

-----------------------------------------------------------------------------
(* Sockets.                                                                *)

\* onNewConnection at both ends; the node sends a full status.
Connect(n) ==
    /\ Idle
    /\ n \notin up
    /\ up' = up \cup {n}
    /\ known' = known \cup {n}
    /\ toTracker' = [toTracker EXCEPT ![n] = <<FullStatusOf(node[n])>>]
    /\ UNCHANGED <<trackerVars, node, stale, toNode, history>>

\* The socket breaks, and all that is on its way is lost.  The tracker notices later, perhaps
\* when the node has a new socket.
Disconnect(n) ==
    /\ Idle
    /\ n \in up
    /\ n \notin stale
    /\ Fails
    /\ up' = up \ {n}
    /\ stale' = stale \cup {n}
    /\ toTracker' = [toTracker EXCEPT ![n] = <<>>]
    /\ toNode' = [toNode EXCEPT ![n] = <<>>]
    /\ disturbed' = TRUE
    /\ UNCHANGED <<trackerVars, node, known, lastSent>>

\* onClose forgets the peer's connection, be it the one that closed or a newer one.
KnownAfterClose(n) == known \ {n}

NoticeClose(n) ==
    /\ n \in stale
    /\ stale' = stale \ {n}
    /\ known' = KnownAfterClose(n)
    /\ RemoveNode(n)
    /\ UNCHANGED <<node, up, channels, history>>

-----------------------------------------------------------------------------
(* The tracker.                                                            *)

ReceiveStatus(n) ==
    LET status == Head(toTracker[n])
    IN  /\ toTracker[n] # <<>>
        /\ toTracker' = [toTracker EXCEPT ![n] = Tail(@)]
        /\ IF status.single
           THEN \E s \in DOMAIN status.streams : StreamStatus(n, s, status.streams[s])
           ELSE FullStatus(n, status.streams)
        /\ UNCHANGED <<node, sockets, toNode, history>>

\* An instruction for a node the tracker has no connection to is lost, and so is one that goes
\* to a broken socket.
Send ==
    /\ SendInstructions
    /\ toNode' = [n \in Node |->
           IF n \in form.updated \cap known \cap up THEN Append(toNode[n], InstructionFor(n))
           ELSE toNode[n]]
    /\ lastSent' = [n \in Node |->
           IF n \in form.updated THEN [lastSent[n] EXCEPT ![form.stream] = CounterFor(n)]
           ELSE lastSent[n]]
    /\ UNCHANGED <<node, sockets, toTracker, faults, disturbed>>

\* The other calls it makes.  A node that leaves an overlay is sent nothing any more.
Calls ==
    /\ TrackerCalls
    /\ lastSent' = [n \in Node |-> [s \in Stream |->
           IF n \in Members(s)' THEN lastSent[n][s] ELSE 0]]
    /\ UNCHANGED <<node, sockets, channels, faults, disturbed>>

NetworkNext ==
    \/ \E n \in Node :
         \/ ReceiveInstruction(n)
         \/ \E s \in Stream : \/ \E failed \in SUBSET Node : HandlerEnds(n, s, failed)
                              \/ RetryFires(n, s)
                              \/ Subscribe(n, s)
                              \/ Unsubscribe(n, s)
         \/ \E m \in Node : ConnectionLost(m, n)
         \/ Connect(n)
         \/ Disconnect(n)
         \/ NoticeClose(n)
         \/ ReceiveStatus(n)
    \/ Send
    \/ Calls

\* Messages arrive, connections settle (promiseTimeout), broken sockets are noticed (by pings)
\* and opened again (connectToBootstrapTrackersInterval).
NetworkFairness ==
    /\ WF_networkVars(Send) /\ WF_networkVars(Calls)
    /\ \A n \in Node :
         /\ SF_networkVars(ReceiveInstruction(n)) /\ WF_networkVars(ReceiveStatus(n))
         /\ WF_networkVars(Connect(n)) /\ WF_networkVars(NoticeClose(n))
         /\ \A s \in Stream : WF_networkVars(\E failed \in SUBSET Node : HandlerEnds(n, s, failed))

NetworkSpec == NetworkInit /\ [][NetworkNext]_networkVars /\ NetworkFairness

-----------------------------------------------------------------------------
(* Properties.                                                             *)

Handler == [instruction : Instruction, reattempt : BOOLEAN, by : {"throttler", "retry", "cancelled"}]

EntryOK(e) ==
    /\ e.isSetUp \in BOOLEAN /\ e.neighbors \subseteq Node
    /\ e.counter \in Nat /\ e.seen \in Nat
    /\ e.queue # None => e.queue \in Instruction
    /\ e.retry # None => e.retry \in Retry
    /\ e.handlers \subseteq Handler

NetworkTypeOK ==
    /\ TrackerTypeOK
    /\ \A n \in Node, s \in Stream : EntryOK(node[n][s])
    /\ up \subseteq Node /\ known \subseteq Node /\ stale \subseteq Node
    /\ \A n \in Node :
         /\ \A k \in DOMAIN toNode[n] : toNode[n][k] \in Instruction
         /\ \A k \in DOMAIN toTracker[n] : \A s \in DOMAIN toTracker[n][k].streams :
                s \in Stream /\ toTracker[n][k].streams[s] \in Report
    /\ faults \in 0 .. MaxFaults /\ disturbed \in BOOLEAN
    /\ lastSent \in [Node -> [Stream -> Nat]]

\* "NET-36: tracker receiving status with old counter should not affect topology"
\* (counter-filtering-in-tracker.test.ts): what a node says of a stream before it has handled
\* the last instruction sent to it since it joined is not believed.  True while there is one
\* stream only: counters are dropped for all streams at once.
OldReportsAreIgnored ==
    \A n \in Node : toTracker[n] # <<>> /\ Idle =>
        LET streams == Head(toTracker[n]).streams
        IN  \A s \in DOMAIN streams :
                streams[s].counter \in 0 .. lastSent[n][s] - 1 => s \notin Filtered(n, streams)

\* The tracker's overlay is what the node has, and the tracker listens to what it says of it.
InSync(n, s) ==
    IF node[n][s].isSetUp
    THEN /\ n \in Members(s)
         /\ node[n][s].neighbors = overlayPerStream[s][n]
         /\ node[n][s].counter >= counters[n][s]
    ELSE n \notin Members(s)

\* Nothing is on its way and no connection is waited for.
Quiet ==
    /\ Idle
    /\ \A n \in Node : toTracker[n] = <<>> /\ toNode[n] = <<>>
                        /\ \A s \in Stream : node[n][s].handlers = {}

\* While nothing has failed, nobody has unsubscribed, and no retry has crossed with a newer
\* instruction, whatever order subscriptions, connections, statuses and instructions come in: a
\* network at rest is one in which tracker and nodes agree.
AgreesAtRest ==
    Quiet /\ faults = 0 /\ ~ disturbed => \A n \in up, s \in Stream : InSync(n, s)

\* In the end they agree although a connection has failed or a user has unsubscribed, unless the
\* network has been disturbed.  So it is with two nodes and one fault; two faults, or one among
\* three nodes, may leave a link that only one of its ends knows of.
Converges == <>[](disturbed \/ \A n \in Node, s \in Stream : InSync(n, s))
=============================================================================
