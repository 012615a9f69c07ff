------------------------------- MODULE Tracker ------------------------------
(***************************************************************************)
(* The tracker: an overlay for each stream, and the counters by which      *)
(* statuses are matched with instructions.  Tracker.ts and                 *)
(* InstructionCounter.ts in network/src/logic.                             *)
(*                                                                         *)
(* A status, or the disconnection of a node, is handled without yielding.  *)
(* Handling it makes calls of leaveAndCheckEmptyOverlay and of             *)
(* formInstructions, which are steps of their own here; the tracker is     *)
(* Idle between two events.                                                *)
(***************************************************************************)
EXTENDS Topology

CONSTANT Stream

\* A call of formInstructions between the turns of its loop.
Form == [node : Node, stream : Stream, targets : SUBSET Node, updated : SUBSET Node,
         old : UNION { [D -> SUBSET D] : D \in SUBSET Node }]

ASSUME NoFormAssumption == None \notin Form

VARIABLES
    overlayPerStream,
    counters,       \* the last counter sent to each node for each stream, 0 if none is kept
    leaving,        \* calls of leaveAndCheckEmptyOverlay still to be made: <<node, stream>>
    forcing,        \* forced calls of formInstructions for the neighbors of a node that left
    forming,        \* calls of formInstructions for the sender of the status, made last
    form            \* the call of formInstructions that is running

calls == <<leaving, forcing, forming, form>>
trackerVars == <<overlayPerStream, counters, calls>>

\* What a status says of a stream; a counter of -1 says that the node has left it.
Report == [neighbors : SUBSET Node, counter : Nat \cup {-1}]

Idle == leaving = {} /\ forcing = {} /\ forming = {} /\ form = None

Streams == DOMAIN overlayPerStream
OverlayOf(s) == IF s \in Streams THEN overlayPerStream[s] ELSE Nothing
Members(s) == IF s \in Streams THEN DOMAIN overlayPerStream[s] ELSE {}

TrackerInit ==
    /\ overlayPerStream = [s \in {} |-> Nothing]
    /\ counters = [n \in Node |-> [s \in Stream |-> 0]]
    /\ leaving = {} /\ forcing = {} /\ forming = {}
    /\ form = None

-----------------------------------------------------------------------------
(* The events.                                                             *)

\* InstructionCounter.filterStatus
Filtered(n, streams) ==
    { s \in DOMAIN streams : streams[s].counter >= counters[n][s] \/ streams[s].counter = -1 }

\* createNewOverlayTopologies, then update on the streams in `updating`.
OverlaysAfter(n, streams, updating) ==
    [s \in Streams \cup DOMAIN streams |->
        IF s \in updating THEN Updated(OverlayOf(s), n, streams[s].neighbors) ELSE OverlayOf(s)]

\* processNodeStatus, for a full status: the node leaves every stream it does not mention.
FullStatus(n, streams) ==
    /\ Idle
    /\ overlayPerStream' = OverlaysAfter(n, streams, Filtered(n, streams))
    /\ leaving' = {n} \X (Streams \ DOMAIN streams)
    /\ forming' = {n} \X DOMAIN streams
    /\ UNCHANGED <<counters, forcing, form>>

\* processNodeStatus, for a status of the one stream s.
StreamStatus(n, s, report) ==
    LET streams == [r \in {s} |-> report]
        left == report.counter = -1
    IN  /\ Idle
        /\ overlayPerStream' =
               OverlaysAfter(n, streams, IF left THEN {} ELSE Filtered(n, streams))
        /\ leaving' = IF left THEN {<<n, s>>} ELSE {}
        /\ forming' = {<<n, s>>}
        /\ UNCHANGED <<counters, forcing, form>>

\* onNodeDisconnected, removeNode
RemoveNode(n) ==
    /\ Idle
    /\ leaving' = {n} \X Streams
    /\ UNCHANGED <<overlayPerStream, counters, forcing, forming, form>>

-----------------------------------------------------------------------------
(* The calls they lead to.                                                 *)

\* Mutation: the links to the node stay.
AfterLeaveDeleted(t, n) == [m \in DOMAIN t \ {n} |-> t[m]]

\* The node need not be in the overlay.
AfterLeave(t, n) == IF n \in DOMAIN t THEN Left(t, n) ELSE t

IsEmpty(t) == DOMAIN t = {}

\* Mutation: the counters of the node are kept.
CountersAfterLeaveKept(n, s, t) ==
    [m \in Node |-> [r \in Stream |-> IF IsEmpty(t) /\ r = s THEN 0 ELSE counters[m][r]]]

\* instructionCounter.removeNode forgets the counters of all streams of the node, removeStream
\* those of the stream.
CountersAfterLeave(n, s, t) ==
    [m \in Node |-> [r \in Stream |->
        IF m = n \/ (IsEmpty(t) /\ r = s) THEN 0 ELSE counters[m][r]]]

\* leaveAndCheckEmptyOverlay, up to the calls for the old neighbors.
LeaveStream(n, s) ==
    LET t == overlayPerStream[s]
        after == AfterLeave(t, n)
    IN  /\ <<n, s>> \in leaving
        /\ forcing = {} /\ form = None
        /\ leaving' = leaving \ {<<n, s>>}
        /\ counters' = CountersAfterLeave(n, s, after)
        /\ overlayPerStream' =
               [r \in IF IsEmpty(after) THEN Streams \ {s} ELSE Streams |->
                   IF r = s THEN after ELSE overlayPerStream[r]]
        /\ forcing' = IF n \in DOMAIN t /\ ~ IsEmpty(after) THEN t[n] \X {s} ELSE {}
        /\ UNCHANGED <<forming, form>>

\* formInstructions starts; there are no instructions if the overlay, or the node in it, is gone.
StartsForming(n, s, force) ==
    /\ form = None
    /\ IF n \notin Members(s)
       THEN UNCHANGED <<overlayPerStream, form>>
       ELSE \E x \in Started(overlayPerStream[s], n, force) :
               /\ overlayPerStream' = [overlayPerStream EXCEPT ![s] = x.nodes]
               /\ form' = [node |-> n, stream |-> s, targets |-> x.targets,
                           updated |-> x.updated, old |-> overlayPerStream[s]]
    /\ UNCHANGED counters

FormForNeighbor(n, s) ==
    /\ <<n, s>> \in forcing
    /\ forcing' = forcing \ {<<n, s>>}
    /\ StartsForming(n, s, TRUE)
    /\ UNCHANGED <<leaving, forming>>

FormForSender(n, s) ==
    /\ forcing = {} /\ leaving = {}
    /\ <<n, s>> \in forming
    /\ forming' = forming \ {<<n, s>>}
    /\ StartsForming(n, s, FALSE)
    /\ UNCHANGED <<leaving, forcing>>

\* The loop of formInstructions.
Rewiring ==
    /\ form # None
    /\ Missing(overlayPerStream[form.stream], form.node) > 1
    /\ form.targets # {}

RewireOverlay ==
    /\ Rewiring
    /\ \E n1 \in form.targets :
         \E x \in Turned(overlayPerStream[form.stream], form.node, n1, form.targets, form.updated) :
            /\ overlayPerStream' = [overlayPerStream EXCEPT ![form.stream] = x.nodes]
            /\ form' = [form EXCEPT !.targets = x.targets, !.updated = x.updated]
    /\ UNCHANGED <<counters, leaving, forcing, forming>>

\* Its end: the instruction for each node is given its counter (setOrIncrement) and sent.
Sending == form # None /\ ~ Rewiring

CounterFor(n) == counters[n][form.stream] + 1

InstructionFor(n) ==
    [stream |-> form.stream, nodeIds |-> overlayPerStream[form.stream][n], counter |-> CounterFor(n)]

SendInstructions ==
    /\ Sending
    /\ counters' = [n \in Node |->
           IF n \in form.updated THEN [counters[n] EXCEPT ![form.stream] = CounterFor(n)]
           ELSE counters[n]]
    /\ form' = None
    /\ UNCHANGED <<overlayPerStream, leaving, forcing, forming>>

\* The steps between two events.
TrackerCalls ==
    \/ \E n \in Node, s \in Stream :
         \/ LeaveStream(n, s)
         \/ FormForNeighbor(n, s)
         \/ FormForSender(n, s)
    \/ RewireOverlay

-----------------------------------------------------------------------------
(* Properties.                                                             *)

TrackerTypeOK ==
    /\ Streams \subseteq Stream
    /\ \A s \in Streams : IsTopology(overlayPerStream[s])
    /\ counters \in [Node -> [Stream -> Nat]]
    /\ leaving \in SUBSET (Node \X Stream)
    /\ forcing \in SUBSET (Node \X Stream)
    /\ forming \in SUBSET (Node \X Stream)
    /\ form \in Form \cup {None}
    /\ form # None =>
         /\ form.stream \in Streams
         /\ form.node \in Members(form.stream)
         /\ form.targets \subseteq Members(form.stream)
         /\ form.updated \subseteq Members(form.stream)

\* An overlay goes away with its last node, whatever order statuses and disconnections come in:
\* no status leaves an overlay behind that nobody will ever leave.  This rests on the counters,
\* since a filtered report does not put its sender into the overlay made for it.
NoEmptyOverlay == Idle => \A s \in Streams : Members(s) # {}

\* The counter of a node for a stream is kept no longer than the node is in the overlay: a node
\* that comes back starts afresh and is listened to.
CountersOfMembers == \A n \in Node, s \in Stream : counters[n][s] # 0 => n \in Members(s)

\* What the tracker keeps goes away with the memberships it is about: overlays with their last
\* node, counters with their node, whatever statuses and disconnections cross.
TablesFollowMembers == NoEmptyOverlay /\ CountersOfMembers
=============================================================================
