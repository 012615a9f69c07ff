---------------------------- MODULE TrackerAlone ----------------------------
(***************************************************************************)
(* The tracker with nodes that report anything at any time, and the        *)
(* promise that it keeps for each stream: that of OverlayTopology.         *)
(***************************************************************************)
EXTENDS Tracker

CONSTANTS
    MaxCounter,     \* bound: no status once a counter has reached it
    Interested      \* bound: the streams a node may be in: <<node, stream>>

ASSUME BoundsAssumption == MaxCounter \in Nat /\ Interested \subseteq Node \X Stream

StreamsOf(n) == { s \in Stream : <<n, s>> \in Interested }

Counted == [neighbors : SUBSET Node, counter : 0 .. MaxCounter]
HasLeft == [neighbors |-> {}, counter |-> -1]

Status(n) ==
    /\ \A m \in Node, s \in Stream : counters[m][s] < MaxCounter
    /\ \/ \E S \in SUBSET StreamsOf(n) : \E streams \in [S -> Counted] : FullStatus(n, streams)
       \/ \E s \in StreamsOf(n) : \E report \in Counted \cup {HasLeft} : StreamStatus(n, s, report)

TrackerNext == (\E n \in Node : Status(n) \/ RemoveNode(n)) \/ TrackerCalls \/ SendInstructions

TrackerSpec == TrackerInit /\ [][TrackerNext]_trackerVars

-----------------------------------------------------------------------------
(* What the tracker does to the overlay of each stream is what             *)
(* OverlayTopology allows, so that its invariants hold of every stream: an *)
(* overlay that is not there is one without nodes.                         *)

FormIn(s) == form # None /\ form.stream = s

Overlay(s) == INSTANCE OverlayTopology WITH
    nodes <- OverlayOf(s),
    caller <- IF FormIn(s) THEN form.node ELSE None,
    targets <- IF FormIn(s) THEN form.targets ELSE {},
    updated <- IF FormIn(s) THEN form.updated ELSE {},
    old <- IF FormIn(s) THEN form.old ELSE Nothing

\* Tracker.updateNode, leaveAndCheckEmptyOverlay and formAndSendInstructions use the overlays as
\* OverlayTopology means them to be used, however statuses of several streams and the
\* disconnections of nodes make overlays come and go.
OverlaysAreTopologies ==
    /\ \A s \in Stream : Overlay(s)!Init
    /\ [][\A s \in Stream : Overlay(s)!Next \/ UNCHANGED Overlay(s)!vars]_trackerVars
=============================================================================
