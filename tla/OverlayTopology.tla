--------------------------- MODULE OverlayTopology --------------------------
(***************************************************************************)
(* The overlay a tracker keeps for one stream, and how it decides which    *)
(* nodes should be neighbors: network/src/logic/OverlayTopology.ts.        *)
(*                                                                         *)
(* Every method runs without yielding; formInstructions is split at the    *)
(* iterations of its rewiring loop, and no other method is called before   *)
(* it has returned.                                                        *)
(***************************************************************************)
EXTENDS Topology, TLC

VARIABLES
    nodes,          \* the neighbors of each node in the overlay
    caller,         \* the nodeId formInstructions was called for
    targets,        \* its disconnectionTargets
    updated,        \* its updatedNodes
    old             \* history: `nodes` when formInstructions was called

vars == <<nodes, caller, targets, updated, old>>

-----------------------------------------------------------------------------

Init ==
    /\ nodes = Nothing
    /\ caller = None
    /\ targets = {}
    /\ updated = {}
    /\ old = Nothing

Update(n, reported) ==
    /\ caller = None
    /\ nodes' = Updated(nodes, n, reported)
    /\ UNCHANGED <<caller, targets, updated, old>>

Leave(n) ==
    /\ caller = None
    /\ n \in DOMAIN nodes
    /\ nodes' = Left(nodes, n)
    /\ UNCHANGED <<caller, targets, updated, old>>

\* formInstructions up to its loop, for a node with too many neighbors: as many as it may have
\* are kept.  There is nothing to rewire then.
FormReduces(n) ==
    /\ caller = None
    /\ n \in DOMAIN nodes
    /\ Missing(nodes, n) < 0
    /\ \E kept \in Picks(nodes[n], MaxNeighbors) : nodes' = Updated(nodes, n, kept)
    /\ caller' = n
    /\ targets' = {}
    /\ updated' = {n}
    /\ old' = nodes

\* Otherwise open slots are filled with nodes that have open slots too, and the nodes the loop
\* is to visit are fixed.  The caller is told if it got neighbors or the instruction is forced.
FormFills(n, force) ==
    /\ caller = None
    /\ n \in DOMAIN nodes
    /\ Missing(nodes, n) >= 0
    /\ \E added \in Picks(OpenStrangers(nodes, n), Missing(nodes, n)) :
         /\ nodes' = IF added = {} THEN nodes ELSE Updated(nodes, n, nodes[n] \cup added)
         /\ updated' = IF added = {} /\ ~ force THEN {} ELSE added \cup {n}
    /\ caller' = n
    /\ targets' = IF Missing(nodes', n) > 1 THEN FullStrangers(nodes', n) ELSE {}
    /\ old' = nodes

\* Mutation: one free slot is enough.
MayRewireOne == Missing(nodes, caller) > 0 /\ targets # {}

\* The loop goes on while two slots are free and targets are left.
MayRewire == Missing(nodes, caller) > 1 /\ targets # {}

\* n2 becomes a neighbor as well, so it is no target any more.
OtherTargets(n1, n2) == targets \ {n1, n2}

\* Mutation: the far end of the split link is not told.
ToldWithoutN2(n1, n2) == updated \cup {caller, n1}

Told(n1, n2) == updated \cup {caller, n1, n2}

\* One iteration, for the target n1 that is popped.
Rewire(n1) ==
    /\ caller # None
    /\ MayRewire
    /\ n1 \in targets
    /\ \/ /\ Splittable(nodes, caller, n1) = {}
          /\ targets' = targets \ {n1}
          /\ UNCHANGED <<nodes, updated>>
       \/ \E n2 \in Splittable(nodes, caller, n1) :
             /\ nodes' = Rewired(nodes, caller, n1, n2)
             /\ targets' = OtherTargets(n1, n2)
             /\ updated' = Told(n1, n2)
    /\ UNCHANGED <<caller, old>>

\* What formInstructions returns once the loop has ended.
Returning == caller # None /\ ~ MayRewire
Instructions == [m \in updated |-> nodes[m]]

FormReturns ==
    /\ Returning
    /\ caller' = None
    /\ targets' = {}
    /\ updated' = {}
    /\ old' = Nothing
    /\ UNCHANGED nodes

Next ==
    \/ \E n \in Node : \/ \E reported \in SUBSET Node : Update(n, reported)
                       \/ Leave(n)
                       \/ FormReduces(n)
                       \/ \E force \in BOOLEAN : FormFills(n, force)
                       \/ Rewire(n)
    \/ FormReturns

Spec == Init /\ [][Next]_vars

-----------------------------------------------------------------------------
(* Properties.                                                             *)

\* Topologies are closed under their neighbors, and what formInstructions keeps are nodes.
TypeOK ==
    /\ IsTopology(nodes)
    /\ caller \in Node \cup {None}
    /\ targets \in SUBSET Node
    /\ updated \in SUBSET Node
    /\ IsTopology(old)

\* Neighborhood is mutual, whatever the nodes report and however links are split: update, leave
\* and the rewiring each maintain both sides of a link on their own.
NeighborsAreMutual ==
    \A m, n \in DOMAIN nodes : m \in nodes[n] <=> n \in nodes[m]

\* The invariant formInstructions asserts ("no node should be a neighbor of itself"); here for
\* every node and at every moment.
NeverItsOwnNeighbor == \A n \in DOMAIN nodes : n \notin nodes[n]

\* The overlay is a graph: both sides of every link agree and no link is a loop.
LinksAreSound == NeighborsAreMutual /\ NeverItsOwnNeighbor

\* formInstructions leaves its caller with no more neighbors than it may have, and gives no
\* other node more than it may have: only what nodes report can overfill a node.
NobodyIsOverfilled ==
    Returning => /\ Missing(nodes, caller) >= 0
                 /\ \A m \in DOMAIN nodes :
                      Cardinality(nodes[m]) > Cardinality(old[m]) => Missing(nodes, m) >= 0

\* Every node whose neighbors formInstructions changed is instructed, with one exception:
\* a node the caller gave up (it had too many) is not told that it lost the caller.
ChangesAreTold ==
    Returning => \A m \in DOMAIN nodes \ DOMAIN Instructions :
                    nodes[m] = old[m] \/ nodes[m] = old[m] \ {caller}

\* formInstructions stops with two or more open slots only when there is nothing left to connect
\* to: every other node is full and all its neighbors are the caller's neighbors already, so no
\* link can be split to the caller's profit.
NothingLeftToConnect ==
    Returning /\ Missing(nodes, caller) > 1 =>
        \A m \in Strangers(nodes, caller) :
            Missing(nodes, m) <= 0 /\ Splittable(nodes, caller, m) = {}

\* What a call of formInstructions leaves behind when it returns.
FormingIsSound == NobodyIsOverfilled /\ ChangesAreTold /\ NothingLeftToConnect

\* Both: an overlay is a graph at every moment, and better connected after every call.
OverlayIsSound == LinksAreSound /\ FormingIsSound

\* Nodes are interchangeable.
Symmetry == Permutations(Node)
=============================================================================
