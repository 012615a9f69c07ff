------------------------------- MODULE Topology ------------------------------
(***************************************************************************)
(* Topologies of a stream's overlay and the operations OverlayTopology has *)
(* on them: network/src/logic/OverlayTopology.ts.                          *)
(*                                                                         *)
(* A topology maps every node in the overlay to its neighbors.  The random *)
(* choices of the code (shuffleArray, pickRandomElement) are arbitrary     *)
(* choices here.                                                           *)
(***************************************************************************)
EXTENDS Integers, FiniteSets

CONSTANTS
    Node,
    MaxNeighbors,   \* maxNeighborsPerNode
    None            \* no formInstructions is running

ASSUME NodeAssumption == IsFiniteSet(Node)
ASSUME NoneAssumption == None \notin Node
ASSUME MaxNeighborsAssumption == MaxNeighbors \in Nat

Nothing == [m \in {} |-> {}]

\* update: what node n reports replaces what was known of it.  Nodes that are not in the
\* overlay, and n itself, are left out.
Updated(t, n, reported) ==
    LET known == (reported \cap DOMAIN t) \ {n}
    IN  [m \in DOMAIN t \cup {n} |->
            IF m = n THEN known
            ELSE IF m \in known THEN t[m] \cup {n}
            ELSE t[m] \ {n}]

\* leave
Left(t, n) ==
    [m \in DOMAIN t \ {n} |-> IF m \in t[n] THEN t[m] \ {n} ELSE t[m]]

\* numOfMissingNeighbors (negative: n has too many)
Missing(t, n) == MaxNeighbors - Cardinality(t[n])

\* shuffleArray(S).slice(0, k)
Picks(S, k) ==
    { T \in SUBSET S : Cardinality(T) = IF k < Cardinality(S) THEN k ELSE Cardinality(S) }

Strangers(t, n) == { m \in DOMAIN t : m # n /\ n \notin t[m] }

\* Mutation: a node that misses one neighbor only counts as neither open nor full.
OpenStrangersByTwo(t, n) == { m \in Strangers(t, n) : Missing(t, m) > 1 }

\* The nodes that are not neighbors of n and have open slots, or have none.
OpenStrangers(t, n) == { m \in Strangers(t, n) : Missing(t, m) > 0 }
FullStrangers(t, n) == { m \in Strangers(t, n) : Missing(t, m) <= 0 }

\* n2candidates: the neighbors of n1 that could become neighbors of n instead.
Splittable(t, n, n1) == { m \in t[n1] : n \notin t[m] }

\* Mutation: n2 does not forget n1.
RewiredOneSided(t, n, n1, n2) ==
    [m \in DOMAIN t |->
        IF m = n THEN t[n] \cup {n1, n2}
        ELSE IF m = n1 THEN (t[n1] \ {n2}) \cup {n}
        ELSE IF m = n2 THEN t[n2] \cup {n}
        ELSE t[m]]

\* The link between n1 and n2 is replaced by links from n to each of them.
Rewired(t, n, n1, n2) ==
    [m \in DOMAIN t |->
        IF m = n THEN t[n] \cup {n1, n2}
        ELSE IF m = n1 THEN (t[n1] \ {n2}) \cup {n}
        ELSE IF m = n2 THEN (t[n2] \ {n1}) \cup {n}
        ELSE t[m]]

\* formInstructions up to its loop: the neighbors of n are reduced, or filled up with nodes that
\* have open slots too, and the nodes the loop is to visit are fixed.
Started(t, n, force) ==
    IF Missing(t, n) < 0
    THEN { [nodes |-> Updated(t, n, kept), updated |-> {n}, targets |-> {}] :
              kept \in Picks(t[n], MaxNeighbors) }
    ELSE { LET u == IF added = {} THEN t ELSE Updated(t, n, t[n] \cup added)
           IN  [nodes |-> u,
                updated |-> IF added = {} /\ ~ force THEN {} ELSE added \cup {n},
                targets |-> IF Missing(u, n) > 1 THEN FullStrangers(u, n) ELSE {}] :
              added \in Picks(OpenStrangers(t, n), Missing(t, n)) }

\* One turn of that loop, which visits the target n1.
Turned(t, n, n1, targets, updated) ==
    LET far == Splittable(t, n, n1)
    IN  IF far = {} THEN {[nodes |-> t, updated |-> updated, targets |-> targets \ {n1}]}
        ELSE { [nodes |-> Rewired(t, n, n1, n2), updated |-> updated \cup {n, n1, n2},
                targets |-> targets \ {n1, n2}] : n2 \in far }

\* A topology never mentions a node that is not in it.
IsTopology(t) == DOMAIN t \subseteq Node /\ t \in [DOMAIN t -> SUBSET DOMAIN t]
=============================================================================
