---------------------------- MODULE TrackerProofs ---------------------------
(***************************************************************************)
(* Proofs about the overlay of a stream, about the tracker that keeps one  *)
(* for each stream, whatever the nodes report, and about the tracker among *)
(* its nodes, which come to agree with it: for every set of nodes, every   *)
(* set of streams and every limit on the number of neighbors.              *)
(***************************************************************************)
EXTENDS OverlayTopology, TrackerAlone, TrackerNetwork, FiniteSetTheorems, TLAPS

-----------------------------------------------------------------------------
(* What the operations on a topology preserve.                             *)

\* A topology whose links are mutual and join different nodes.
Sound(t) ==
    /\ IsTopology(t)
    /\ \A m, n \in DOMAIN t : m \in t[n] <=> n \in t[m]
    /\ \A n \in DOMAIN t : n \notin t[n]

LEMMA NeighborsAreFinite ==
    ASSUME NEW t, IsTopology(t), NEW m \in DOMAIN t
    PROVE  /\ t[m] \subseteq DOMAIN t
           /\ IsFiniteSet(t[m])
           /\ Cardinality(t[m]) \in Nat
           /\ Missing(t, m) \in Int
           /\ Missing(t, m) = MaxNeighbors - Cardinality(t[m])
<1>1. t[m] \subseteq DOMAIN t  BY DEF IsTopology
<1>2. t[m] \subseteq Node  BY <1>1 DEF IsTopology
<1>3. IsFiniteSet(t[m])  BY <1>2, NodeAssumption, FS_Subset
<1>4. Cardinality(t[m]) \in Nat  BY <1>3, FS_CardinalityType
<1> QED BY <1>1, <1>3, <1>4, MaxNeighborsAssumption DEF Missing

LEMMA UpdatedIsSound ==
    ASSUME NEW t, Sound(t), NEW n \in Node, NEW reported
    PROVE  Sound(Updated(t, n, reported)) /\ DOMAIN Updated(t, n, reported) = DOMAIN t \cup {n}
<1> DEFINE heard == (reported \cap DOMAIN t) \ {n}
           u == Updated(t, n, reported)
<1>1. /\ DOMAIN u = DOMAIN t \cup {n}
      /\ u[n] = heard
      /\ \A m \in DOMAIN t \ {n} : u[m] = IF m \in heard THEN t[m] \cup {n} ELSE t[m] \ {n}
      /\ u = [m \in DOMAIN u |-> u[m]]
  BY DEF Updated
<1>2. heard \subseteq DOMAIN t \ {n}  OBVIOUS
<1> HIDE DEF u, heard
<1>3. \A m \in DOMAIN t : t[m] \subseteq DOMAIN t  BY DEF Sound, IsTopology
<1>4. \A m \in DOMAIN u : u[m] \subseteq DOMAIN u
  BY <1>1, <1>2, <1>3
<1>5. IsTopology(u)
  BY <1>1, <1>4 DEF Sound, IsTopology
<1>6. \A m, k \in DOMAIN u : m \in u[k] <=> k \in u[m]
  BY <1>1, <1>2 DEF Sound
<1>7. \A m \in DOMAIN u : m \notin u[m]
  BY <1>1, <1>2 DEF Sound
<1> QED BY <1>1, <1>5, <1>6, <1>7 DEF Sound, u

LEMMA LeftIsSound ==
    ASSUME NEW t, Sound(t), NEW n \in DOMAIN t
    PROVE  Sound(Left(t, n))
<1> DEFINE u == Left(t, n)
<1>1. /\ DOMAIN u = DOMAIN t \ {n}
      /\ \A m \in DOMAIN u : u[m] = IF m \in t[n] THEN t[m] \ {n} ELSE t[m]
      /\ u = [m \in DOMAIN u |-> u[m]]
  BY DEF Left
<1> HIDE DEF u
<1>2. \A m \in DOMAIN u : u[m] = t[m] \ {n}
  BY <1>1 DEF Sound
<1>3. \A m \in DOMAIN t : t[m] \subseteq DOMAIN t  BY DEF Sound, IsTopology
<1>4. IsTopology(u)
  <2>1. \A m \in DOMAIN u : u[m] \subseteq DOMAIN u  BY <1>1, <1>2, <1>3
  <2> QED BY <1>1, <2>1 DEF Sound, IsTopology
<1> QED BY <1>1, <1>2, <1>4 DEF Sound, u

\* Splitting a link keeps the topology sound, adds two neighbors to n, and leaves the number of
\* neighbors of every other node as it was.
LEMMA RewiredIsSound ==
    ASSUME NEW t, Sound(t), NEW n \in DOMAIN t,
           NEW n1 \in Strangers(t, n), NEW n2 \in Splittable(t, n, n1)
    PROVE  /\ Sound(Rewired(t, n, n1, n2))
           /\ DOMAIN Rewired(t, n, n1, n2) = DOMAIN t
           /\ n1 \in DOMAIN t /\ n2 \in DOMAIN t
           /\ n1 # n /\ n2 # n
           /\ Rewired(t, n, n1, n2)[n] = t[n] \cup {n1, n2}
           /\ Missing(Rewired(t, n, n1, n2), n) = Missing(t, n) - 2
           /\ \A m \in DOMAIN t \ {n} :
                Cardinality(Rewired(t, n, n1, n2)[m]) = Cardinality(t[m])
           /\ \A m \in DOMAIN t \ {n, n1, n2} : Rewired(t, n, n1, n2)[m] = t[m]
<1> DEFINE u == Rewired(t, n, n1, n2)
<1>1. /\ n1 \in DOMAIN t /\ n2 \in DOMAIN t /\ n1 # n /\ n2 # n /\ n1 # n2
      /\ n2 \in t[n1] /\ n1 \in t[n2]
      /\ n \notin t[n1] /\ n1 \notin t[n]
      /\ n \notin t[n2] /\ n2 \notin t[n]
  <2>1. n1 \in DOMAIN t /\ n1 # n /\ n \notin t[n1] /\ n2 \in t[n1] /\ n \notin t[n2]
    BY DEF Strangers, Splittable
  <2>2. n2 \in DOMAIN t  BY <2>1 DEF Sound, IsTopology
  <2> QED BY <2>1, <2>2 DEF Sound
<1>2. /\ DOMAIN u = DOMAIN t
      /\ u[n] = t[n] \cup {n1, n2}
      /\ u[n1] = (t[n1] \ {n2}) \cup {n}
      /\ u[n2] = (t[n2] \ {n1}) \cup {n}
      /\ \A m \in DOMAIN t \ {n, n1, n2} : u[m] = t[m]
      /\ u = [m \in DOMAIN u |-> u[m]]
  BY <1>1 DEF Rewired
<1> HIDE DEF u
<1>3. \A m \in DOMAIN t : t[m] \subseteq DOMAIN t  BY DEF Sound, IsTopology
<1>4. Sound(u)
  <2>1. \A m \in DOMAIN u : u[m] \subseteq DOMAIN u  BY <1>1, <1>2, <1>3
  <2>2. IsTopology(u)  BY <1>2, <2>1 DEF Sound, IsTopology
  <2>3. ASSUME NEW m \in DOMAIN u, NEW k \in DOMAIN u PROVE m \in u[k] <=> k \in u[m]
    <3>1. m \in t[k] <=> k \in t[m]  BY <1>2 DEF Sound
    <3> QED BY <1>1, <1>2, <3>1
  <2>4. \A m \in DOMAIN u : m \notin u[m]  BY <1>1, <1>2 DEF Sound
  <2> QED BY <2>2, <2>3, <2>4 DEF Sound
<1>5. \A m \in DOMAIN t : IsFiniteSet(t[m]) /\ Cardinality(t[m]) \in Nat
  BY NeighborsAreFinite DEF Sound
<1>6. Cardinality(u[n]) = Cardinality(t[n]) + 2
  <2>1. /\ IsFiniteSet(t[n] \cup {n1})
        /\ Cardinality(t[n] \cup {n1}) = Cardinality(t[n]) + 1
    BY <1>1, <1>5, FS_AddElement
  <2>2. Cardinality((t[n] \cup {n1}) \cup {n2}) = Cardinality(t[n] \cup {n1}) + 1
    BY <1>1, <2>1, FS_AddElement
  <2>3. (t[n] \cup {n1}) \cup {n2} = u[n]  BY <1>2
  <2> QED BY <2>1, <2>2, <2>3, <1>5
<1>7. ASSUME NEW S, IsFiniteSet(S), NEW x \in S, NEW y, y \notin S
      PROVE  Cardinality((S \ {x}) \cup {y}) = Cardinality(S)
  <2>1. IsFiniteSet(S \ {x}) /\ Cardinality(S \ {x}) = Cardinality(S) - 1
    BY <1>7, FS_RemoveElement
  <2>2. Cardinality((S \ {x}) \cup {y}) = Cardinality(S \ {x}) + 1
    BY <1>7, <2>1, FS_AddElement
  <2> QED BY <1>7, <2>1, <2>2, FS_CardinalityType
<1>8. Cardinality(u[n1]) = Cardinality(t[n1]) /\ Cardinality(u[n2]) = Cardinality(t[n2])
  BY <1>1, <1>2, <1>5, <1>7
<1>9. Missing(u, n) = Missing(t, n) - 2
  BY <1>5, <1>6, MaxNeighborsAssumption DEF Missing
<1> QED BY <1>1, <1>2, <1>4, <1>8, <1>9 DEF u

LEMMA PicksOfFinite ==
    ASSUME NEW S, IsFiniteSet(S), NEW k \in Nat, NEW T \in Picks(S, k)
    PROVE  /\ T \subseteq S
           /\ IsFiniteSet(T)
           /\ Cardinality(T) \in Nat
           /\ Cardinality(T) <= k
           /\ Cardinality(T) < k => T = S
           /\ k <= Cardinality(S) => Cardinality(T) = k
<1>1. T \in SUBSET S /\ Cardinality(T) = IF k < Cardinality(S) THEN k ELSE Cardinality(S)
  BY DEF Picks
<1>2. Cardinality(S) \in Nat  BY FS_CardinalityType
<1>3. /\ IsFiniteSet(T)
      /\ Cardinality(S) = Cardinality(T) => S = T
  BY <1>1, FS_Subset
<1> QED BY <1>1, <1>2, <1>3, FS_CardinalityType

-----------------------------------------------------------------------------
(* The inductive invariant of an overlay.                                  *)

\* What holds between the iterations of formInstructions.
Forming ==
    caller # None =>
        /\ caller \in DOMAIN nodes
        /\ DOMAIN old = DOMAIN nodes
        /\ targets \subseteq FullStrangers(nodes, caller)
        /\ Missing(nodes, caller) >= 0
        /\ \A m \in DOMAIN nodes :
             Cardinality(nodes[m]) > Cardinality(old[m]) => Missing(nodes, m) >= 0
        /\ \A m \in DOMAIN nodes \ updated :
             nodes[m] = old[m] \/ nodes[m] = old[m] \ {caller}
        /\ Missing(nodes, caller) > 1 =>
             \A m \in Strangers(nodes, caller) \ targets :
                 Missing(nodes, m) <= 0 /\ Splittable(nodes, caller, m) = {}

OverlayInv == TypeOK /\ Sound(nodes) /\ Forming

-----------------------------------------------------------------------------
(* The steps of an overlay.                                                *)

LEMMA InitOverlayInv == Init => OverlayInv
<1> SUFFICES ASSUME Init PROVE OverlayInv
  OBVIOUS
<1>1. nodes = Nothing /\ old = Nothing /\ caller = None /\ targets = {} /\ updated = {}
  BY DEF Init
<1>2. DOMAIN Nothing = {} /\ Nothing \in [{} -> SUBSET {}]
  BY DEF Nothing
<1> QED BY <1>1, <1>2 DEF OverlayInv, TypeOK, Sound, IsTopology, Forming

LEMMA UpdateKeepsOverlayInv ==
    ASSUME OverlayInv, NEW n \in Node, NEW reported \in SUBSET Node, Update(n, reported)
    PROVE  OverlayInv'
<1>1. Sound(nodes')  BY UpdatedIsSound DEF Update, OverlayInv
<1>2. caller' = None /\ UNCHANGED <<targets, updated, old>>  BY DEF Update
<1> QED BY <1>1, <1>2 DEF OverlayInv, TypeOK, Sound, Forming

LEMMA LeaveKeepsOverlayInv ==
    ASSUME OverlayInv, NEW n \in Node, Leave(n)
    PROVE  OverlayInv'
<1>1. Sound(nodes')  BY LeftIsSound DEF Leave, OverlayInv
<1>2. caller' = None /\ UNCHANGED <<targets, updated, old>>  BY DEF Leave
<1> QED BY <1>1, <1>2 DEF OverlayInv, TypeOK, Sound, Forming

LEMMA FormReducesKeepsOverlayInv ==
    ASSUME OverlayInv, NEW n \in Node, FormReduces(n)
    PROVE  OverlayInv'
<1>1. PICK kept \in Picks(nodes[n], MaxNeighbors) : nodes' = Updated(nodes, n, kept)
  BY DEF FormReduces
<1>2. /\ n \in DOMAIN nodes /\ Missing(nodes, n) < 0
      /\ caller' = n /\ targets' = {} /\ updated' = {n} /\ old' = nodes
  BY DEF FormReduces
<1>3. Sound(nodes) /\ IsTopology(nodes)  BY DEF OverlayInv, Sound
<1>4. /\ kept \subseteq nodes[n] /\ Cardinality(kept) = MaxNeighbors
      /\ nodes[n] \subseteq DOMAIN nodes /\ n \notin nodes[n]
  <2>1. /\ nodes[n] \subseteq DOMAIN nodes
        /\ IsFiniteSet(nodes[n]) /\ Cardinality(nodes[n]) \in Nat
        /\ Missing(nodes, n) = MaxNeighbors - Cardinality(nodes[n])
    BY <1>2, <1>3, NeighborsAreFinite
  <2>2. MaxNeighbors <= Cardinality(nodes[n])
    BY <1>2, <2>1, MaxNeighborsAssumption
  <2>3. kept \subseteq nodes[n] /\ Cardinality(kept) = MaxNeighbors
    BY <2>1, <2>2, PicksOfFinite, MaxNeighborsAssumption
  <2> QED BY <1>2, <1>3, <2>1, <2>3 DEF Sound
<1>5. Sound(nodes') /\ DOMAIN nodes' = DOMAIN nodes
  <2>1. Sound(nodes') /\ DOMAIN nodes' = DOMAIN nodes \cup {n}
    BY <1>1, <1>3, UpdatedIsSound
  <2>2. DOMAIN nodes \cup {n} = DOMAIN nodes  BY <1>2
  <2> QED BY <2>1, <2>2
<1>6. nodes'[n] = kept
  BY <1>1, <1>2, <1>4 DEF Updated
<1>7. \A m \in DOMAIN nodes \ {n} : nodes'[m] = nodes[m] \/ nodes'[m] = nodes[m] \ {n}
  <2> SUFFICES ASSUME NEW m \in DOMAIN nodes \ {n}
               PROVE  nodes'[m] = nodes[m] \/ nodes'[m] = nodes[m] \ {n}
    OBVIOUS
  <2>1. m \in kept => n \in nodes[m]  BY <1>2, <1>3, <1>4 DEF Sound
  <2>2. nodes'[m] = IF m \in kept THEN nodes[m] \cup {n} ELSE nodes[m] \ {n}
    BY <1>1, <1>2, <1>4 DEF Updated
  <2> QED BY <2>1, <2>2
<1>8. Missing(nodes', n) = 0
  BY <1>4, <1>6, MaxNeighborsAssumption DEF Missing
<1>9. \A m \in DOMAIN nodes :
        Cardinality(nodes'[m]) > Cardinality(nodes[m]) => Missing(nodes', m) >= 0
  <2> SUFFICES ASSUME NEW m \in DOMAIN nodes \ {n}
               PROVE  ~ (Cardinality(nodes'[m]) > Cardinality(nodes[m]))
    BY <1>8
  <2>1. nodes'[m] \subseteq nodes[m]  BY <1>7
  <2>2. IsFiniteSet(nodes[m]) /\ Cardinality(nodes[m]) \in Nat
    BY <1>3, NeighborsAreFinite
  <2>3. IsFiniteSet(nodes'[m]) /\ Cardinality(nodes'[m]) <= Cardinality(nodes[m])
    BY <2>1, <2>2, FS_Subset
  <2> QED BY <2>2, <2>3, FS_CardinalityType
<1>10. Forming'
  BY <1>2, <1>5, <1>7, <1>8, <1>9 DEF Forming
<1> QED BY <1>2, <1>3, <1>5, <1>10 DEF OverlayInv, TypeOK, Sound

LEMMA FormFillsKeepsOverlayInv ==
    ASSUME OverlayInv, NEW n \in Node, NEW force \in BOOLEAN, FormFills(n, force)
    PROVE  OverlayInv'
<1>1. PICK added \in Picks(OpenStrangers(nodes, n), Missing(nodes, n)) :
        /\ nodes' = IF added = {} THEN nodes ELSE Updated(nodes, n, nodes[n] \cup added)
        /\ updated' = IF added = {} /\ ~ force THEN {} ELSE added \cup {n}
  BY DEF FormFills
<1>2. /\ n \in DOMAIN nodes /\ Missing(nodes, n) >= 0
      /\ caller' = n /\ old' = nodes
      /\ targets' = IF Missing(nodes', n) > 1 THEN FullStrangers(nodes', n) ELSE {}
  BY DEF FormFills
<1>3. Sound(nodes) /\ IsTopology(nodes) /\ DOMAIN nodes \subseteq Node
  BY DEF OverlayInv, Sound, IsTopology
<1>4. \A m \in DOMAIN nodes :
        /\ nodes[m] \subseteq DOMAIN nodes /\ IsFiniteSet(nodes[m])
        /\ Cardinality(nodes[m]) \in Nat
        /\ Missing(nodes, m) \in Int
        /\ Missing(nodes, m) = MaxNeighbors - Cardinality(nodes[m])
  BY <1>3, NeighborsAreFinite
<1>5. /\ added \subseteq OpenStrangers(nodes, n)
      /\ IsFiniteSet(added) /\ Cardinality(added) \in Nat
      /\ Cardinality(added) <= Missing(nodes, n)
      /\ Cardinality(added) < Missing(nodes, n) => added = OpenStrangers(nodes, n)
  <2>1. IsFiniteSet(OpenStrangers(nodes, n))
    BY <1>3, NodeAssumption, FS_Subset DEF OpenStrangers, Strangers
  <2>2. Missing(nodes, n) \in Nat  BY <1>2, <1>4
  <2> QED BY <2>1, <2>2, PicksOfFinite
<1>6. \A m \in added : /\ m \in DOMAIN nodes /\ m # n
                       /\ n \notin nodes[m] /\ m \notin nodes[n]
                       /\ Missing(nodes, m) > 0
  BY <1>2, <1>3, <1>5 DEF OpenStrangers, Strangers, Sound
<1>7. Sound(nodes') /\ DOMAIN nodes' = DOMAIN nodes
  BY <1>1, <1>2, <1>3, UpdatedIsSound
<1>8. /\ nodes'[n] = nodes[n] \cup added
      /\ \A m \in added : nodes'[m] = nodes[m] \cup {n}
      /\ \A m \in DOMAIN nodes \ ({n} \cup added) : nodes'[m] = nodes[m]
  <2>1. CASE added = {}
    BY <1>1, <2>1
  <2>2. CASE added # {}
    <3>1. ((nodes[n] \cup added) \cap DOMAIN nodes) \ {n} = nodes[n] \cup added
      BY <1>2, <1>3, <1>4, <1>6 DEF Sound
    <3>2. nodes' = [m \in DOMAIN nodes \cup {n} |->
                      IF m = n THEN nodes[n] \cup added
                      ELSE IF m \in nodes[n] \cup added THEN nodes[m] \cup {n}
                      ELSE nodes[m] \ {n}]
      BY <1>1, <2>2, <3>1 DEF Updated
    <3>3. \A m \in DOMAIN nodes : m \in nodes[n] <=> n \in nodes[m]
      BY <1>2, <1>3 DEF Sound
    <3> QED BY <1>2, <1>6, <3>2, <3>3
  <2> QED BY <2>1, <2>2
<1>9. Missing(nodes', n) = Missing(nodes, n) - Cardinality(added)
  <2>1. nodes[n] \cap added = {}  BY <1>6
  <2>2. Cardinality(nodes[n] \cup added)
          = Cardinality(nodes[n]) + Cardinality(added) - Cardinality({})
    BY <1>2, <1>4, <1>5, <2>1, FS_Union
  <2> QED BY <1>2, <1>4, <1>5, <1>8, <2>2, FS_EmptySet, MaxNeighborsAssumption DEF Missing
<1>10. \A m \in added : Missing(nodes', m) = Missing(nodes, m) - 1
  <2> SUFFICES ASSUME NEW m \in added PROVE Missing(nodes', m) = Missing(nodes, m) - 1
    OBVIOUS
  <2>1. Cardinality(nodes[m] \cup {n}) = Cardinality(nodes[m]) + 1
    BY <1>4, <1>6, FS_AddElement
  <2>2. Cardinality(nodes'[m]) = Cardinality(nodes[m]) + 1
    BY <1>8, <2>1
  <2>3. Cardinality(nodes[m]) \in Nat  BY <1>4, <1>6
  <2> QED BY <2>2, <2>3, MaxNeighborsAssumption DEF Missing
<1>11. \A m \in DOMAIN nodes \ ({n} \cup added) : Missing(nodes', m) = Missing(nodes, m)
  BY <1>8 DEF Missing
<1>12. Missing(nodes', n) >= 0
  BY <1>2, <1>4, <1>5, <1>9
<1>13. \A m \in DOMAIN nodes :
         Cardinality(nodes'[m]) > Cardinality(nodes[m]) => Missing(nodes', m) >= 0
  <2> SUFFICES ASSUME NEW m \in DOMAIN nodes,
                      Cardinality(nodes'[m]) > Cardinality(nodes[m])
               PROVE  Missing(nodes', m) >= 0
    OBVIOUS
  <2>1. CASE m = n  BY <2>1, <1>12
  <2>2. CASE m \in added  BY <2>2, <1>4, <1>6, <1>10
  <2>3. CASE m \notin {n} \cup added
    <3>1. nodes'[m] = nodes[m]  BY <2>3, <1>8
    <3> QED BY <3>1, <1>4
  <2> QED BY <2>1, <2>2, <2>3
<1>14. \A m \in DOMAIN nodes \ updated' : nodes'[m] = nodes[m]
  BY <1>1, <1>8
<1>15. Missing(nodes', n) > 1 =>
         \A m \in Strangers(nodes', n) \ targets' :
             Missing(nodes', m) <= 0 /\ Splittable(nodes', n, m) = {}
  <2> SUFFICES ASSUME Missing(nodes', n) > 1, NEW m \in Strangers(nodes', n) \ targets'
               PROVE  FALSE
    OBVIOUS
  <2>1. m \in DOMAIN nodes /\ m # n /\ n \notin nodes'[m]
    BY <1>7 DEF Strangers
  <2>2. m \notin added  BY <2>1, <1>8
  <2>3. m \in Strangers(nodes, n) /\ Missing(nodes', m) = Missing(nodes, m)
    BY <2>1, <2>2, <1>8, <1>11 DEF Strangers
  <2>4. ~ (Missing(nodes', m) <= 0)
    BY <1>2 DEF FullStrangers
  <2>5. m \in OpenStrangers(nodes, n)
    BY <2>1, <2>3, <2>4, <1>4 DEF OpenStrangers
  <2>6. Cardinality(added) < Missing(nodes, n)
    BY <1>2, <1>4, <1>5, <1>9
  <2> QED BY <2>2, <2>5, <2>6, <1>5
<1>16. targets' \subseteq FullStrangers(nodes', n) /\ targets' \in SUBSET Node
  BY <1>2, <1>3, <1>7 DEF FullStrangers, Strangers
<1>17. updated' \in SUBSET Node
  BY <1>1, <1>2, <1>3, <1>6
<1>18. Forming'
  BY <1>2, <1>7, <1>12, <1>13, <1>14, <1>15, <1>16 DEF Forming
<1> QED BY <1>2, <1>3, <1>7, <1>16, <1>17, <1>18 DEF OverlayInv, TypeOK, Sound

LEMMA RewireKeepsOverlayInv ==
    ASSUME OverlayInv, NEW n1 \in Node, Rewire(n1)
    PROVE  OverlayInv'
<1>1. /\ caller # None /\ Missing(nodes, caller) > 1
      /\ n1 \in targets
      /\ UNCHANGED <<caller, old>>
  BY DEF Rewire, MayRewire
<1>2. Forming /\ Sound(nodes) /\ IsTopology(nodes) /\ TypeOK
  BY DEF OverlayInv, Sound
<1>3. /\ caller \in DOMAIN nodes
      /\ DOMAIN old = DOMAIN nodes
      /\ targets \subseteq FullStrangers(nodes, caller)
      /\ \A m \in DOMAIN nodes :
           Cardinality(nodes[m]) > Cardinality(old[m]) => Missing(nodes, m) >= 0
      /\ \A m \in DOMAIN nodes \ updated :
           nodes[m] = old[m] \/ nodes[m] = old[m] \ {caller}
      /\ \A m \in Strangers(nodes, caller) \ targets :
           Missing(nodes, m) <= 0 /\ Splittable(nodes, caller, m) = {}
  BY <1>1, <1>2 DEF Forming
<1>4. n1 \in Strangers(nodes, caller) /\ Missing(nodes, n1) <= 0
  BY <1>1, <1>3 DEF FullStrangers
<1>5. CASE /\ Splittable(nodes, caller, n1) = {}
           /\ targets' = targets \ {n1}
           /\ UNCHANGED <<nodes, updated>>
  <2>1. \A m \in Strangers(nodes, caller) \ targets' :
          Missing(nodes, m) <= 0 /\ Splittable(nodes, caller, m) = {}
    BY <1>3, <1>4, <1>5
  <2>2. Forming'
    BY <1>1, <1>2, <1>3, <1>5, <2>1
       DEF Forming, Missing, FullStrangers, Strangers, Splittable
  <2> QED BY <1>1, <1>2, <1>5, <2>2 DEF OverlayInv, TypeOK, Sound
<1>6. CASE \E n2 \in Splittable(nodes, caller, n1) :
             /\ nodes' = Rewired(nodes, caller, n1, n2)
             /\ targets' = OtherTargets(n1, n2)
             /\ updated' = Told(n1, n2)
  <2>1. PICK n2 \in Splittable(nodes, caller, n1) :
          /\ nodes' = Rewired(nodes, caller, n1, n2)
          /\ targets' = targets \ {n1, n2}
          /\ updated' = updated \cup {caller, n1, n2}
    BY <1>6 DEF OtherTargets, Told
  <2>2. /\ Sound(nodes') /\ DOMAIN nodes' = DOMAIN nodes
        /\ n1 \in DOMAIN nodes /\ n2 \in DOMAIN nodes /\ n1 # caller /\ n2 # caller
        /\ nodes'[caller] = nodes[caller] \cup {n1, n2}
        /\ Missing(nodes', caller) = Missing(nodes, caller) - 2
        /\ \A m \in DOMAIN nodes \ {caller} : Cardinality(nodes'[m]) = Cardinality(nodes[m])
        /\ \A m \in DOMAIN nodes \ {caller, n1, n2} : nodes'[m] = nodes[m]
    BY <1>2, <1>3, <1>4, <2>1, RewiredIsSound
  <2>3. \A m \in DOMAIN nodes \ {caller} : Missing(nodes', m) = Missing(nodes, m)
    BY <2>2 DEF Missing
  <2>4. Missing(nodes', caller) >= 0
    BY <1>1, <1>2, <1>3, <2>2, NeighborsAreFinite
  <2>5. \A m \in DOMAIN nodes \ {n1, n2, caller} :
          m \in Strangers(nodes', caller) <=> m \in Strangers(nodes, caller)
    BY <2>2 DEF Strangers
  <2>6. n1 \notin Strangers(nodes', caller) /\ n2 \notin Strangers(nodes', caller)
    <3>1. n1 \in nodes'[caller] /\ n2 \in nodes'[caller]  BY <2>2
    <3> QED BY <1>3, <2>2, <3>1 DEF Sound, Strangers
  <2>7. targets' \subseteq FullStrangers(nodes', caller)
    <3> SUFFICES ASSUME NEW m \in targets' PROVE m \in FullStrangers(nodes', caller)
      OBVIOUS
    <3>1. /\ m \in DOMAIN nodes \ {n1, n2, caller} /\ m \in Strangers(nodes, caller)
          /\ Missing(nodes, m) <= 0
      BY <1>3, <2>1 DEF FullStrangers, Strangers
    <3> QED BY <2>3, <2>5, <3>1 DEF FullStrangers
  <2>8. \A m \in DOMAIN nodes :
          Cardinality(nodes'[m]) > Cardinality(old[m]) => Missing(nodes', m) >= 0
    BY <1>3, <2>2, <2>3, <2>4
  <2>9. \A m \in DOMAIN nodes \ updated' :
          nodes'[m] = old[m] \/ nodes'[m] = old[m] \ {caller}
    BY <1>3, <2>1, <2>2
  <2>10. \A m \in Strangers(nodes', caller) \ targets' :
           Missing(nodes', m) <= 0 /\ Splittable(nodes', caller, m) = {}
    <3> SUFFICES ASSUME NEW m \in Strangers(nodes', caller) \ targets'
                 PROVE  Missing(nodes', m) <= 0 /\ Splittable(nodes', caller, m) = {}
      OBVIOUS
    <3>1. m \in DOMAIN nodes \ {n1, n2, caller}
      BY <2>2, <2>6 DEF Strangers
    <3>2. m \in Strangers(nodes, caller) \ targets
      BY <2>1, <2>5, <3>1
    <3>3. /\ Missing(nodes, m) <= 0 /\ Splittable(nodes, caller, m) = {}
          /\ Missing(nodes', m) = Missing(nodes, m) /\ nodes'[m] = nodes[m]
      BY <1>3, <2>2, <2>3, <3>1, <3>2
    <3>4. ASSUME NEW k \in nodes[m] PROVE caller \in nodes'[k]
      <4>1. caller \in nodes[k] /\ k \in DOMAIN nodes
        BY <1>2, <3>1, <3>3 DEF Splittable, IsTopology
      <4>2. k \in nodes[caller]  BY <4>1, <1>2, <1>3 DEF Sound
      <4>3. k \in nodes'[caller]  BY <4>2, <2>2
      <4> QED BY <4>1, <4>3, <1>3, <2>2 DEF Sound
    <3> QED BY <3>3, <3>4 DEF Splittable
  <2>11. Forming'
    BY <1>1, <1>3, <2>2, <2>4, <2>7, <2>8, <2>9, <2>10 DEF Forming
  <2>12. TypeOK'
    BY <1>1, <1>2, <1>3, <2>1, <2>2 DEF TypeOK, Sound, IsTopology
  <2> QED BY <2>2, <2>11, <2>12 DEF OverlayInv
<1> QED BY <1>5, <1>6 DEF Rewire

LEMMA FormReturnsKeepsOverlayInv ==
    ASSUME OverlayInv, FormReturns
    PROVE  OverlayInv'
<1>1. /\ caller' = None /\ targets' = {} /\ updated' = {} /\ old' = Nothing
      /\ UNCHANGED nodes
  BY DEF FormReturns
<1>2. DOMAIN Nothing = {} /\ Nothing \in [{} -> SUBSET {}]
  BY DEF Nothing
<1> QED BY <1>1, <1>2 DEF OverlayInv, TypeOK, Sound, IsTopology, Forming

LEMMA StepOverlayInv == OverlayInv /\ [Next]_vars => OverlayInv'
<1> SUFFICES ASSUME OverlayInv, [Next]_vars PROVE OverlayInv'
  OBVIOUS
<1>1. ASSUME NEW n \in Node, NEW reported \in SUBSET Node, Update(n, reported) PROVE OverlayInv'
  BY <1>1, UpdateKeepsOverlayInv
<1>2. ASSUME NEW n \in Node, Leave(n) PROVE OverlayInv'
  BY <1>2, LeaveKeepsOverlayInv
<1>3. ASSUME NEW n \in Node, FormReduces(n) PROVE OverlayInv'
  BY <1>3, FormReducesKeepsOverlayInv
<1>4. ASSUME NEW n \in Node, NEW force \in BOOLEAN, FormFills(n, force) PROVE OverlayInv'
  BY <1>4, FormFillsKeepsOverlayInv
<1>5. ASSUME NEW n \in Node, Rewire(n) PROVE OverlayInv'
  BY <1>5, RewireKeepsOverlayInv
<1>6. CASE FormReturns
  BY <1>6, FormReturnsKeepsOverlayInv
<1>7. CASE UNCHANGED vars
  BY <1>7 DEF vars, OverlayInv, TypeOK, IsTopology, Sound, Forming, Missing, FullStrangers,
              Strangers, Splittable
<1> QED BY <1>1, <1>2, <1>3, <1>4, <1>5, <1>6, <1>7 DEF Next

-----------------------------------------------------------------------------

LEMMA OverlayInvHolds == Spec => []OverlayInv
BY InitOverlayInv, StepOverlayInv, PTL DEF Spec

\* The topology is well formed in every reachable state.
THEOREM TypeCorrect == Spec => []TypeOK
<1>1. OverlayInv => TypeOK  BY DEF OverlayInv
<1> QED BY <1>1, OverlayInvHolds, PTL

\* Neighborhood is mutual, however nodes report, leave and are rewired.
THEOREM MutualNeighbors == Spec => []NeighborsAreMutual
<1>1. OverlayInv => NeighborsAreMutual  BY DEF OverlayInv, Sound, NeighborsAreMutual
<1> QED BY <1>1, OverlayInvHolds, PTL

\* The error formInstructions throws for a node that neighbors itself is never thrown.
THEOREM NoSelfNeighbor == Spec => []NeverItsOwnNeighbor
<1>1. OverlayInv => NeverItsOwnNeighbor  BY DEF OverlayInv, Sound, NeverItsOwnNeighbor
<1> QED BY <1>1, OverlayInvHolds, PTL

\* The overlay is a graph without loops.
THEOREM SoundLinks == Spec => []LinksAreSound
<1>1. NeighborsAreMutual /\ NeverItsOwnNeighbor => LinksAreSound  BY DEF LinksAreSound
<1> QED BY <1>1, MutualNeighbors, NoSelfNeighbor, PTL

\* formInstructions overfills nobody.
THEOREM NobodyOverfilled == Spec => []NobodyIsOverfilled
<1>1. OverlayInv => NobodyIsOverfilled
  BY DEF OverlayInv, Forming, NobodyIsOverfilled, Returning
<1> QED BY <1>1, OverlayInvHolds, PTL

\* formInstructions instructs every node whose neighbors it changed, but those it gave up.
THEOREM EveryChangeTold == Spec => []ChangesAreTold
<1>1. OverlayInv => ChangesAreTold
  BY DEF OverlayInv, Forming, ChangesAreTold, Returning, Instructions
<1> QED BY <1>1, OverlayInvHolds, PTL

\* formInstructions returns with two or more open slots only if no link is left to split.
THEOREM RewiringIsExhaustive == Spec => []NothingLeftToConnect
<1>1. OverlayInv => NothingLeftToConnect
  BY NeighborsAreFinite DEF OverlayInv, Sound, Forming, NothingLeftToConnect, Returning, MayRewire
<1> QED BY <1>1, OverlayInvHolds, PTL

\* Every call of formInstructions fills within the limits, tells whom it concerns and exhausts
\* what can be rewired.
THEOREM FormingSound == Spec => []FormingIsSound
<1>1. NobodyIsOverfilled /\ ChangesAreTold /\ NothingLeftToConnect => FormingIsSound
  BY DEF FormingIsSound
<1> QED BY <1>1, NobodyOverfilled, EveryChangeTold, RewiringIsExhaustive, PTL

\* The overlay is a graph at every moment and better connected after every call.
THEOREM SoundOverlay == Spec => []OverlayIsSound
<1>1. LinksAreSound /\ FormingIsSound => OverlayIsSound
  BY DEF OverlayIsSound
<1> QED BY <1>1, SoundLinks, FormingSound, PTL

-----------------------------------------------------------------------------
(* The inductive invariant of the tracker.                                 *)

\* The overlays, and the call of formInstructions that is running, are well formed.
SoundOverlays ==
    /\ Streams \subseteq Stream
    /\ \A s \in Streams : Sound(overlayPerStream[s])

SoundForm ==
    form # None =>
        /\ form \in Form
        /\ form.stream \in Streams
        /\ form.node \in Members(form.stream)
        /\ form.targets \subseteq Strangers(overlayPerStream[form.stream], form.node)
        /\ form.updated \subseteq Members(form.stream)

SoundCalls ==
    /\ counters \in [Node -> [Stream -> Nat]]
    /\ leaving \in SUBSET (Node \X Stream)
    /\ forcing \in SUBSET (Node \X Stream)
    /\ forming \in SUBSET (Node \X Stream)

\* One node leaves at a time, it leaves streams that have an overlay, and an overlay that is
\* empty is one that it is about to leave.
OneLeaver ==
    /\ \A n \in Node, s \in Stream : <<n, s>> \in leaving => s \in Streams
    /\ \A m, n \in Node, r, s \in Stream : <<m, r>> \in leaving /\ <<n, s>> \in leaving => m = n
    /\ \A s \in Streams : Members(s) = {} => \E n \in Node : <<n, s>> \in leaving

TrackerInv == SoundOverlays /\ SoundForm /\ SoundCalls /\ OneLeaver /\ CountersOfMembers

-----------------------------------------------------------------------------
(* The operators of the tracker.                                           *)

LEMMA NothingIsSound == Sound(Nothing) /\ DOMAIN Nothing = {}
<1>1. DOMAIN Nothing = {} /\ Nothing \in [{} -> SUBSET {}]  BY DEF Nothing
<1> QED BY <1>1 DEF Sound, IsTopology

LEMMA SoundIsTyped ==
    ASSUME NEW t, Sound(t)
    PROVE  /\ DOMAIN t \subseteq Node
           /\ t \in UNION { [D -> SUBSET D] : D \in SUBSET Node }
BY DEF Sound, IsTopology

LEMMA AfterLeaveIsSound ==
    ASSUME NEW t, Sound(t), NEW n
    PROVE  Sound(AfterLeave(t, n)) /\ DOMAIN AfterLeave(t, n) = DOMAIN t \ {n}
<1>1. CASE n \in DOMAIN t
  <2>1. AfterLeave(t, n) = Left(t, n)  BY <1>1 DEF AfterLeave
  <2>2. DOMAIN Left(t, n) = DOMAIN t \ {n}  BY DEF Left
  <2> QED BY <1>1, <2>1, <2>2, LeftIsSound
<1>2. CASE n \notin DOMAIN t
  BY <1>2 DEF AfterLeave
<1> QED BY <1>1, <1>2

\* Overlays are made for new streams, and nobody but the sender comes in.
LEMMA OverlaysAfterAreSound ==
    ASSUME SoundOverlays, NEW n \in Node, NEW streams, DOMAIN streams \subseteq Stream,
           NEW updating, updating \subseteq DOMAIN streams,
           overlayPerStream' = OverlaysAfter(n, streams, updating)
    PROVE  /\ SoundOverlays'
           /\ Streams' = Streams \cup DOMAIN streams
           /\ \A s \in Streams' : overlayPerStream'[s] =
                 IF s \in updating THEN Updated(OverlayOf(s), n, streams[s].neighbors)
                 ELSE OverlayOf(s)
           /\ \A s \in Streams : Members(s) \subseteq Members(s)'
           /\ \A s \in updating : n \in Members(s)'
<1>1. /\ Streams' = Streams \cup DOMAIN streams
      /\ \A s \in Streams' : overlayPerStream'[s] =
            IF s \in updating THEN Updated(OverlayOf(s), n, streams[s].neighbors) ELSE OverlayOf(s)
  BY DEF OverlaysAfter, Streams
<1>2. \A s : Sound(OverlayOf(s))
  BY NothingIsSound DEF SoundOverlays, OverlayOf
<1>3. ASSUME NEW s \in Streams'
      PROVE  /\ Sound(overlayPerStream'[s])
             /\ DOMAIN OverlayOf(s) \subseteq DOMAIN overlayPerStream'[s]
             /\ s \in updating => n \in DOMAIN overlayPerStream'[s]
  <2>1. CASE s \in updating
    <3>1. overlayPerStream'[s] = Updated(OverlayOf(s), n, streams[s].neighbors)  BY <1>1, <1>3, <2>1
    <3>2. Sound(OverlayOf(s))  BY <1>2
    <3>3. /\ Sound(Updated(OverlayOf(s), n, streams[s].neighbors))
          /\ DOMAIN Updated(OverlayOf(s), n, streams[s].neighbors) = DOMAIN OverlayOf(s) \cup {n}
      BY <3>2, UpdatedIsSound
    <3> QED BY <3>1, <3>3
  <2>2. CASE s \notin updating
    <3>1. overlayPerStream'[s] = OverlayOf(s)  BY <1>1, <1>3, <2>2
    <3> QED BY <3>1, <1>2, <2>2
  <2> QED BY <2>1, <2>2
<1>4. SoundOverlays'
  BY <1>1, <1>3 DEF SoundOverlays
<1>5. ASSUME NEW s \in Streams PROVE Members(s) \subseteq Members(s)'
  BY <1>1, <1>3, <1>5 DEF Members, OverlayOf
<1>6. ASSUME NEW s \in updating PROVE n \in Members(s)'
  BY <1>1, <1>3, <1>6 DEF Members
<1> QED BY <1>1, <1>4, <1>5, <1>6

\* What formInstructions starts with.
LEMMA StartedIsSound ==
    ASSUME NEW t, Sound(t), NEW n \in DOMAIN t, NEW force, NEW x \in Started(t, n, force)
    PROVE  /\ Sound(x.nodes)
           /\ DOMAIN x.nodes = DOMAIN t
           /\ x.targets \subseteq Strangers(x.nodes, n)
           /\ x.updated \subseteq DOMAIN t
<1>1. n \in Node /\ IsTopology(t)  BY DEF Sound, IsTopology
<1>2. CASE Missing(t, n) < 0
  <2>1. PICK kept \in Picks(t[n], MaxNeighbors) :
          x = [nodes |-> Updated(t, n, kept), updated |-> {n}, targets |-> {}]
    BY <1>2 DEF Started
  <2>2. Sound(Updated(t, n, kept)) /\ DOMAIN Updated(t, n, kept) = DOMAIN t \cup {n}
    BY <1>1, UpdatedIsSound
  <2> QED BY <2>1, <2>2
<1>3. CASE ~ Missing(t, n) < 0
  <2>1. PICK added \in Picks(OpenStrangers(t, n), Missing(t, n)) :
          LET u == IF added = {} THEN t ELSE Updated(t, n, t[n] \cup added)
          IN  x = [nodes |-> u,
                   updated |-> IF added = {} /\ ~ force THEN {} ELSE added \cup {n},
                   targets |-> IF Missing(u, n) > 1 THEN FullStrangers(u, n) ELSE {}]
    BY <1>3 DEF Started
  <2> DEFINE u == IF added = {} THEN t ELSE Updated(t, n, t[n] \cup added)
  <2>2. Sound(u) /\ DOMAIN u = DOMAIN t
    BY <1>1, UpdatedIsSound
  <2>3. added \subseteq DOMAIN t
    BY DEF Picks, OpenStrangers, Strangers
  <2>4. FullStrangers(u, n) \subseteq Strangers(u, n)
    BY DEF FullStrangers
  <2>5. /\ x.nodes = u
        /\ x.updated = IF added = {} /\ ~ force THEN {} ELSE added \cup {n}
        /\ x.targets = IF Missing(u, n) > 1 THEN FullStrangers(u, n) ELSE {}
    BY <2>1
  <2> HIDE DEF u
  <2> QED BY <2>2, <2>3, <2>4, <2>5
<1> QED BY <1>2, <1>3

\* A turn of its loop: what is left of the targets are strangers still.
LEMMA TurnedIsSound ==
    ASSUME NEW t, Sound(t), NEW n \in DOMAIN t, NEW wanted, wanted \subseteq Strangers(t, n),
           NEW told, told \subseteq DOMAIN t,
           NEW n1 \in wanted, NEW x \in Turned(t, n, n1, wanted, told)
    PROVE  /\ Sound(x.nodes)
           /\ DOMAIN x.nodes = DOMAIN t
           /\ x.targets \subseteq Strangers(x.nodes, n)
           /\ x.updated \subseteq DOMAIN t
<1>1. CASE Splittable(t, n, n1) = {}
  <2>1. x = [nodes |-> t, updated |-> told, targets |-> wanted \ {n1}]
    BY <1>1 DEF Turned
  <2> QED BY <2>1
<1>2. CASE Splittable(t, n, n1) # {}
  <2>1. PICK n2 \in Splittable(t, n, n1) :
          x = [nodes |-> Rewired(t, n, n1, n2), updated |-> told \cup {n, n1, n2},
               targets |-> wanted \ {n1, n2}]
    BY <1>2 DEF Turned
  <2> DEFINE u == Rewired(t, n, n1, n2)
  <2>2. /\ Sound(u) /\ DOMAIN u = DOMAIN t
        /\ n1 \in DOMAIN t /\ n2 \in DOMAIN t
        /\ \A m \in DOMAIN t \ {n, n1, n2} : u[m] = t[m]
    BY RewiredIsSound
  <2>3. x.nodes = u /\ x.updated = told \cup {n, n1, n2} /\ x.targets = wanted \ {n1, n2}
    BY <2>1
  <2> HIDE DEF u
  <2>4. wanted \ {n1, n2} \subseteq Strangers(u, n)
    BY <2>2 DEF Strangers
  <2> QED BY <2>2, <2>3, <2>4
<1> QED BY <1>1, <1>2

-----------------------------------------------------------------------------
(* The events.                                                             *)

LEMMA InitTrackerInv == TrackerInit => TrackerInv
<1> SUFFICES ASSUME TrackerInit PROVE TrackerInv
  OBVIOUS
<1>1. /\ Streams = {} /\ form = None
      /\ leaving = {} /\ forcing = {} /\ forming = {}
      /\ counters = [n \in Node |-> [s \in Stream |-> 0]]
  BY DEF TrackerInit, Streams
<1> QED
  BY <1>1 DEF TrackerInv, SoundOverlays, SoundForm, SoundCalls, OneLeaver, CountersOfMembers

\* A full status says nothing of a stream the node has left.
IsFullStatus(streams) ==
    /\ DOMAIN streams \subseteq Stream
    /\ \A s \in DOMAIN streams : streams[s] \in Report /\ streams[s].counter \in Nat

\* The bounds of TrackerAlone leave such statuses.
LEMMA CountedIsReported ==
    /\ \A n \in Node : \A S \in SUBSET StreamsOf(n) : \A streams \in [S -> Counted] :
          IsFullStatus(streams)
    /\ Counted \cup {HasLeft} \subseteq Report
<1>1. \A n : StreamsOf(n) \subseteq Stream  BY DEF StreamsOf
<1>2. \A report \in Counted : report \in Report /\ report.counter \in Nat
  BY BoundsAssumption DEF Counted, Report
<1>3. HasLeft \in Report  BY DEF HasLeft, Report
<1> QED BY <1>1, <1>2, <1>3 DEF IsFullStatus

\* A new overlay is empty only if the sender is about to leave it: the report is not filtered,
\* since the sender was in no overlay and has no counter.
LEMMA FullStatusKeepsTrackerInv ==
    ASSUME TrackerInv, NEW n \in Node, NEW streams, IsFullStatus(streams), FullStatus(n, streams)
    PROVE  TrackerInv'
<1> USE DEF TrackerInv
<1>1. /\ leaving = {} /\ forming = {} /\ form = None
      /\ overlayPerStream' = OverlaysAfter(n, streams, Filtered(n, streams))
      /\ leaving' = {n} \X (Streams \ DOMAIN streams)
      /\ forming' = {n} \X DOMAIN streams
      /\ UNCHANGED <<counters, forcing, form>>
  BY DEF FullStatus, Idle
<1>2. DOMAIN streams \subseteq Stream /\ Filtered(n, streams) \subseteq DOMAIN streams
  BY DEF Filtered, IsFullStatus
<1>3. /\ SoundOverlays'
      /\ Streams' = Streams \cup DOMAIN streams
      /\ \A s \in Streams : Members(s) \subseteq Members(s)'
      /\ \A s \in Filtered(n, streams) : n \in Members(s)'
  BY <1>1, <1>2, OverlaysAfterAreSound
<1>4. \A s \in Streams : Members(s) # {}
  BY <1>1 DEF OneLeaver
<1>5. ASSUME NEW s \in DOMAIN streams \ Streams PROVE s \in Filtered(n, streams)
  <2>1. counters[n][s] = 0
    <3>1. n \notin Members(s)  BY <1>5 DEF Members
    <3> QED BY <1>2, <3>1 DEF CountersOfMembers, SoundCalls
  <2>2. streams[s].counter \in Nat
    BY DEF IsFullStatus
  <2> QED BY <1>2, <2>1, <2>2 DEF Filtered
<1>6. \A s \in Streams' : Members(s)' # {}
  BY <1>2, <1>3, <1>4, <1>5
<1>7. OneLeaver'
  BY <1>1, <1>3, <1>6 DEF OneLeaver
<1>8. SoundCalls'
  BY <1>1, <1>2 DEF SoundCalls, SoundOverlays
<1>9. CountersOfMembers'
  BY <1>1, <1>3 DEF CountersOfMembers, Members
<1> QED BY <1>1, <1>3, <1>7, <1>8, <1>9 DEF SoundForm

LEMMA StreamStatusKeepsTrackerInv ==
    ASSUME TrackerInv, NEW n \in Node, NEW s \in Stream, NEW report \in Report,
           StreamStatus(n, s, report)
    PROVE  TrackerInv'
<1> USE DEF TrackerInv
<1> DEFINE streams == [r \in {s} |-> report]
           left == report.counter = -1
           updating == IF left THEN {} ELSE Filtered(n, streams)
<1>1. /\ leaving = {} /\ forming = {} /\ form = None
      /\ overlayPerStream' = OverlaysAfter(n, streams, updating)
      /\ leaving' = IF left THEN {<<n, s>>} ELSE {}
      /\ forming' = {<<n, s>>}
      /\ UNCHANGED <<counters, forcing, form>>
  BY DEF StreamStatus, Idle
<1>2. /\ DOMAIN streams = {s} /\ updating \subseteq {s}
      /\ ~ left => updating = Filtered(n, streams)
  BY DEF Filtered
<1>3. /\ SoundOverlays'
      /\ Streams' = Streams \cup {s}
      /\ \A r \in Streams : Members(r) \subseteq Members(r)'
      /\ \A r \in updating : n \in Members(r)'
  BY <1>1, <1>2, OverlaysAfterAreSound
<1>4. \A r \in Streams : Members(r) # {}
  BY <1>1 DEF OneLeaver
<1>5. ASSUME s \notin Streams, ~ left PROVE s \in updating
  <2>1. counters[n][s] = 0
    <3>1. n \notin Members(s)  BY <1>5 DEF Members
    <3> QED BY <3>1 DEF CountersOfMembers, SoundCalls
  <2>2. streams[s].counter \in Nat
    BY <1>5 DEF Report
  <2> QED BY <1>2, <1>5, <2>1, <2>2 DEF Filtered
<1> HIDE DEF streams, left, updating
<1>6. \A r \in Streams' : Members(r)' = {} => r = s /\ left
  BY <1>2, <1>3, <1>4, <1>5
<1>7. OneLeaver'
  BY <1>1, <1>3, <1>6 DEF OneLeaver
<1>8. SoundCalls'
  BY <1>1 DEF SoundCalls
<1>9. CountersOfMembers'
  BY <1>1, <1>3 DEF CountersOfMembers, Members
<1> QED BY <1>1, <1>3, <1>7, <1>8, <1>9 DEF SoundForm

LEMMA RemoveNodeKeepsTrackerInv ==
    ASSUME TrackerInv, NEW n \in Node, RemoveNode(n)
    PROVE  TrackerInv'
<1> USE DEF TrackerInv
<1>1. /\ leaving = {}
      /\ leaving' = {n} \X Streams
      /\ UNCHANGED <<overlayPerStream, counters, forcing, forming, form>>
  BY DEF RemoveNode, Idle
<1>2. UNCHANGED Streams /\ \A s : UNCHANGED Members(s)
  BY <1>1 DEF Streams, Members
<1>3. SoundOverlays' /\ SoundForm' /\ CountersOfMembers'
  BY <1>1, <1>2 DEF SoundOverlays, SoundForm, CountersOfMembers, Strangers
<1>4. SoundCalls'
  BY <1>1 DEF SoundCalls, SoundOverlays
<1>5. OneLeaver'
  BY <1>1, <1>2 DEF OneLeaver
<1> QED BY <1>3, <1>4, <1>5

-----------------------------------------------------------------------------
(* The calls they lead to.                                                 *)

\* The overlay that may be empty is the one that is left, and it is deleted then.
LEMMA LeaveStreamKeepsTrackerInv ==
    ASSUME TrackerInv, NEW n \in Node, NEW s \in Stream, LeaveStream(n, s)
    PROVE  TrackerInv'
<1> USE DEF TrackerInv
<1> DEFINE t == overlayPerStream[s]
           after == AfterLeave(t, n)
<1>1. /\ <<n, s>> \in leaving /\ forcing = {} /\ form = None
      /\ leaving' = leaving \ {<<n, s>>}
      /\ counters' = CountersAfterLeave(n, s, after)
      /\ overlayPerStream' = [r \in IF IsEmpty(after) THEN Streams \ {s} ELSE Streams |->
                                 IF r = s THEN after ELSE overlayPerStream[r]]
      /\ forcing' = IF n \in DOMAIN t /\ ~ IsEmpty(after) THEN t[n] \X {s} ELSE {}
      /\ UNCHANGED <<forming, form>>
  BY DEF LeaveStream
<1>2. s \in Streams /\ Sound(t)
  BY <1>1 DEF OneLeaver, SoundOverlays
<1>3. Sound(after) /\ DOMAIN after = DOMAIN t \ {n}
  BY <1>2, AfterLeaveIsSound
<1>4. Members(s) = DOMAIN t
  BY <1>2 DEF Members
<1> HIDE DEF t, after
<1>5. /\ Streams' = IF IsEmpty(after) THEN Streams \ {s} ELSE Streams
      /\ \A r \in Streams' : overlayPerStream'[r] = IF r = s THEN after ELSE overlayPerStream[r]
  BY <1>1 DEF Streams
<1>6. SoundOverlays'
  BY <1>3, <1>5 DEF SoundOverlays
<1>7. /\ \A r \in Stream \ {s} : Members(r)' = Members(r)
      /\ Members(s)' = DOMAIN after
  BY <1>2, <1>5 DEF Members, IsEmpty
<1>8. SoundCalls'
  <2>1. counters' \in [Node -> [Stream -> Nat]]
    BY <1>1 DEF CountersAfterLeave, SoundCalls
  <2>2. n \in DOMAIN t => t[n] \subseteq Node
    BY <1>2 DEF Sound, IsTopology
  <2> QED BY <1>1, <2>1, <2>2 DEF SoundCalls
<1>9. OneLeaver'
  <2>1. ASSUME NEW m \in Node, NEW r \in Stream, <<m, r>> \in leaving' PROVE r \in Streams'
    BY <1>1, <1>5, <2>1 DEF OneLeaver
  <2>2. ASSUME NEW r \in Streams', Members(r)' = {} PROVE \E m \in Node : <<m, r>> \in leaving'
    <3>1. r # s  BY <1>5, <1>7, <2>2 DEF IsEmpty
    <3>2. r \in Streams /\ r \in Stream /\ Members(r) = {}
      BY <1>5, <1>7, <2>2, <3>1 DEF SoundOverlays
    <3> QED BY <1>1, <3>1, <3>2 DEF OneLeaver
  <2>3. \A m, k \in Node, q, r \in Stream :
          <<m, q>> \in leaving' /\ <<k, r>> \in leaving' => m = k
    BY <1>1 DEF OneLeaver
  <2> QED BY <2>1, <2>2, <2>3 DEF OneLeaver
<1>10. CountersOfMembers'
  <2> SUFFICES ASSUME NEW m \in Node, NEW r \in Stream, counters'[m][r] # 0
               PROVE  m \in Members(r)'
    BY DEF CountersOfMembers
  <2>1. m # n /\ counters[m][r] # 0
    BY <1>1 DEF CountersAfterLeave
  <2>2. m \in Members(r)  BY <2>1 DEF CountersOfMembers
  <2> QED BY <1>3, <1>4, <1>7, <2>1, <2>2
<1> QED BY <1>1, <1>6, <1>8, <1>9, <1>10 DEF SoundForm

\* What the overlay of s becomes while formInstructions runs has the same members.
LEMMA OverlayBecomes ==
    ASSUME TrackerInv, NEW s \in Streams, NEW t, Sound(t), DOMAIN t = Members(s),
           overlayPerStream' = [overlayPerStream EXCEPT ![s] = t]
    PROVE  /\ SoundOverlays'
           /\ UNCHANGED Streams /\ \A r \in Stream : UNCHANGED Members(r)
           /\ overlayPerStream'[s] = t
<1>1. /\ DOMAIN overlayPerStream' = DOMAIN overlayPerStream
      /\ \A r \in Streams : overlayPerStream'[r] = IF r = s THEN t ELSE overlayPerStream[r]
  BY DEF Streams
<1>2. UNCHANGED Streams  BY <1>1 DEF Streams
<1>3. SoundOverlays'
  BY <1>1, <1>2 DEF TrackerInv, SoundOverlays
<1>4. \A r \in Stream : UNCHANGED Members(r)
  BY <1>1, <1>2 DEF Members
<1> QED BY <1>1, <1>2, <1>3, <1>4

LEMMA StartsFormingKeepsTrackerInv ==
    ASSUME TrackerInv, NEW n \in Node, NEW s \in Stream, NEW force \in BOOLEAN,
           StartsForming(n, s, force), SoundCalls', UNCHANGED leaving
    PROVE  TrackerInv'
<1>1. CASE n \notin Members(s)
  <2>1. UNCHANGED <<overlayPerStream, form, counters, leaving>>
    BY <1>1 DEF StartsForming
  <2>2. UNCHANGED Streams /\ \A r : UNCHANGED Members(r)
    BY <2>1 DEF Streams, Members
  <2> QED
    BY <2>1, <2>2
       DEF TrackerInv, SoundOverlays, SoundForm, OneLeaver, CountersOfMembers, Strangers
<1>2. CASE n \in Members(s)
  <2>1. PICK x \in Started(overlayPerStream[s], n, force) :
          /\ overlayPerStream' = [overlayPerStream EXCEPT ![s] = x.nodes]
          /\ form' = [node |-> n, stream |-> s, targets |-> x.targets,
                      updated |-> x.updated, old |-> overlayPerStream[s]]
    BY <1>2 DEF StartsForming
  <2>2. s \in Streams /\ Members(s) = DOMAIN overlayPerStream[s]
    BY <1>2 DEF Members
  <2>3. Sound(overlayPerStream[s])  BY <2>2 DEF TrackerInv, SoundOverlays
  <2>4. /\ Sound(x.nodes)
        /\ DOMAIN x.nodes = Members(s)
        /\ x.targets \subseteq Strangers(x.nodes, n)
        /\ x.updated \subseteq Members(s)
    BY <1>2, <2>1, <2>2, <2>3, StartedIsSound
  <2>5. /\ SoundOverlays'
        /\ UNCHANGED Streams /\ \A r \in Stream : UNCHANGED Members(r)
        /\ overlayPerStream'[s] = x.nodes
    BY <2>1, <2>2, <2>4, OverlayBecomes
  <2>6. SoundForm'
    <3>1. x.targets \subseteq Node /\ x.updated \subseteq Node /\ n \in Node
      BY <2>2, <2>3, <2>4, SoundIsTyped DEF Strangers
    <3>2. form' \in Form
      BY <2>1, <2>3, <3>1, SoundIsTyped DEF Form
    <3> QED BY <1>2, <2>1, <2>2, <2>4, <2>5, <3>2 DEF SoundForm, Strangers
  <2>7. counters' = counters  BY DEF StartsForming
  <2>8. OneLeaver' /\ CountersOfMembers'
    BY <2>5, <2>7 DEF TrackerInv, OneLeaver, CountersOfMembers, SoundOverlays
  <2> QED BY <2>5, <2>6, <2>8 DEF TrackerInv
<1> QED BY <1>1, <1>2

LEMMA FormForNeighborKeepsTrackerInv ==
    ASSUME TrackerInv, NEW n \in Node, NEW s \in Stream, FormForNeighbor(n, s)
    PROVE  TrackerInv'
<1>1. SoundCalls' /\ UNCHANGED leaving
  BY DEF TrackerInv, SoundCalls, FormForNeighbor, StartsForming
<1>2. StartsForming(n, s, TRUE)  BY DEF FormForNeighbor
<1> QED BY <1>1, <1>2, StartsFormingKeepsTrackerInv

LEMMA FormForSenderKeepsTrackerInv ==
    ASSUME TrackerInv, NEW n \in Node, NEW s \in Stream, FormForSender(n, s)
    PROVE  TrackerInv'
<1>1. SoundCalls' /\ UNCHANGED leaving
  BY DEF TrackerInv, SoundCalls, FormForSender, StartsForming
<1>2. StartsForming(n, s, FALSE)  BY DEF FormForSender
<1> QED BY <1>1, <1>2, StartsFormingKeepsTrackerInv

LEMMA RewireKeepsTrackerInv ==
    ASSUME TrackerInv, RewireOverlay
    PROVE  TrackerInv'
<1>0. PICK s, n : s = form.stream /\ n = form.node
  OBVIOUS
<1>1. /\ form # None
      /\ UNCHANGED <<counters, leaving, forcing, forming>>
  BY DEF RewireOverlay, Rewiring
<1>2. PICK n1 \in form.targets :
        \E x \in Turned(overlayPerStream[s], n, n1, form.targets, form.updated) :
           /\ overlayPerStream' = [overlayPerStream EXCEPT ![s] = x.nodes]
           /\ form' = [form EXCEPT !.targets = x.targets, !.updated = x.updated]
  BY <1>0, Zenon DEF RewireOverlay
<1>3. PICK x \in Turned(overlayPerStream[s], n, n1, form.targets, form.updated) :
           /\ overlayPerStream' = [overlayPerStream EXCEPT ![s] = x.nodes]
           /\ form' = [form EXCEPT !.targets = x.targets, !.updated = x.updated]
  BY <1>2, Zenon
<1>4. /\ s \in Streams /\ n \in Members(s) /\ Members(s) = DOMAIN overlayPerStream[s]
      /\ form.targets \subseteq Strangers(overlayPerStream[s], n)
      /\ form.updated \subseteq Members(s)
      /\ Sound(overlayPerStream[s])
  BY <1>0, <1>1 DEF TrackerInv, SoundForm, SoundOverlays, Members
<1>5. /\ Sound(x.nodes)
      /\ DOMAIN x.nodes = Members(s)
      /\ x.targets \subseteq Strangers(x.nodes, n)
      /\ x.updated \subseteq Members(s)
  <2> DEFINE t == overlayPerStream[s]
             T == form.targets
             U == form.updated
  <2>1. /\ Sound(t) /\ n \in DOMAIN t /\ T \subseteq Strangers(t, n) /\ U \subseteq DOMAIN t
        /\ n1 \in T /\ x \in Turned(t, n, n1, T, U)
        /\ Members(s) = DOMAIN t
    BY <1>2, <1>3, <1>4
  <2> HIDE DEF t, T, U
  <2> QED BY <2>1, TurnedIsSound
<1>6. /\ SoundOverlays'
      /\ UNCHANGED Streams /\ \A r \in Stream : UNCHANGED Members(r)
      /\ overlayPerStream'[s] = x.nodes
  BY <1>3, <1>4, <1>5, OverlayBecomes
<1>7. SoundForm'
  <2>1. /\ form' \in Form
        /\ form'.stream = s /\ form'.node = n
        /\ form'.targets = x.targets /\ form'.updated = x.updated
    <3>1. form \in Form  BY <1>1 DEF TrackerInv, SoundForm
    <3>2. x.targets \subseteq Node /\ x.updated \subseteq Node
      BY <1>4, <1>5, SoundIsTyped DEF Strangers
    <3> QED BY <1>0, <1>3, <3>1, <3>2 DEF Form
  <2>2. s \in Streams' /\ Members(s)' = Members(s)
    BY <1>4, <1>6 DEF TrackerInv, SoundOverlays
  <2>3. n \in Members(form.stream)' /\ x.updated \subseteq Members(form.stream)'
    BY <1>4, <1>5, <2>1, <2>2
  <2>4. form'.targets \subseteq Strangers(overlayPerStream'[form'.stream], form'.node)
    <3>1. x.targets \subseteq Strangers(overlayPerStream'[s], n)  BY <1>5, <1>6
    <3> QED BY <2>1, <3>1
  <2>5. form'.stream \in Streams' /\ form'.node \in Members(form.stream)'
        /\ form'.updated \subseteq Members(form.stream)'
    BY <2>1, <2>2, <2>3
  <2> QED BY <2>1, <2>4, <2>5 DEF SoundForm
<1>8. OneLeaver'
  BY <1>1, <1>6 DEF TrackerInv, OneLeaver, SoundOverlays
<1>9. CountersOfMembers'
  BY <1>1, <1>6 DEF TrackerInv, CountersOfMembers
<1>10. SoundCalls'
  BY <1>1 DEF TrackerInv, SoundCalls
<1> QED BY <1>6, <1>7, <1>8, <1>9, <1>10 DEF TrackerInv

\* Only members of the overlay are given counters.
LEMMA SendInstructionsKeepsTrackerInv ==
    ASSUME TrackerInv, SendInstructions
    PROVE  TrackerInv'
<1>1. /\ form # None /\ form' = None
      /\ UNCHANGED <<overlayPerStream, leaving, forcing, forming>>
      /\ counters' = [n \in Node |->
            IF n \in form.updated THEN [counters[n] EXCEPT ![form.stream] = CounterFor(n)]
            ELSE counters[n]]
  BY DEF SendInstructions, Sending
<1>2. UNCHANGED Streams /\ \A r : UNCHANGED Members(r)
  BY <1>1 DEF Streams, Members
<1>3. /\ form.stream \in Stream
      /\ form.updated \subseteq Members(form.stream)
      /\ counters \in [Node -> [Stream -> Nat]]
  BY <1>1 DEF TrackerInv, SoundForm, SoundOverlays, SoundCalls
<1>4. \A n \in Node : CounterFor(n) \in Nat
  BY <1>3 DEF CounterFor
<1>5. SoundCalls'
  BY <1>1, <1>3, <1>4 DEF TrackerInv, SoundCalls
<1>6. CountersOfMembers'
  <2> SUFFICES ASSUME NEW n \in Node, NEW s \in Stream, counters'[n][s] # 0
               PROVE  n \in Members(s)'
    BY DEF CountersOfMembers
  <2>1. CASE n \in form.updated /\ s = form.stream
    BY <1>2, <1>3, <2>1
  <2>2. CASE ~ (n \in form.updated /\ s = form.stream)
    <3>1. counters'[n][s] = counters[n][s]  BY <1>1, <1>3, <2>2
    <3> QED BY <1>2, <3>1 DEF TrackerInv, CountersOfMembers
  <2> QED BY <2>1, <2>2
<1>7. SoundOverlays' /\ SoundForm' /\ OneLeaver'
  BY <1>1, <1>2 DEF TrackerInv, SoundOverlays, SoundForm, OneLeaver
<1> QED BY <1>5, <1>6, <1>7 DEF TrackerInv

-----------------------------------------------------------------------------
(* The theorems.                                                           *)

\* Whatever statuses come, from whatever nodes.
AnyTrackerStep ==
    \/ \E n \in Node :
         \/ \E streams : IsFullStatus(streams) /\ FullStatus(n, streams)
         \/ \E s \in Stream, report \in Report : StreamStatus(n, s, report)
         \/ RemoveNode(n)
    \/ TrackerCalls
    \/ SendInstructions
    \/ UNCHANGED trackerVars

LEMMA AnyStepKeepsTrackerInv == TrackerInv /\ AnyTrackerStep => TrackerInv'
<1> SUFFICES ASSUME TrackerInv, AnyTrackerStep PROVE TrackerInv'
  OBVIOUS
<1>1. ASSUME NEW n \in Node, NEW streams, IsFullStatus(streams), FullStatus(n, streams)
      PROVE  TrackerInv'
  BY <1>1, FullStatusKeepsTrackerInv
<1>2. ASSUME NEW n \in Node, NEW s \in Stream, NEW report \in Report, StreamStatus(n, s, report)
      PROVE  TrackerInv'
  BY <1>2, StreamStatusKeepsTrackerInv
<1>3. ASSUME NEW n \in Node, RemoveNode(n) PROVE TrackerInv'
  BY <1>3, RemoveNodeKeepsTrackerInv
<1>4. ASSUME TrackerCalls PROVE TrackerInv'
  BY <1>4, LeaveStreamKeepsTrackerInv, FormForNeighborKeepsTrackerInv, FormForSenderKeepsTrackerInv, RewireKeepsTrackerInv
     DEF TrackerCalls
<1>5. ASSUME SendInstructions PROVE TrackerInv'
  BY <1>5, SendInstructionsKeepsTrackerInv
<1>6. ASSUME UNCHANGED trackerVars PROVE TrackerInv'
  <2>1. UNCHANGED Streams /\ \A r : UNCHANGED Members(r)
    BY <1>6 DEF trackerVars, Streams, Members
  <2> QED
    BY <1>6, <2>1 DEF TrackerInv, trackerVars, calls, SoundOverlays, SoundForm, SoundCalls, OneLeaver,
                      CountersOfMembers, Strangers
<1> QED BY <1>1, <1>2, <1>3, <1>4, <1>5, <1>6 DEF AnyTrackerStep

\* The bounds of TrackerAlone leave some of them.
LEMMA TrackerStepsAreSteps == [TrackerNext]_trackerVars => AnyTrackerStep
<1> SUFFICES ASSUME [TrackerNext]_trackerVars PROVE AnyTrackerStep
  OBVIOUS
<1>1. ASSUME NEW n \in Node, Status(n) PROVE AnyTrackerStep
  <2>1. StreamsOf(n) \subseteq Stream  BY DEF StreamsOf
  <2>2. CASE \E S \in SUBSET StreamsOf(n) : \E streams \in [S -> Counted] : FullStatus(n, streams)
    BY <2>2, CountedIsReported DEF AnyTrackerStep
  <2>3. CASE \E s \in StreamsOf(n) : \E report \in Counted \cup {HasLeft} :
                StreamStatus(n, s, report)
    BY <2>1, <2>3, CountedIsReported DEF AnyTrackerStep
  <2> QED BY <1>1, <2>2, <2>3 DEF Status
<1> QED BY <1>1 DEF TrackerNext, AnyTrackerStep

LEMMA StepTrackerInv == TrackerInv /\ [TrackerNext]_trackerVars => TrackerInv'
BY TrackerStepsAreSteps, AnyStepKeepsTrackerInv

\* The inductive invariant holds in every reachable state.
LEMMA TrackerInvHolds == TrackerSpec => []TrackerInv
BY InitTrackerInv, StepTrackerInv, PTL DEF TrackerSpec

\* Whatever nodes report, every overlay is a topology of nodes and every call the tracker has
\* still to make is for an overlay's member.
THEOREM TrackerTypeCorrect == TrackerSpec => []TrackerTypeOK
<1>1. TrackerInv => TrackerTypeOK
  BY DEF TrackerInv, SoundOverlays, SoundForm, SoundCalls, Sound, TrackerTypeOK, Strangers, Members
<1> QED BY <1>1, TrackerInvHolds, PTL

\* In the overlay of every stream, neighborhood is mutual and nobody is its own neighbor.
THEOREM OverlaysAreSound == TrackerSpec => [](\A s \in Streams : Sound(overlayPerStream[s]))
<1>1. TrackerInv => \A s \in Streams : Sound(overlayPerStream[s])
  BY DEF TrackerInv, SoundOverlays
<1> QED BY <1>1, TrackerInvHolds, PTL

\* No overlay is left behind without nodes.
THEOREM EmptyOverlaysGoAway == TrackerSpec => []NoEmptyOverlay
<1>1. TrackerInv => NoEmptyOverlay
  BY DEF TrackerInv, OneLeaver, NoEmptyOverlay, Idle
<1> QED BY <1>1, TrackerInvHolds, PTL

\* The tracker keeps a counter for a node only while the node is in the overlay.
THEOREM CountersBelongToMembers == TrackerSpec => []CountersOfMembers
<1>1. TrackerInv => CountersOfMembers  BY DEF TrackerInv
<1> QED BY <1>1, TrackerInvHolds, PTL

\* What the tracker keeps goes away with the memberships it is about.
THEOREM TablesAreKept == TrackerSpec => []TablesFollowMembers
<1>1. NoEmptyOverlay /\ CountersOfMembers => TablesFollowMembers  BY DEF TablesFollowMembers
<1> QED BY <1>1, EmptyOverlaysGoAway, CountersBelongToMembers, PTL

-----------------------------------------------------------------------------
(* The refinement of OverlayTopology by the overlay of each stream.        *)

StepOf(s) == Overlay(s)!Next \/ UNCHANGED Overlay(s)!vars

\* The operations on topologies are the same in the instance.
LEMMA SameOperations ==
    ASSUME NEW s
    PROVE  /\ Overlay(s)!Nothing = Nothing
           /\ \A t, n, r : Overlay(s)!Updated(t, n, r) = Updated(t, n, r)
           /\ \A t, n : Overlay(s)!Left(t, n) = Left(t, n)
           /\ \A t, n : Overlay(s)!Missing(t, n) = Missing(t, n)
           /\ \A S, k : Overlay(s)!Picks(S, k) = Picks(S, k)
           /\ \A t, n : Overlay(s)!OpenStrangers(t, n) = OpenStrangers(t, n)
           /\ \A t, n : Overlay(s)!FullStrangers(t, n) = FullStrangers(t, n)
           /\ \A t, n, n1 : Overlay(s)!Splittable(t, n, n1) = Splittable(t, n, n1)
           /\ \A t, n, n1, n2 : Overlay(s)!Rewired(t, n, n1, n2) = Rewired(t, n, n1, n2)
<1>1. \A S : Overlay(s)!Cardinality(S) = Cardinality(S)
  BY Zenon DEF Cardinality, Overlay!Cardinality
<1>2. Overlay(s)!Nothing = Nothing  BY DEF Nothing, Overlay!Nothing
<1>3. \A t, n, r : Overlay(s)!Updated(t, n, r) = Updated(t, n, r)
  BY DEF Updated, Overlay!Updated
<1>4. \A t, n : Overlay(s)!Left(t, n) = Left(t, n)  BY DEF Left, Overlay!Left
<1>5. \A t, n : Overlay(s)!Missing(t, n) = Missing(t, n)  BY <1>1 DEF Missing, Overlay!Missing
<1>6. \A S, k : Overlay(s)!Picks(S, k) = Picks(S, k)
  BY <1>1, SMTT(30) DEF Picks, Overlay!Picks
<1>7. \A t, n : Overlay(s)!Strangers(t, n) = Strangers(t, n)
  BY Zenon DEF Strangers, Overlay!Strangers
<1>8. \A t, n : Overlay(s)!OpenStrangers(t, n) = OpenStrangers(t, n)
  BY <1>5, <1>7 DEF OpenStrangers, Overlay!OpenStrangers
<1>9. \A t, n : Overlay(s)!FullStrangers(t, n) = FullStrangers(t, n)
  BY <1>5, <1>7 DEF FullStrangers, Overlay!FullStrangers
<1>10. \A t, n, n1 : Overlay(s)!Splittable(t, n, n1) = Splittable(t, n, n1)
  BY Zenon DEF Splittable, Overlay!Splittable
<1>11. \A t, n, n1, n2 : Overlay(s)!Rewired(t, n, n1, n2) = Rewired(t, n, n1, n2)
  BY Zenon DEF Rewired, Overlay!Rewired
<1> QED BY <1>2, <1>3, <1>4, <1>5, <1>6, <1>8, <1>9, <1>10, <1>11

LEMMA StutterOf ==
    ASSUME NEW s, UNCHANGED OverlayOf(s),
           UNCHANGED form \/ (~ FormIn(s) /\ ~ FormIn(s)')
    PROVE  StepOf(s)
<1>1. UNCHANGED Overlay(s)!vars
  BY SameOperations DEF Overlay!vars, FormIn
<1> QED BY <1>1 DEF StepOf

LEMMA UpdateOf ==
    ASSUME NEW s, NEW n \in Node, NEW r \in SUBSET Node, form = None, form' = None,
           OverlayOf(s)' = Updated(OverlayOf(s), n, r)
    PROVE  StepOf(s)
<1>1. Overlay(s)!Update(n, r)
  BY SameOperations DEF Overlay!Update, FormIn
<1> QED BY <1>1 DEF StepOf, Overlay!Next

LEMMA LeaveOf ==
    ASSUME NEW s, NEW n \in Node, form = None, form' = None,
           n \in DOMAIN OverlayOf(s), OverlayOf(s)' = Left(OverlayOf(s), n)
    PROVE  StepOf(s)
<1>1. Overlay(s)!Leave(n)
  BY SameOperations DEF Overlay!Leave, FormIn
<1> QED BY <1>1 DEF StepOf, Overlay!Next

LEMMA StartOf ==
    ASSUME NEW s, NEW n \in Node, NEW force \in BOOLEAN, form = None, form' \in Form,
           Sound(OverlayOf(s)), n \in DOMAIN OverlayOf(s), NEW x \in Started(OverlayOf(s), n, force),
           OverlayOf(s)' = x.nodes,
           form' = [node |-> n, stream |-> s, targets |-> x.targets,
                    updated |-> x.updated, old |-> OverlayOf(s)]
    PROVE  StepOf(s)
<1> DEFINE t == OverlayOf(s)
<1>1. /\ ~ FormIn(s) /\ FormIn(s)'
      /\ form'.node = n /\ form'.targets = x.targets
      /\ form'.updated = x.updated /\ form'.old = t
  BY NoneAssumption, NoFormAssumption DEF FormIn
<1>2. CASE Missing(t, n) < 0
  <2>1. PICK kept \in Picks(t[n], MaxNeighbors) :
          x = [nodes |-> Updated(t, n, kept), updated |-> {n}, targets |-> {}]
    BY <1>2 DEF Started
  <2>2. x.nodes = Updated(t, n, kept) /\ x.updated = {n} /\ x.targets = {}
    BY <2>1
  <2>3. Overlay(s)!FormReduces(n)
    BY <1>1, <1>2, <2>2, SameOperations DEF Overlay!FormReduces
  <2> QED BY <2>3 DEF StepOf, Overlay!Next
<1>3. CASE ~ Missing(t, n) < 0
  <2>1. PICK added \in Picks(OpenStrangers(t, n), Missing(t, n)) :
          LET u == IF added = {} THEN t ELSE Updated(t, n, t[n] \cup added)
          IN  x = [nodes |-> u,
                   updated |-> IF added = {} /\ ~ force THEN {} ELSE added \cup {n},
                   targets |-> IF Missing(u, n) > 1 THEN FullStrangers(u, n) ELSE {}]
    BY <1>3 DEF Started
  <2>2. /\ x.nodes = IF added = {} THEN t ELSE Updated(t, n, t[n] \cup added)
        /\ x.updated = IF added = {} /\ ~ force THEN {} ELSE added \cup {n}
        /\ x.targets = IF Missing(x.nodes, n) > 1 THEN FullStrangers(x.nodes, n) ELSE {}
    BY <2>1
  <2>3. Missing(t, n) >= 0
    BY <1>3, NeighborsAreFinite DEF Sound
  <2>4. /\ added \in Overlay(s)!Picks(Overlay(s)!OpenStrangers(t, n), Overlay(s)!Missing(t, n))
        /\ x.nodes = IF added = {} THEN t ELSE Overlay(s)!Updated(t, n, t[n] \cup added)
        /\ x.targets = IF Overlay(s)!Missing(x.nodes, n) > 1
                       THEN Overlay(s)!FullStrangers(x.nodes, n) ELSE {}
        /\ Overlay(s)!Missing(t, n) >= 0
    <3>1. Overlay(s)!OpenStrangers(t, n) = OpenStrangers(t, n)  BY SameOperations
    <3>2. Overlay(s)!Missing(t, n) = Missing(t, n)  BY SameOperations
    <3>3. Overlay(s)!Picks(OpenStrangers(t, n), Missing(t, n))
            = Picks(OpenStrangers(t, n), Missing(t, n))
      BY SameOperations
    <3> QED BY <2>2, <2>3, <3>1, <3>2, <3>3, SameOperations
  <2>5. Overlay(s)!FormFills(n, force)
    BY <1>1, <2>2, <2>4 DEF Overlay!FormFills
  <2> QED BY <2>5 DEF StepOf, Overlay!Next
<1> QED BY <1>2, <1>3

LEMMA TurnOf ==
    ASSUME NEW s, NEW n1 \in Node, form # None, form.stream = s, form.node \in Node,
           form' # None, form'.stream = s, form'.node = form.node, form'.old = form.old,
           Missing(OverlayOf(s), form.node) > 1, n1 \in form.targets,
           NEW x \in Turned(OverlayOf(s), form.node, n1, form.targets, form.updated),
           OverlayOf(s)' = x.nodes, form'.targets = x.targets, form'.updated = x.updated
    PROVE  StepOf(s)
<1> DEFINE t == OverlayOf(s)
<1>1. FormIn(s) /\ FormIn(s)' /\ form.node # None
  BY NoneAssumption, NoFormAssumption DEF FormIn
<1>2. /\ Overlay(s)!Missing(t, form.node) > 1
      /\ Overlay(s)!Splittable(t, form.node, n1) = Splittable(t, form.node, n1)
  BY SameOperations
<1>3. CASE Splittable(t, form.node, n1) = {}
  <2>1. x = [nodes |-> t, updated |-> form.updated, targets |-> form.targets \ {n1}]
    BY <1>3 DEF Turned
  <2>2. Overlay(s)!Rewire(n1)
    BY <1>1, <1>2, <1>3, <2>1 DEF Overlay!Rewire, Overlay!MayRewire
  <2> QED BY <2>2 DEF StepOf, Overlay!Next
<1>4. CASE Splittable(t, form.node, n1) # {}
  <2>1. PICK n2 \in Splittable(t, form.node, n1) :
          x = [nodes |-> Rewired(t, form.node, n1, n2),
               updated |-> form.updated \cup {form.node, n1, n2},
               targets |-> form.targets \ {n1, n2}]
    BY <1>4 DEF Turned
  <2>2. /\ x.nodes = Overlay(s)!Rewired(t, form.node, n1, n2)
        /\ x.updated = form.updated \cup {form.node, n1, n2}
        /\ x.targets = form.targets \ {n1, n2}
    BY <2>1, SameOperations
  <2>3. Overlay(s)!Rewire(n1)
    BY <1>1, <1>2, <2>1, <2>2
       DEF Overlay!Rewire, Overlay!MayRewire, Overlay!OtherTargets, Overlay!Told
  <2> QED BY <2>3 DEF StepOf, Overlay!Next
<1> QED BY <1>3, <1>4

LEMMA ReturnOf ==
    ASSUME NEW s, form # None, form.stream = s, form.node \in Node, form' = None,
           ~ Rewiring, UNCHANGED OverlayOf(s), OverlayOf(s) = overlayPerStream[s]
    PROVE  StepOf(s)
<1>1. FormIn(s) /\ ~ FormIn(s)' /\ form.node # None
  BY NoneAssumption, NoFormAssumption DEF FormIn
<1>2. ~ (Overlay(s)!Missing(OverlayOf(s), form.node) > 1 /\ form.targets # {})
  BY SameOperations DEF Rewiring
<1>3. Overlay(s)!FormReturns
  BY <1>1, <1>2, SameOperations
     DEF Overlay!FormReturns, Overlay!Returning, Overlay!MayRewire
<1> QED BY <1>3 DEF StepOf, Overlay!Next

\* The overlay of one stream, when that of another is replaced.
LEMMA OnlyOneOverlayChanges ==
    ASSUME NEW r \in Streams, NEW t, overlayPerStream' = [overlayPerStream EXCEPT ![r] = t]
    PROVE  /\ OverlayOf(r)' = t
           /\ \A s : s # r => OverlayOf(s)' = OverlayOf(s)
<1>1. /\ Streams' = Streams
      /\ \A s \in Streams : overlayPerStream'[s] = IF s = r THEN t ELSE overlayPerStream[s]
  BY DEF Streams
<1> QED BY <1>1 DEF OverlayOf, Nothing

LEMMA StatusRefines ==
    ASSUME TrackerInv, NEW n \in Node, NEW streams, DOMAIN streams \subseteq Stream,
           NEW updating, updating \subseteq DOMAIN streams,
           \A r \in updating : streams[r].neighbors \in SUBSET Node,
           form = None, form' = None,
           overlayPerStream' = OverlaysAfter(n, streams, updating), NEW s \in Stream
    PROVE  StepOf(s)
<1>1. /\ Streams' = Streams \cup DOMAIN streams
      /\ \A r \in Streams' : overlayPerStream'[r] =
            IF r \in updating THEN Updated(OverlayOf(r), n, streams[r].neighbors)
            ELSE OverlayOf(r)
  BY OverlaysAfterAreSound DEF TrackerInv
<1>2. CASE s \in updating
  <2>1. OverlayOf(s)' = Updated(OverlayOf(s), n, streams[s].neighbors)
    <3>1. s \in Streams'  BY <1>1, <1>2
    <3>2. OverlayOf(s)' = overlayPerStream'[s]  BY <3>1 DEF OverlayOf
    <3> QED BY <1>1, <1>2, <3>1, <3>2
  <2> QED BY <1>2, <2>1, UpdateOf
<1>3. CASE s \notin updating
  <2>1. CASE s \in Streams'
    <3>1. OverlayOf(s)' = overlayPerStream'[s]  BY <2>1 DEF OverlayOf
    <3> QED BY <1>1, <1>3, <2>1, <3>1, StutterOf
  <2>2. CASE s \notin Streams'
    <3>1. OverlayOf(s)' = OverlayOf(s)  BY <1>1, <2>2 DEF OverlayOf, Nothing
    <3> QED BY <3>1, StutterOf
  <2> QED BY <2>1, <2>2
<1> QED BY <1>2, <1>3

LEMMA FullStatusRefines ==
    ASSUME TrackerInv, NEW n \in Node, NEW streams, IsFullStatus(streams), FullStatus(n, streams),
           NEW s \in Stream
    PROVE  StepOf(s)
<1>1. /\ form = None /\ form' = None
      /\ overlayPerStream' = OverlaysAfter(n, streams, Filtered(n, streams))
  BY DEF FullStatus, Idle
<1>2. Filtered(n, streams) \subseteq DOMAIN streams /\ DOMAIN streams \subseteq Stream
  BY DEF Filtered, IsFullStatus
<1>3. \A r \in Filtered(n, streams) : streams[r].neighbors \in SUBSET Node
  BY DEF Filtered, IsFullStatus, Report
<1> QED BY <1>1, <1>2, <1>3, StatusRefines

LEMMA StreamStatusRefines ==
    ASSUME TrackerInv, NEW n \in Node, NEW r \in Stream, NEW report \in Report,
           StreamStatus(n, r, report), NEW s \in Stream
    PROVE  StepOf(s)
<1> DEFINE streams == [q \in {r} |-> report]
           updating == IF report.counter = -1 THEN {} ELSE Filtered(n, streams)
<1>1. /\ form = None /\ form' = None
      /\ overlayPerStream' = OverlaysAfter(n, streams, updating)
  BY DEF StreamStatus, Idle
<1>2. updating \subseteq DOMAIN streams /\ DOMAIN streams \subseteq Stream
  BY DEF Filtered
<1>3. \A q \in updating : streams[q].neighbors \in SUBSET Node
  BY DEF Filtered, Report
<1> HIDE DEF streams, updating
<1> QED BY <1>1, <1>2, <1>3, StatusRefines

\* An overlay that is deleted has no nodes.
LEMMA LeaveStreamRefines ==
    ASSUME TrackerInv, NEW n \in Node, NEW r \in Stream, LeaveStream(n, r), NEW s \in Stream
    PROVE  StepOf(s)
<1> DEFINE t == overlayPerStream[r]
           after == AfterLeave(t, n)
<1>1. /\ <<n, r>> \in leaving /\ form = None /\ form' = None
      /\ overlayPerStream' = [q \in IF IsEmpty(after) THEN Streams \ {r} ELSE Streams |->
                                 IF q = r THEN after ELSE overlayPerStream[q]]
  BY DEF LeaveStream
<1>2. r \in Streams /\ Sound(t)
  BY <1>1 DEF TrackerInv, OneLeaver, SoundOverlays
<1>3. OverlayOf(r) = t  BY <1>2 DEF OverlayOf
<1>4. /\ n \in DOMAIN t => after = Left(t, n)
      /\ n \notin DOMAIN t => after = t
  BY DEF AfterLeave
<1>5. IsEmpty(after) => after = Nothing
  <2>1. Sound(after)  BY <1>2, AfterLeaveIsSound
  <2>2. after \in [DOMAIN after -> SUBSET DOMAIN after]  BY <2>1 DEF Sound, IsTopology
  <2> QED BY <2>2 DEF IsEmpty, Nothing
<1> HIDE DEF t, after
<1>6. /\ Streams' = IF IsEmpty(after) THEN Streams \ {r} ELSE Streams
      /\ \A q \in Streams' : overlayPerStream'[q] = IF q = r THEN after ELSE overlayPerStream[q]
  BY <1>1 DEF Streams
<1>7. OverlayOf(r)' = after /\ (s # r => OverlayOf(s)' = OverlayOf(s))
  BY <1>2, <1>5, <1>6 DEF OverlayOf, Nothing
<1>8. CASE s = r /\ n \in DOMAIN t
  BY <1>1, <1>3, <1>4, <1>7, <1>8, LeaveOf
<1>9. CASE s # r \/ n \notin DOMAIN t
  BY <1>1, <1>3, <1>4, <1>7, <1>9, StutterOf
<1> QED BY <1>8, <1>9

LEMMA StartsFormingRefines ==
    ASSUME TrackerInv, NEW n \in Node, NEW r \in Stream, NEW force \in BOOLEAN,
           StartsForming(n, r, force), NEW s \in Stream
    PROVE  StepOf(s)
<1>1. form = None /\ ~ FormIn(s)
  BY DEF StartsForming, FormIn
<1>2. CASE n \notin Members(r)
  <2>1. UNCHANGED <<overlayPerStream, form>>  BY <1>2 DEF StartsForming
  <2>2. OverlayOf(s)' = OverlayOf(s)  BY <2>1 DEF OverlayOf, Streams, Nothing
  <2> QED BY <2>1, <2>2, StutterOf
<1>3. CASE n \in Members(r)
  <2>1. PICK x \in Started(overlayPerStream[r], n, force) :
          /\ overlayPerStream' = [overlayPerStream EXCEPT ![r] = x.nodes]
          /\ form' = [node |-> n, stream |-> r, targets |-> x.targets,
                      updated |-> x.updated, old |-> overlayPerStream[r]]
    BY <1>3 DEF StartsForming
  <2>2. r \in Streams /\ OverlayOf(r) = overlayPerStream[r] /\ n \in DOMAIN OverlayOf(r)
    BY <1>3 DEF Members, OverlayOf
  <2>3. Sound(OverlayOf(r))  BY <2>2 DEF TrackerInv, SoundOverlays
  <2>4. OverlayOf(r)' = x.nodes /\ (s # r => OverlayOf(s)' = OverlayOf(s))
    BY <2>1, <2>2, OnlyOneOverlayChanges
  <2>5. form' \in Form
    <3>1. /\ Sound(x.nodes)
          /\ DOMAIN x.nodes = DOMAIN OverlayOf(r)
          /\ x.targets \subseteq Strangers(x.nodes, n)
          /\ x.updated \subseteq DOMAIN OverlayOf(r)
      BY <2>1, <2>2, <2>3, StartedIsSound
    <3>2. x.targets \subseteq Node /\ x.updated \subseteq Node
      BY <2>3, <3>1, SoundIsTyped DEF Strangers
    <3> QED BY <2>1, <2>2, <2>3, <3>2, SoundIsTyped DEF Form
  <2>6. CASE s = r
    BY <1>1, <2>1, <2>2, <2>3, <2>4, <2>5, <2>6, StartOf
  <2>7. CASE s # r
    <3>1. ~ FormIn(s)'  BY <2>1, <2>7 DEF FormIn
    <3> QED BY <1>1, <2>4, <2>7, <3>1, StutterOf
  <2> QED BY <2>6, <2>7
<1> QED BY <1>2, <1>3

LEMMA RewireRefines ==
    ASSUME TrackerInv, RewireOverlay, NEW s \in Stream
    PROVE  StepOf(s)
<1>0. PICK r, n : r = form.stream /\ n = form.node
  OBVIOUS
<1>1. /\ form # None
      /\ Missing(overlayPerStream[r], n) > 1
  BY <1>0 DEF RewireOverlay, Rewiring
<1>2. PICK n1 \in form.targets :
        \E x \in Turned(overlayPerStream[r], n, n1, form.targets, form.updated) :
           /\ overlayPerStream' = [overlayPerStream EXCEPT ![r] = x.nodes]
           /\ form' = [form EXCEPT !.targets = x.targets, !.updated = x.updated]
  BY <1>0, Zenon DEF RewireOverlay
<1>3. PICK x \in Turned(overlayPerStream[r], n, n1, form.targets, form.updated) :
           /\ overlayPerStream' = [overlayPerStream EXCEPT ![r] = x.nodes]
           /\ form' = [form EXCEPT !.targets = x.targets, !.updated = x.updated]
  BY <1>2, Zenon
<1>4. form \in Form /\ r \in Streams /\ n \in Node /\ n1 \in Node
  BY <1>0, <1>1, <1>2 DEF TrackerInv, SoundForm, Form
<1>5. /\ form'.stream = r /\ form'.node = n /\ form'.old = form.old
      /\ form'.targets = x.targets /\ form'.updated = x.updated
  BY <1>0, <1>3, <1>4 DEF Form
<1>6. form' # None
  <2>1. x.targets \subseteq Node /\ x.updated \subseteq Node
    <3>1. form.targets \subseteq Node /\ form.updated \subseteq Node  BY <1>4 DEF Form
    <3>2. \A m \in Splittable(overlayPerStream[r], n, n1) : m \in Node
      <4>1. Sound(overlayPerStream[r])  BY <1>4 DEF TrackerInv, SoundOverlays
      <4>2. n1 \in DOMAIN overlayPerStream[r]
        BY <1>0, <1>1, <1>2 DEF TrackerInv, SoundForm, Strangers
      <4> QED BY <4>1, <4>2 DEF Sound, IsTopology, Splittable
    <3> QED BY <1>3, <1>4, <3>1, <3>2 DEF Turned
  <2>2. form' \in Form  BY <1>3, <1>4, <2>1 DEF Form
  <2> QED BY <2>2, NoneAssumption, NoFormAssumption
<1>7. /\ OverlayOf(r) = overlayPerStream[r] /\ OverlayOf(r)' = x.nodes
      /\ s # r => OverlayOf(s)' = OverlayOf(s)
  BY <1>3, <1>4, OnlyOneOverlayChanges DEF OverlayOf
<1>8. CASE s = r
  BY <1>0, <1>1, <1>2, <1>3, <1>4, <1>5, <1>6, <1>7, <1>8, TurnOf
<1>9. CASE s # r
  <2>1. ~ FormIn(s) /\ ~ FormIn(s)'  BY <1>0, <1>5, <1>9 DEF FormIn
  <2> QED BY <1>7, <1>9, <2>1, StutterOf
<1> QED BY <1>8, <1>9

LEMMA SendInstructionsRefines ==
    ASSUME TrackerInv, SendInstructions, NEW s \in Stream
    PROVE  StepOf(s)
<1>1. form # None /\ ~ Rewiring /\ form' = None /\ UNCHANGED overlayPerStream
  BY DEF SendInstructions, Sending
<1>2. form.node \in Node /\ form.stream \in Streams
  BY <1>1 DEF TrackerInv, SoundForm, Form
<1>3. OverlayOf(s)' = OverlayOf(s)  BY <1>1 DEF OverlayOf, Streams, Nothing
<1>4. CASE form.stream = s
  BY <1>1, <1>2, <1>3, <1>4, ReturnOf DEF OverlayOf
<1>5. CASE form.stream # s
  <2>1. ~ FormIn(s) /\ ~ FormIn(s)'  BY <1>1, <1>5 DEF FormIn
  <2> QED BY <1>3, <2>1, StutterOf
<1> QED BY <1>4, <1>5

LEMMA AnyStepRefines == TrackerInv /\ AnyTrackerStep => \A s \in Stream : StepOf(s)
<1> SUFFICES ASSUME TrackerInv, AnyTrackerStep, NEW s \in Stream PROVE StepOf(s)
  OBVIOUS
<1>1. ASSUME NEW n \in Node, NEW streams, IsFullStatus(streams), FullStatus(n, streams)
      PROVE  StepOf(s)
  BY <1>1, FullStatusRefines
<1>2. ASSUME NEW n \in Node, NEW r \in Stream, NEW report \in Report, StreamStatus(n, r, report)
      PROVE  StepOf(s)
  BY <1>2, StreamStatusRefines
<1>3. ASSUME UNCHANGED <<overlayPerStream, form>> PROVE StepOf(s)
  <2>1. OverlayOf(s)' = OverlayOf(s)  BY <1>3 DEF OverlayOf, Streams, Nothing
  <2> QED BY <1>3, <2>1, StutterOf
<1>4. ASSUME NEW n \in Node, RemoveNode(n) PROVE StepOf(s)
  BY <1>3, <1>4 DEF RemoveNode
<1>5. ASSUME NEW n \in Node, NEW r \in Stream, NEW force \in BOOLEAN,
             StartsForming(n, r, force)
      PROVE  StepOf(s)
  BY <1>5, StartsFormingRefines
<1>6. ASSUME TrackerCalls PROVE StepOf(s)
  BY <1>5, <1>6, LeaveStreamRefines, RewireRefines
     DEF TrackerCalls, FormForNeighbor, FormForSender
<1>7. ASSUME SendInstructions PROVE StepOf(s)
  BY <1>7, SendInstructionsRefines
<1>8. ASSUME UNCHANGED trackerVars PROVE StepOf(s)
  BY <1>3, <1>8 DEF trackerVars, calls
<1> QED BY <1>1, <1>2, <1>4, <1>6, <1>7, <1>8 DEF AnyTrackerStep

LEMMA InitRefines == TrackerInit => \A s \in Stream : Overlay(s)!Init
BY DEF TrackerInit, FormIn, OverlayOf, Streams, Nothing, Overlay!Init, Overlay!Nothing

\* What the tracker does to the overlay of each stream is what OverlayTopology does, so what is
\* proved of OverlayTopology holds of the overlay of every stream.
THEOREM OverlaysRefineTopology == TrackerSpec => OverlaysAreTopologies
<1>1. TrackerInit => \A s \in Stream : Overlay(s)!Init  BY InitRefines
<1>2. TrackerInv /\ [TrackerNext]_trackerVars => [\A s \in Stream : StepOf(s)]_trackerVars
  BY TrackerStepsAreSteps, AnyStepRefines
<1>3. (\A s \in Stream : StepOf(s))
        <=> \A s \in Stream : Overlay(s)!Next \/ UNCHANGED Overlay(s)!vars
  BY DEF StepOf
<1> QED BY <1>1, <1>2, <1>3, TrackerInvHolds, PTL DEF TrackerSpec, OverlaysAreTopologies

-----------------------------------------------------------------------------
(* The tracker among its nodes: what NodeInstructions and the sockets make *)
(* of its messages is within what the results above allow.                 *)

\* What a node keeps of a stream, and the messages.
Entry ==
    [isSetUp : BOOLEAN, neighbors : SUBSET Node, counter : Nat, seen : Nat,
     queue : Instruction \cup {None}, retry : Retry \cup {None},
     handlers : SUBSET Handler]

Counts == { report \in Report : report.counter \in Nat }

StatusMessage ==
    [single : {TRUE}, streams : UNION { [S -> Report] : S \in SUBSET Stream }]
      \cup [single : {FALSE}, streams : UNION { [S -> Counts] : S \in SUBSET Stream }]

SocketsOK == up \subseteq Node /\ known \subseteq Node /\ stale \subseteq Node

ChannelsOK == toTracker \in [Node -> Seq(StatusMessage)] /\ toNode \in [Node -> Seq(Instruction)]

HistoryOK ==
    /\ faults \in 0 .. MaxFaults
    /\ disturbed \in BOOLEAN
    /\ lastSent \in [Node -> [Stream -> Nat]]

NetworkInv ==
    /\ TrackerInv
    /\ node \in [Node -> [Stream -> Entry]]
    /\ SocketsOK /\ ChannelsOK /\ HistoryOK

LEMMA ReportsAreTyped ==
    ASSUME NEW entries \in [Stream -> Entry]
    PROVE  /\ \A s \in Stream : StatusOf(entries, s) \in StatusMessage
           /\ FullStatusOf(entries) \in StatusMessage
<1>1. ASSUME NEW s \in Stream
      PROVE  /\ ReportOf(entries[s]) \in Report
             /\ entries[s].isSetUp => ReportOf(entries[s]) \in Counts
  BY DEF ReportOf, Entry, Report, Counts
<1>2. ASSUME NEW s \in Stream PROVE StatusOf(entries, s) \in StatusMessage
  <2>1. [r \in {s} |-> ReportOf(entries[s])] \in [{s} -> Report]  BY <1>1
  <2> QED BY <2>1 DEF StatusOf, StatusMessage
<1>3. FullStatusOf(entries) \in StatusMessage
  <2> DEFINE S == { r \in Stream : entries[r].isSetUp }
  <2>1. [s \in S |-> ReportOf(entries[s])] \in [S -> Counts] /\ S \in SUBSET Stream  BY <1>1
  <2> QED BY <2>1 DEF FullStatusOf, StatusMessage
<1> QED BY <1>2, <1>3

LEMMA SentIsTyped ==
    ASSUME ChannelsOK, NEW n \in Node, NEW status \in StatusMessage
    PROVE  Sent(n, <<status>>) \in Seq(StatusMessage)
BY DEF Sent, ChannelsOK

LEMMA ChangedEntryIsTyped ==
    ASSUME NEW e \in Entry
    PROVE  /\ [e EXCEPT !.isSetUp = TRUE] \in Entry
           /\ \A k \in Nat : [e EXCEPT !.seen = k] \in Entry
           /\ \A i \in Instruction : [e EXCEPT !.queue = i] \in Entry
           /\ \A N \in SUBSET Node : [e EXCEPT !.neighbors = N] \in Entry
BY DEF Entry

LEMMA BegunIsTyped ==
    ASSUME NEW e \in Entry, NEW i \in Instruction, NEW again \in BOOLEAN, NEW by \in {"throttler", "retry"}
    PROVE  Begun(e, i, again, by) \in Entry
<1>1. [instruction |-> i, reattempt |-> again, by |-> by] \in Handler  BY DEF Handler
<1>2. [instruction |-> i, again |-> FALSE] \in Retry  BY DEF Retry
<1>3. e.handlers \cup {[instruction |-> i, reattempt |-> again, by |-> by]} \in SUBSET Handler
  BY <1>1 DEF Entry
<1>4. e.neighbors \cap i.nodeIds \in SUBSET Node  BY DEF Entry
<1> QED BY <1>2, <1>3, <1>4 DEF Begun, Entry

LEMMA EndedIsTyped ==
    ASSUME NEW e \in Entry, NEW h \in e.handlers, NEW failed
    PROVE  /\ Ended(e, h, failed) \in Entry
           /\ Continued(Ended(e, h, failed), h) \in Entry
<1>1. h \in Handler /\ h.instruction \in Instruction /\ h.instruction.nodeIds \subseteq Node
      /\ h.instruction.counter \in Nat
  BY DEF Entry, Handler, Instruction
<1>2. e.neighbors \cup (h.instruction.nodeIds \ failed) \in SUBSET Node /\ e.handlers \ {h} \in SUBSET Handler
  BY <1>1 DEF Entry
<1>3. Ended(e, h, failed) \in Entry
  BY <1>1, <1>2 DEF Ended, Entry
<1> DEFINE f == Ended(e, h, failed)
<1> HIDE DEF f
<1>4. f \in Entry  BY <1>3 DEF f
<1>5. ASSUME f.queue # None PROVE Begun([f EXCEPT !.queue = None], f.queue, FALSE, "throttler") \in Entry
  <2>1. f.queue \in Instruction /\ [f EXCEPT !.queue = None] \in Entry  BY <1>4, <1>5 DEF Entry
  <2> QED BY <2>1, BegunIsTyped
<1>6. [f EXCEPT !.retry = [instruction |-> h.instruction, again |-> TRUE]] \in Entry
  BY <1>1, <1>4 DEF Entry, Retry
<1>7. Continued(f, h) \in Entry
  BY <1>4, <1>5, <1>6 DEF Continued
<1> QED BY <1>3, <1>7 DEF f

\* What the tracker does in the network is what TrackerAlone lets it do for its bounds.
LEMMA NetworkStepsAreSteps == NetworkInv /\ [NetworkNext]_networkVars => AnyTrackerStep
<1> SUFFICES ASSUME NetworkInv, [NetworkNext]_networkVars PROVE AnyTrackerStep
  OBVIOUS
<1>1. ASSUME NEW n \in Node, ReceiveStatus(n) PROVE AnyTrackerStep
  <2> DEFINE status == Head(toTracker[n])
  <2>1. status \in StatusMessage
    BY <1>1 DEF ReceiveStatus, NetworkInv, ChannelsOK
  <2>2. CASE status.single
    <3>1. PICK s \in DOMAIN status.streams : StreamStatus(n, s, status.streams[s])
      BY <1>1, <2>2 DEF ReceiveStatus
    <3>2. s \in Stream /\ status.streams[s] \in Report
      BY <2>1, <2>2 DEF StatusMessage, Counts
    <3> QED BY <3>1, <3>2 DEF AnyTrackerStep
  <2>3. CASE ~ status.single
    <3>1. IsFullStatus(status.streams)
      BY <2>1, <2>3 DEF StatusMessage, Counts, IsFullStatus
    <3> QED BY <1>1, <2>3, <3>1 DEF ReceiveStatus, AnyTrackerStep
  <2> QED BY <2>2, <2>3
<1>2. ASSUME NEW n \in Node, NoticeClose(n) PROVE AnyTrackerStep
  BY <1>2 DEF NoticeClose, AnyTrackerStep
<1>3. ASSUME Send \/ Calls PROVE AnyTrackerStep
  BY <1>3 DEF Send, Calls, AnyTrackerStep
<1>4. ASSUME UNCHANGED trackerVars PROVE AnyTrackerStep
  BY <1>4 DEF AnyTrackerStep
<1>5. ASSUME NEW n \in Node,
             \/ ReceiveInstruction(n) \/ Connect(n) \/ Disconnect(n)
             \/ \E s \in Stream : \/ \E failed \in SUBSET Node : HandlerEnds(n, s, failed)
                                  \/ RetryFires(n, s) \/ Subscribe(n, s) \/ Unsubscribe(n, s)
             \/ \E m \in Node : ConnectionLost(m, n)
      PROVE  UNCHANGED trackerVars
  BY <1>5 DEF ReceiveInstruction, Connect, Disconnect, HandlerEnds, RetryFires, Subscribe, Unsubscribe,
              ConnectionLost
<1> QED BY <1>1, <1>2, <1>3, <1>4, <1>5 DEF NetworkNext, networkVars

LEMMA NetworkInitHolds == NetworkInit => NetworkInv
<1> SUFFICES ASSUME NetworkInit PROVE NetworkInv
  OBVIOUS
<1>1. TrackerInv  BY InitTrackerInv DEF NetworkInit
<1>2. Blank \in Entry  BY DEF Blank, Entry
<1>3. node \in [Node -> [Stream -> Entry]]  BY <1>2 DEF NetworkInit
<1>4. ChannelsOK  BY DEF NetworkInit, ChannelsOK
<1>5. HistoryOK
  <2>1. faults \in 0 .. MaxFaults  BY MaxFaultsAssumption DEF NetworkInit
  <2>2. disturbed \in BOOLEAN  BY DEF NetworkInit
  <2>3. lastSent \in [Node -> [Stream -> Nat]]  BY DEF NetworkInit, NoneSent
  <2> QED BY <2>1, <2>2, <2>3 DEF HistoryOK
<1> QED BY <1>1, <1>3, <1>4, <1>5 DEF NetworkInv, NetworkInit, SocketsOK

\* Steps of one node that change what it keeps of one stream, and perhaps report it.
LEMMA NodeStepKeepsTypes ==
    ASSUME NetworkInv, NEW n \in Node, NEW entries \in [Stream -> Entry],
           node' = [node EXCEPT ![n] = entries],
           \/ UNCHANGED toTracker
           \/ \E status \in StatusMessage : toTracker' = [toTracker EXCEPT ![n] = Sent(n, <<status>>)],
           UNCHANGED sockets
    PROVE  /\ node' \in [Node -> [Stream -> Entry]]
           /\ toTracker' \in [Node -> Seq(StatusMessage)]
           /\ SocketsOK'
<1>1. node' \in [Node -> [Stream -> Entry]]  BY DEF NetworkInv
<1>2. toTracker' \in [Node -> Seq(StatusMessage)]
  BY SentIsTyped DEF NetworkInv, ChannelsOK
<1> QED BY <1>1, <1>2 DEF NetworkInv, SocketsOK, sockets

LEMMA FailsOnce ==
    ASSUME HistoryOK, Fails \/ UNCHANGED faults
    PROVE  faults' \in 0 .. MaxFaults
BY MaxFaultsAssumption DEF Fails, HistoryOK

LEMMA NetworkStepKeepsTypes ==
    ASSUME NetworkInv, TrackerInv', [NetworkNext]_networkVars
    PROVE  NetworkInv'
<1> USE DEF NetworkInv
<1>1. ASSUME NEW n \in Node, ReceiveInstruction(n) PROVE NetworkInv'
  <2> DEFINE i == Head(toNode[n])
             s == i.stream
             e == [node[n][s] EXCEPT !.seen = i.counter]
  <2>1. i \in Instruction /\ s \in Stream /\ i.counter \in Nat
    <3>1. toNode[n] \in Seq(Instruction) /\ toNode[n] # <<>>
      BY <1>1 DEF ReceiveInstruction, ChannelsOK
    <3>2. i \in Instruction  BY <3>1
    <3> QED BY <3>2 DEF Instruction
  <2>2. e \in Entry
    <3>1. node[n][s] \in Entry  BY <2>1
    <3> QED BY <2>1, <3>1, ChangedEntryIsTyped
  <2>3. node' = node \/ node' = [node EXCEPT ![n][s] = [e EXCEPT !.queue = i]]
          \/ node' = [node EXCEPT ![n][s] = Begun(e, i, FALSE, "throttler")]
    BY <1>1 DEF ReceiveInstruction
  <2>4. [e EXCEPT !.queue = i] \in Entry  BY <2>1, <2>2, ChangedEntryIsTyped
  <2>5. Begun(e, i, FALSE, "throttler") \in Entry  BY <2>1, <2>2, BegunIsTyped
  <2>6. node' \in [Node -> [Stream -> Entry]]
    <3>1. \A x \in Entry : [node EXCEPT ![n][s] = x] \in [Node -> [Stream -> Entry]]
      BY <2>1
    <3> HIDE DEF i, s, e
    <3> QED BY <2>3, <2>4, <2>5, <3>1
  <2>7. toNode' \in [Node -> Seq(Instruction)]
    BY <1>1 DEF ReceiveInstruction, ChannelsOK
  <2>8. disturbed' \in BOOLEAN  BY <1>1 DEF ReceiveInstruction
  <2>9. UNCHANGED <<sockets, toTracker, faults, lastSent>>  BY <1>1 DEF ReceiveInstruction
  <2> QED BY <2>6, <2>7, <2>8, <2>9 DEF SocketsOK, ChannelsOK, HistoryOK, sockets
<1>2. ASSUME NEW n \in Node, NEW s \in Stream, NEW failed \in SUBSET Node, HandlerEnds(n, s, failed)
      PROVE  NetworkInv'
  <2>1. PICK h \in node[n][s].handlers :
          LET e == Ended(node[n][s], h, failed)
              reports == ~ h.reattempt \/ failed # {} \/ ~ e.isSetUp
          IN  /\ node' = [node EXCEPT ![n][s] = Continued(e, h)]
              /\ toTracker' = IF reports
                              THEN [toTracker EXCEPT ![n] =
                                       Sent(n, <<StatusOf([node[n] EXCEPT ![s] = e], s)>>)]
                              ELSE toTracker
              /\ IF failed = {} THEN UNCHANGED faults ELSE Fails
    BY <1>2 DEF HandlerEnds
  <2> DEFINE e == Ended(node[n][s], h, failed)
             entries == [node[n] EXCEPT ![s] = e]
             after == [node[n] EXCEPT ![s] = Continued(e, h)]
  <2>2. e \in Entry /\ Continued(e, h) \in Entry
    <3>1. node[n][s] \in Entry  OBVIOUS
    <3> QED BY <3>1, EndedIsTyped
  <2>3. entries \in [Stream -> Entry] /\ after \in [Stream -> Entry]  BY <2>2
  <2>4. StatusOf(entries, s) \in StatusMessage  BY <2>3, ReportsAreTyped
  <2>5. node' = [node EXCEPT ![n] = after]  BY <2>1
  <2>6. UNCHANGED toTracker \/ toTracker' = [toTracker EXCEPT ![n] = Sent(n, <<StatusOf(entries, s)>>)]
    BY <2>1
  <2>7. UNCHANGED <<sockets, toNode, disturbed, lastSent>>  BY <1>2 DEF HandlerEnds
  <2>8. faults' \in 0 .. MaxFaults  BY <2>1, FailsOnce
  <2> HIDE DEF entries, after
  <2>9. /\ node' \in [Node -> [Stream -> Entry]]
        /\ toTracker' \in [Node -> Seq(StatusMessage)]
        /\ SocketsOK'
    BY <2>3, <2>4, <2>5, <2>6, <2>7, NodeStepKeepsTypes
  <2> QED BY <2>7, <2>8, <2>9 DEF ChannelsOK, HistoryOK
<1>3. ASSUME NEW n \in Node, NEW s \in Stream, RetryFires(n, s) PROVE NetworkInv'
  <2> DEFINE e == node[n][s]
             after == [node[n] EXCEPT ![s] = Begun(e, e.retry.instruction, e.retry.again, "retry")]
  <2>1. e \in Entry /\ e.retry # None  BY <1>3 DEF RetryFires
  <2>2. e.retry.instruction \in Instruction /\ e.retry.again \in BOOLEAN  BY <2>1 DEF Entry, Retry
  <2>3. after \in [Stream -> Entry]  BY <2>1, <2>2, BegunIsTyped
  <2>4. node' = [node EXCEPT ![n] = after]  BY <1>3 DEF RetryFires
  <2>5. UNCHANGED <<sockets, channels, history>>  BY <1>3 DEF RetryFires
  <2>6. UNCHANGED toTracker  BY <2>5 DEF channels
  <2> HIDE DEF after
  <2>7. /\ node' \in [Node -> [Stream -> Entry]]
        /\ toTracker' \in [Node -> Seq(StatusMessage)]
        /\ SocketsOK'
    BY <2>3, <2>4, <2>5, <2>6, NodeStepKeepsTypes
  <2> QED BY <2>5, <2>7 DEF ChannelsOK, HistoryOK, channels, history
<1>4. ASSUME NEW n \in Node, NEW s \in Stream, Subscribe(n, s) PROVE NetworkInv'
  <2> DEFINE entries == [node[n] EXCEPT ![s].isSetUp = TRUE]
  <2>1. entries \in [Stream -> Entry]
    <3>1. node[n][s] \in Entry  OBVIOUS
    <3>2. [node[n][s] EXCEPT !.isSetUp = TRUE] \in Entry  BY <3>1, ChangedEntryIsTyped
    <3> QED BY <3>2
  <2>2. StatusOf(entries, s) \in StatusMessage  BY <2>1, ReportsAreTyped
  <2>3. /\ node' = [node EXCEPT ![n] = entries]
        /\ toTracker' = [toTracker EXCEPT ![n] = Sent(n, <<StatusOf(entries, s)>>)]
        /\ UNCHANGED <<sockets, toNode, history>>
    BY <1>4 DEF Subscribe
  <2> HIDE DEF entries
  <2>4. /\ node' \in [Node -> [Stream -> Entry]]
        /\ toTracker' \in [Node -> Seq(StatusMessage)]
        /\ SocketsOK'
    BY <2>1, <2>2, <2>3, NodeStepKeepsTypes
  <2> QED BY <2>3, <2>4 DEF ChannelsOK, HistoryOK, history
<1>5. ASSUME NEW n \in Node, NEW s \in Stream, Unsubscribe(n, s) PROVE NetworkInv'
  <2> DEFINE cancelled == { IF h.by = "throttler" THEN [h EXCEPT !.by = "cancelled"] ELSE h :
                              h \in node[n][s].handlers }
             entries == [node[n] EXCEPT ![s] = [Blank EXCEPT !.handlers = cancelled]]
  <2>1. cancelled \in SUBSET Handler
    <3>1. node[n][s].handlers \subseteq Handler  BY DEF Entry
    <3> QED BY <3>1 DEF Handler
  <2>2. entries \in [Stream -> Entry]
    <3>1. [Blank EXCEPT !.handlers = cancelled] \in Entry  BY <2>1 DEF Blank, Entry
    <3> QED BY <3>1
  <2>3. StatusOf(entries, s) \in StatusMessage  BY <2>2, ReportsAreTyped
  <2>4. /\ node' = [node EXCEPT ![n] = entries]
        /\ toTracker' = [toTracker EXCEPT ![n] = Sent(n, <<StatusOf(entries, s)>>)]
        /\ UNCHANGED <<sockets, toNode, disturbed, lastSent>>
        /\ Fails
    BY <1>5 DEF Unsubscribe
  <2> HIDE DEF cancelled, entries
  <2>5. /\ node' \in [Node -> [Stream -> Entry]]
        /\ toTracker' \in [Node -> Seq(StatusMessage)]
        /\ SocketsOK'
    BY <2>2, <2>3, <2>4, NodeStepKeepsTypes
  <2> QED BY <2>4, <2>5, FailsOnce DEF ChannelsOK, HistoryOK
<1>6. ASSUME NEW m \in Node, NEW n \in Node, ConnectionLost(m, n) PROVE NetworkInv'
  <2> DEFINE other(k) == IF k = m THEN n ELSE m
             loses(k) == k \in {m, n} /\ Without(node[k], other(k)) # node[k]
  <2>1. ASSUME NEW k \in Node, NEW p PROVE Without(node[k], p) \in [Stream -> Entry]
    <3>1. ASSUME NEW s \in Stream PROVE [node[k][s] EXCEPT !.neighbors = @ \ {p}] \in Entry
      <4>1. node[k][s] \in Entry  OBVIOUS
      <4>2. node[k][s].neighbors \ {p} \in SUBSET Node  BY <4>1 DEF Entry
      <4> QED BY <4>1, <4>2, ChangedEntryIsTyped
    <3> QED BY <3>1 DEF Without
  <2>2. ASSUME NEW k \in Node, NEW p PROVE FullStatusOf(Without(node[k], p)) \in StatusMessage
    BY <2>1, ReportsAreTyped
  <2>3. ASSUME NEW k \in Node, NEW p PROVE Sent(k, <<FullStatusOf(Without(node[k], p))>>) \in Seq(StatusMessage)
    BY <2>2, SentIsTyped
  <2>4. /\ node' = [k \in Node |-> IF loses(k) THEN Without(node[k], other(k)) ELSE node[k]]
        /\ toTracker' = [k \in Node |->
                            IF loses(k) THEN Sent(k, <<FullStatusOf(Without(node[k], other(k)))>>)
                            ELSE toTracker[k]]
        /\ UNCHANGED <<sockets, toNode, disturbed, lastSent>>
        /\ Fails
    BY <1>6 DEF ConnectionLost
  <2> HIDE DEF other, loses
  <2>5. node' \in [Node -> [Stream -> Entry]]
    BY <2>1, <2>4
  <2>6. toTracker' \in [Node -> Seq(StatusMessage)]
    BY <2>3, <2>4 DEF ChannelsOK
  <2> QED BY <2>4, <2>5, <2>6, FailsOnce DEF SocketsOK, ChannelsOK, HistoryOK, sockets
<1>7. ASSUME NEW n \in Node, Connect(n) PROVE NetworkInv'
  <2>1. FullStatusOf(node[n]) \in StatusMessage  BY ReportsAreTyped
  <2>2. toTracker' \in [Node -> Seq(StatusMessage)]
    BY <1>7, <2>1 DEF Connect, ChannelsOK
  <2> QED BY <1>7, <2>2 DEF Connect, SocketsOK, ChannelsOK, HistoryOK, history
<1>8. ASSUME NEW n \in Node, Disconnect(n) PROVE NetworkInv'
  <2>1. toTracker' \in [Node -> Seq(StatusMessage)] /\ toNode' \in [Node -> Seq(Instruction)]
    BY <1>8 DEF Disconnect, ChannelsOK
  <2>2. faults' \in 0 .. MaxFaults  BY <1>8, FailsOnce DEF Disconnect
  <2>3. disturbed' \in BOOLEAN  BY <1>8 DEF Disconnect
  <2> QED BY <1>8, <2>1, <2>2, <2>3 DEF Disconnect, SocketsOK, ChannelsOK, HistoryOK
<1>9. ASSUME NEW n \in Node, NoticeClose(n) PROVE NetworkInv'
  BY <1>9 DEF NoticeClose, KnownAfterClose, SocketsOK, ChannelsOK, HistoryOK, channels, history
<1>10. ASSUME NEW n \in Node, ReceiveStatus(n) PROVE NetworkInv'
  <2>1. toTracker' \in [Node -> Seq(StatusMessage)]
    BY <1>10 DEF ReceiveStatus, ChannelsOK
  <2> QED BY <1>10, <2>1 DEF ReceiveStatus, SocketsOK, ChannelsOK, HistoryOK, sockets, history
<1>11. ASSUME Send PROVE NetworkInv'
  <2>1. form # None /\ SoundForm /\ SoundOverlays /\ SoundCalls
    BY <1>11 DEF Send, SendInstructions, Sending, TrackerInv
  <2>2. /\ form.stream \in Stream /\ form.stream \in Streams
        /\ form.updated \subseteq DOMAIN overlayPerStream[form.stream]
        /\ Sound(overlayPerStream[form.stream])
    BY <2>1 DEF SoundForm, SoundOverlays, Members
  <2>3. ASSUME NEW n \in Node PROVE CounterFor(n) \in Nat \ {0}
    BY <2>1, <2>2 DEF CounterFor, SoundCalls
  <2>4. ASSUME NEW n \in Node, n \in form.updated PROVE InstructionFor(n) \in Instruction
    <3>1. overlayPerStream[form.stream][n] \in SUBSET Node
      BY <2>2, <2>4 DEF Sound, IsTopology
    <3> QED BY <2>2, <2>3, <3>1 DEF InstructionFor, Instruction
  <2>5. toNode' \in [Node -> Seq(Instruction)]
    <3>1. ASSUME NEW n \in Node, n \in form.updated PROVE Append(toNode[n], InstructionFor(n)) \in Seq(Instruction)
      BY <2>4, <3>1 DEF ChannelsOK
    <3> QED BY <1>11, <3>1 DEF Send, ChannelsOK
  <2>6. lastSent' \in [Node -> [Stream -> Nat]]
    BY <1>11, <2>2, <2>3 DEF Send, HistoryOK
  <2> QED BY <1>11, <2>5, <2>6 DEF Send, SocketsOK, ChannelsOK, HistoryOK, sockets
<1>12. ASSUME Calls PROVE NetworkInv'
  <2>1. lastSent' \in [Node -> [Stream -> Nat]]
    BY <1>12 DEF Calls, HistoryOK
  <2> QED BY <1>12, <2>1 DEF Calls, SocketsOK, ChannelsOK, HistoryOK, sockets, channels
<1>13. ASSUME UNCHANGED networkVars PROVE NetworkInv'
  BY <1>13 DEF networkVars, SocketsOK, ChannelsOK, HistoryOK, sockets, channels, history
<1> QED BY <1>1, <1>2, <1>3, <1>4, <1>5, <1>6, <1>7, <1>8, <1>9, <1>10, <1>11, <1>12, <1>13
        DEF NetworkNext

LEMMA StepNetworkInv == NetworkInv /\ [NetworkNext]_networkVars => NetworkInv'
<1>1. NetworkInv /\ AnyTrackerStep => TrackerInv'  BY AnyStepKeepsTrackerInv DEF NetworkInv
<1> QED BY <1>1, NetworkStepsAreSteps, NetworkStepKeepsTypes

LEMMA NetworkInvHolds == NetworkSpec => []NetworkInv
BY NetworkInitHolds, StepNetworkInv, PTL DEF NetworkSpec

\* Whatever crosses on the sockets and whenever they break, the messages and what the nodes and
\* the tracker keep are well formed.
THEOREM NetworkTypeCorrect == NetworkSpec => []NetworkTypeOK
<1>1. NetworkInv => TrackerTypeOK
  BY DEF NetworkInv, TrackerInv, SoundOverlays, SoundForm, SoundCalls, Sound, TrackerTypeOK, Strangers, Members
<1>2. \A e \in Entry : EntryOK(e)  BY DEF Entry, EntryOK
<1>3. NetworkInv => \A n \in Node : \A k \in DOMAIN toNode[n] : toNode[n][k] \in Instruction
  BY DEF NetworkInv, ChannelsOK
<1>4. \A status \in StatusMessage : \A s \in DOMAIN status.streams :
        s \in Stream /\ status.streams[s] \in Report
  <2> SUFFICES ASSUME NEW status \in StatusMessage, NEW s \in DOMAIN status.streams
               PROVE  s \in Stream /\ status.streams[s] \in Report
    OBVIOUS
  <2>1. ASSUME NEW S \in SUBSET Stream, status.streams \in [S -> Report] \/ status.streams \in [S -> Counts]
        PROVE  s \in Stream /\ status.streams[s] \in Report
    BY <2>1 DEF Counts
  <2> QED BY <2>1 DEF StatusMessage
<1>5. NetworkInv => \A n \in Node : \A k \in DOMAIN toTracker[n] : toTracker[n][k] \in StatusMessage
  BY DEF NetworkInv, ChannelsOK
<1>6. NetworkInv => NetworkTypeOK
  BY <1>1, <1>2, <1>3, <1>4, <1>5 DEF NetworkInv, NetworkTypeOK, SocketsOK, HistoryOK
<1> QED BY <1>6, NetworkInvHolds, PTL

\* Nor do overlays and counters outlive the memberships they are about when nodes, sockets and
\* messages fail.
THEOREM NetworkTablesAreKept == NetworkSpec => []TablesFollowMembers
<1>1. NetworkInv => TablesFollowMembers
  BY DEF NetworkInv, TrackerInv, OneLeaver, NoEmptyOverlay, Idle, TablesFollowMembers
<1> QED BY <1>1, NetworkInvHolds, PTL

\* And every overlay of the network's tracker behaves as OverlayTopology does.
THEOREM NetworkRefinesTopology == NetworkSpec => OverlaysAreTopologies
<1>1. NetworkInit => \A s \in Stream : Overlay(s)!Init
  BY InitRefines DEF NetworkInit
<1>2. NetworkInv /\ [NetworkNext]_networkVars => [\A s \in Stream : StepOf(s)]_trackerVars
  BY NetworkStepsAreSteps, AnyStepRefines DEF NetworkInv
<1>3. (\A s \in Stream : StepOf(s))
        <=> \A s \in Stream : Overlay(s)!Next \/ UNCHANGED Overlay(s)!vars
  BY DEF StepOf
<1> QED BY <1>1, <1>2, <1>3, NetworkInvHolds, PTL DEF NetworkSpec, OverlaysAreTopologies

-----------------------------------------------------------------------------
(* With one stream, the counters the tracker keeps are those it sent last  *)
(* to the members of the overlay, so that it believes no old report.       *)

CountersAreLastSent == \A n \in Node, s \in Stream : counters[n][s] = lastSent[n][s]

LEMMA CountersStayLastSent ==
    ASSUME \A r, s \in Stream : r = s,
           NetworkInv, NetworkInv', CountersAreLastSent, [NetworkNext]_networkVars
    PROVE  CountersAreLastSent'
<1>1. CASE UNCHANGED <<counters, lastSent>>
  BY <1>1 DEF CountersAreLastSent
<1>2. ASSUME Send PROVE CountersAreLastSent'
  <2>1. form.stream \in Stream
    BY <1>2 DEF Send, SendInstructions, Sending, NetworkInv, TrackerInv, SoundForm, SoundOverlays
  <2> QED BY <1>2, <2>1 DEF Send, SendInstructions, CountersAreLastSent, NetworkInv, TrackerInv,
                            SoundCalls, HistoryOK
<1>3. ASSUME Calls PROVE CountersAreLastSent'
  <2> SUFFICES ASSUME NEW n \in Node, NEW s \in Stream PROVE counters'[n][s] = lastSent'[n][s]
    BY DEF CountersAreLastSent
  <2>1. lastSent'[n][s] = IF n \in Members(s)' THEN counters[n][s] ELSE 0
    BY <1>3 DEF Calls, CountersAreLastSent
  <2>2. n \notin Members(s)' => counters'[n][s] = 0
    BY DEF NetworkInv, TrackerInv, CountersOfMembers, SoundCalls
  <2>3. ASSUME n \in Members(s)' PROVE counters'[n][s] = counters[n][s]
    <3>1. CASE UNCHANGED counters
      BY <3>1
    <3>2. ASSUME NEW m \in Node, NEW r \in Stream, LeaveStream(m, r) PROVE counters'[n][s] = counters[n][s]
      <4> DEFINE after == AfterLeave(overlayPerStream[r], m)
      <4>1. r = s /\ s \in Streams /\ Sound(overlayPerStream[s])
        BY <3>2 DEF LeaveStream, NetworkInv, TrackerInv, OneLeaver, SoundOverlays
      <4>2. DOMAIN after = DOMAIN overlayPerStream[s] \ {m}
        BY <4>1, AfterLeaveIsSound
      <4>3. /\ counters' = CountersAfterLeave(m, r, after)
            /\ overlayPerStream' = [q \in IF IsEmpty(after) THEN Streams \ {r} ELSE Streams |->
                                       IF q = r THEN after ELSE overlayPerStream[q]]
        BY <3>2 DEF LeaveStream
      <4> HIDE DEF after
      <4>4. ~ IsEmpty(after) /\ n \in DOMAIN after
        BY <2>3, <4>1, <4>3 DEF Members, Streams
      <4> QED BY <4>2, <4>3, <4>4 DEF CountersAfterLeave
    <3> QED BY <1>3, <3>1, <3>2
            DEF Calls, TrackerCalls, FormForNeighbor, FormForSender, StartsForming, RewireOverlay
  <2> QED BY <2>1, <2>2, <2>3
<1>4. ASSUME NEW n \in Node, ReceiveStatus(n) PROVE UNCHANGED <<counters, lastSent>>
  BY <1>4 DEF ReceiveStatus, StreamStatus, FullStatus, history
<1>5. ASSUME NEW n \in Node, NoticeClose(n) PROVE UNCHANGED <<counters, lastSent>>
  BY <1>5 DEF NoticeClose, RemoveNode, history
<1>6. ASSUME NEW n \in Node,
             \/ ReceiveInstruction(n) \/ Connect(n) \/ Disconnect(n)
             \/ \E s \in Stream : \/ \E failed \in SUBSET Node : HandlerEnds(n, s, failed)
                                  \/ RetryFires(n, s) \/ Subscribe(n, s) \/ Unsubscribe(n, s)
             \/ \E m \in Node : ConnectionLost(m, n)
      PROVE  UNCHANGED <<counters, lastSent>>
  BY <1>6 DEF ReceiveInstruction, Connect, Disconnect, HandlerEnds, RetryFires, Subscribe, Unsubscribe,
              ConnectionLost, trackerVars, history
<1>7. UNCHANGED networkVars => UNCHANGED <<counters, lastSent>>
  BY DEF networkVars, trackerVars, history
<1> QED BY <1>1, <1>2, <1>3, <1>4, <1>5, <1>6, <1>7 DEF NetworkNext

\* The tracker that keeps one stream believes no report that is older than the last instruction
\* it sent to the node since the node joined, whatever is lost or late.
THEOREM OneStreamIgnoresOldReports ==
    ASSUME \A r, s \in Stream : r = s
    PROVE  NetworkSpec => []OldReportsAreIgnored
<1>1. NetworkInit => CountersAreLastSent
  BY DEF NetworkInit, TrackerInit, NoneSent, CountersAreLastSent
<1>2. NetworkInv /\ NetworkInv' /\ CountersAreLastSent /\ [NetworkNext]_networkVars => CountersAreLastSent'
  BY CountersStayLastSent
<1>3. NetworkInv /\ CountersAreLastSent => OldReportsAreIgnored
  <2> SUFFICES ASSUME NetworkInv, CountersAreLastSent, NEW n \in Node, toTracker[n] # <<>>,
                      NEW s \in DOMAIN Head(toTracker[n]).streams,
                      Head(toTracker[n]).streams[s].counter \in 0 .. lastSent[n][s] - 1
               PROVE  s \notin Filtered(n, Head(toTracker[n]).streams)
    BY DEF OldReportsAreIgnored
  <2>1. Head(toTracker[n]) \in StatusMessage  BY DEF NetworkInv, ChannelsOK
  <2>2. s \in Stream  BY <2>1 DEF StatusMessage
  <2>3. counters[n][s] = lastSent[n][s] /\ lastSent[n][s] \in Nat
    BY <2>2 DEF CountersAreLastSent, NetworkInv, HistoryOK
  <2> QED BY <2>3 DEF Filtered
<1> QED BY <1>1, <1>2, <1>3, NetworkInvHolds, PTL DEF NetworkSpec

-----------------------------------------------------------------------------
(* Overlays while nothing fails.                                           *)

WithinBounds(t) == \A m \in DOMAIN t : Missing(t, m) >= 0

\* Links that are filled in overfill no node, and both their ends are told.
LEMMA StartedTellsAll ==
    ASSUME NEW t, Sound(t), WithinBounds(t), NEW n \in DOMAIN t, NEW force,
           NEW x \in Started(t, n, force)
    PROVE  WithinBounds(x.nodes) /\ \A m \in DOMAIN t \ x.updated : x.nodes[m] = t[m]
<1>1. IsTopology(t) /\ DOMAIN t \subseteq Node  BY DEF Sound, IsTopology
<1>2. \A m \in DOMAIN t :
        /\ t[m] \subseteq DOMAIN t /\ IsFiniteSet(t[m])
        /\ Cardinality(t[m]) \in Nat
        /\ Missing(t, m) \in Int
        /\ Missing(t, m) = MaxNeighbors - Cardinality(t[m])
        /\ Missing(t, m) >= 0
  BY <1>1, NeighborsAreFinite DEF WithinBounds
<1>3. PICK added \in Picks(OpenStrangers(t, n), Missing(t, n)) :
        /\ x.nodes = IF added = {} THEN t ELSE Updated(t, n, t[n] \cup added)
        /\ x.updated = IF added = {} /\ ~ force THEN {} ELSE added \cup {n}
  <2>1. ~ (Missing(t, n) < 0)  BY <1>2
  <2>2. PICK added \in Picks(OpenStrangers(t, n), Missing(t, n)) :
          LET u == IF added = {} THEN t ELSE Updated(t, n, t[n] \cup added)
          IN  x = [nodes |-> u,
                   updated |-> IF added = {} /\ ~ force THEN {} ELSE added \cup {n},
                   targets |-> IF Missing(u, n) > 1 THEN FullStrangers(u, n) ELSE {}]
    BY <2>1 DEF Started
  <2> QED BY <2>2
<1>4. /\ added \subseteq OpenStrangers(t, n)
      /\ IsFiniteSet(added) /\ Cardinality(added) \in Nat
      /\ Cardinality(added) <= Missing(t, n)
  <2>1. IsFiniteSet(OpenStrangers(t, n))
    BY <1>1, NodeAssumption, FS_Subset DEF OpenStrangers, Strangers
  <2>2. Missing(t, n) \in Nat  BY <1>2
  <2> QED BY <2>1, <2>2, PicksOfFinite
<1>5. \A m \in added : /\ m \in DOMAIN t /\ m # n
                       /\ n \notin t[m] /\ m \notin t[n]
                       /\ Missing(t, m) > 0
  BY <1>4 DEF OpenStrangers, Strangers, Sound
<1>6. CASE added = {}
  BY <1>3, <1>6
<1>7. CASE added # {}
  <2> DEFINE u == Updated(t, n, t[n] \cup added)
  <2>1. /\ u[n] = t[n] \cup added
        /\ \A m \in added : u[m] = t[m] \cup {n}
        /\ \A m \in DOMAIN t \ ({n} \cup added) : u[m] = t[m]
        /\ DOMAIN u = DOMAIN t
    <3>1. ((t[n] \cup added) \cap DOMAIN t) \ {n} = t[n] \cup added
      BY <1>2, <1>5 DEF Sound
    <3>2. u = [m \in DOMAIN t \cup {n} |->
                  IF m = n THEN t[n] \cup added
                  ELSE IF m \in t[n] \cup added THEN t[m] \cup {n}
                  ELSE t[m] \ {n}]
      BY <3>1 DEF Updated
    <3>3. \A m \in DOMAIN t : m \in t[n] <=> n \in t[m]
      BY DEF Sound
    <3>4. /\ DOMAIN u = DOMAIN t
          /\ \A m \in DOMAIN t : u[m] = IF m = n THEN t[n] \cup added
                                        ELSE IF m \in t[n] \cup added THEN t[m] \cup {n}
                                        ELSE t[m] \ {n}
      BY <3>2
    <3> HIDE DEF u
    <3>5. ASSUME NEW m \in added PROVE u[m] = t[m] \cup {n}
      BY <1>5, <3>4
    <3>6. ASSUME NEW m \in DOMAIN t \ ({n} \cup added) PROVE u[m] = t[m]
      BY <3>3, <3>4
    <3> QED BY <3>4, <3>5, <3>6
  <2> HIDE DEF u
  <2>2. x.nodes = u /\ x.updated = added \cup {n}  BY <1>3, <1>7 DEF u
  <2>3. Missing(u, n) >= 0
    <3>1. t[n] \cap added = {}  BY <1>5
    <3>2. Cardinality(t[n] \cup added) = Cardinality(t[n]) + Cardinality(added) - Cardinality({})
      BY <1>2, <1>4, <3>1, FS_Union
    <3>3. Cardinality(u[n]) = Cardinality(t[n]) + Cardinality(added)
      BY <1>2, <1>4, <2>1, <3>2, FS_EmptySet
    <3>4. Cardinality(added) <= MaxNeighbors - Cardinality(t[n])  BY <1>2, <1>4
    <3> QED BY <1>2, <1>4, <3>3, <3>4, MaxNeighborsAssumption DEF Missing
  <2>4. ASSUME NEW m \in added PROVE Missing(u, m) >= 0
    <3>1. Cardinality(u[m]) = Cardinality(t[m]) + 1
      BY <1>2, <1>5, <2>1, <2>4, FS_AddElement
    <3>2. Missing(t, m) > 0 /\ Missing(t, m) = MaxNeighbors - Cardinality(t[m])
          /\ Cardinality(t[m]) \in Nat
      BY <1>2, <1>5, <2>4
    <3> QED BY <3>1, <3>2, MaxNeighborsAssumption DEF Missing
  <2>5. ASSUME NEW m \in DOMAIN t \ ({n} \cup added) PROVE Missing(u, m) >= 0
    BY <1>2, <2>1, <2>5 DEF Missing
  <2> QED BY <2>1, <2>2, <2>3, <2>4, <2>5 DEF WithinBounds
<1> QED BY <1>6, <1>7

\* Nor does splitting a link, of which both ends are told.
LEMMA TurnedTellsAll ==
    ASSUME NEW t, Sound(t), WithinBounds(t), NEW n \in DOMAIN t, Missing(t, n) > 1,
           NEW wanted, wanted \subseteq Strangers(t, n), NEW told,
           NEW n1 \in wanted, NEW x \in Turned(t, n, n1, wanted, told)
    PROVE  /\ WithinBounds(x.nodes)
           /\ told \subseteq x.updated
           /\ \A m \in DOMAIN t \ x.updated : x.nodes[m] = t[m]
<1>1. CASE Splittable(t, n, n1) = {}
  <2>1. x = [nodes |-> t, updated |-> told, targets |-> wanted \ {n1}]
    BY <1>1 DEF Turned
  <2> QED BY <2>1
<1>2. CASE Splittable(t, n, n1) # {}
  <2>1. PICK n2 \in Splittable(t, n, n1) :
          x = [nodes |-> Rewired(t, n, n1, n2), updated |-> told \cup {n, n1, n2},
               targets |-> wanted \ {n1, n2}]
    BY <1>2 DEF Turned
  <2> DEFINE u == Rewired(t, n, n1, n2)
  <2>2. /\ DOMAIN u = DOMAIN t
        /\ Missing(u, n) = Missing(t, n) - 2
        /\ \A m \in DOMAIN t \ {n} : Cardinality(u[m]) = Cardinality(t[m])
        /\ \A m \in DOMAIN t \ {n, n1, n2} : u[m] = t[m]
    BY RewiredIsSound
  <2>3. x.nodes = u /\ x.updated = told \cup {n, n1, n2}  BY <2>1
  <2> HIDE DEF u
  <2>4. Missing(t, n) \in Int  BY NeighborsAreFinite DEF Sound
  <2>5. Missing(u, n) >= 0  BY <2>2, <2>4
  <2>6. \A m \in DOMAIN t \ {n} : Missing(u, m) >= 0
    BY <2>2 DEF WithinBounds, Missing
  <2> QED BY <2>2, <2>3, <2>5, <2>6 DEF WithinBounds
<1> QED BY <1>1, <1>2

\* A report that repeats what the tracker has changes nothing, and one of a node that joins adds
\* it without neighbors.
LEMMA UpdatedInAgreement ==
    ASSUME NEW t, Sound(t), NEW n \in Node, NEW N, IF n \in DOMAIN t THEN N = t[n] ELSE N = {}
    PROVE  /\ DOMAIN Updated(t, n, N) = DOMAIN t \cup {n}
           /\ \A m \in DOMAIN t : Updated(t, n, N)[m] = t[m]
           /\ n \notin DOMAIN t => Updated(t, n, N)[n] = {}
<1> DEFINE heard == (N \cap DOMAIN t) \ {n}
<1>1. Updated(t, n, N) = [m \in DOMAIN t \cup {n} |->
          IF m = n THEN heard ELSE IF m \in heard THEN t[m] \cup {n} ELSE t[m] \ {n}]
  BY DEF Updated
<1>2. \A m \in DOMAIN t : t[m] \subseteq DOMAIN t  BY DEF Sound, IsTopology
<1>3. CASE n \in DOMAIN t
  <2>1. heard = t[n]  BY <1>2, <1>3 DEF Sound
  <2>2. \A m \in DOMAIN t : m \in t[n] <=> n \in t[m]  BY <1>3 DEF Sound
  <2> HIDE DEF heard
  <2> QED BY <1>1, <1>3, <2>1, <2>2
<1>4. CASE n \notin DOMAIN t
  <2>1. heard = {}  BY <1>4
  <2>2. \A m \in DOMAIN t : n \notin t[m]  BY <1>2, <1>4
  <2> HIDE DEF heard
  <2> QED BY <1>1, <1>4, <2>1, <2>2
<1> QED BY <1>3, <1>4

-----------------------------------------------------------------------------
(* While nothing fails, what is on its way and what the nodes keep never   *)
(* contradicts the tracker: who has the counter of the last instruction    *)
(* has its neighbors too.                                                  *)

\* What the tracker has of a node and a stream.  It is not settled while a call of
\* formInstructions that has changed the neighbors is still to tell the node.
Terms(n, s) ==
    [counter |-> counters[n][s],
     member |-> n \in Members(s),
     settled |-> n \in Members(s) /\ ~ (form # None /\ form.stream = s /\ n \in form.updated),
     neighbors |-> IF n \in Members(s) THEN overlayPerStream[s][n] ELSE {}]

\* A counter and neighbors, of an instruction or of a report, that agree with that.
Agrees(t, counter, neighbors) ==
    /\ counter \in 0 .. t.counter
    /\ counter = 0 => neighbors = {}
    /\ counter = t.counter /\ t.settled => neighbors = t.neighbors

\* What a node keeps of the stream.  Handlers run one at a time, for the instruction that is to be
\* tried again.
EntryAgrees(e, t) ==
    LET i == e.retry.instruction
    IN  /\ e.counter <= e.seen /\ e.seen <= t.counter
        /\ e.counter = 0 => e.neighbors = {}
        /\ e.handlers = {} => Agrees(t, e.counter, e.neighbors)
        /\ \A h \in e.handlers :
             /\ e.retry # None /\ h.instruction = i
             /\ e.handlers = {h} /\ h.by # "cancelled"
             /\ e.neighbors \subseteq i.nodeIds
        /\ e.retry # None =>
             /\ e.isSetUp
             /\ Agrees(t, i.counter, i.nodeIds)
             /\ e.counter <= i.counter /\ i.counter <= e.seen
        /\ e.queue # None =>
             /\ Busy(e)
             /\ Agrees(t, e.queue.counter, e.queue.nodeIds)
             /\ i.counter <= e.queue.counter /\ e.queue.counter <= e.seen

\* Instructions arrive in the order of their counters.
InstructionsAgree(entries, terms, instructions) ==
    /\ \A k \in DOMAIN instructions :
         LET i == instructions[k]
         IN  Agrees(terms[i.stream], i.counter, i.nodeIds) /\ entries[i.stream].seen <= i.counter
    /\ \A j, k \in DOMAIN instructions :
         j < k /\ instructions[j].stream = instructions[k].stream =>
             instructions[j].counter <= instructions[k].counter

\* The last instruction is on its way, waits, is being handled or has been handled.
LastIsSomewhere(e, counter, s, instructions) ==
    \/ e.counter = counter
    \/ e.handlers # {} /\ e.retry.instruction.counter = counter
    \/ e.queue # None /\ e.queue.counter = counter
    \/ \E k \in DOMAIN instructions :
         instructions[k].stream = s /\ instructions[k].counter = counter

\* A full status is the first a node sends, before the tracker knows it.
ReportsAgree(entries, terms, statuses) ==
    \A k \in DOMAIN statuses :
        LET streams == statuses[k].streams
        IN  /\ \A s \in DOMAIN streams :
                 /\ Agrees(terms[s], streams[s].counter, streams[s].neighbors)
                 /\ entries[s].isSetUp
            /\ IF statuses[k].single THEN \A r, s \in DOMAIN streams : r = s
               ELSE k = 1 /\ \A s \in Stream : ~ terms[s].member

\* The members of an overlay are the connected nodes that are subscribed, or will be once their
\* statuses have arrived.
MembershipAgrees(e, t, s, isUp, statuses) ==
    /\ t.member => isUp /\ e.isSetUp
    /\ isUp /\ e.isSetUp /\ ~ t.member =>
         \E k \in DOMAIN statuses : s \in DOMAIN statuses[k].streams

NodeAgrees(entries, terms, instructions, statuses, isUp) ==
    /\ InstructionsAgree(entries, terms, instructions)
    /\ ReportsAgree(entries, terms, statuses)
    /\ ~ isUp => statuses = <<>>
    /\ \A s \in Stream :
         /\ EntryAgrees(entries[s], terms[s])
         /\ LastIsSomewhere(entries[s], terms[s].counter, s, instructions)
         /\ MembershipAgrees(entries[s], terms[s], s, isUp, statuses)

\* The tracker makes no node leave an overlay, and overfills none.
TrackerIsCalm ==
    /\ up \subseteq known /\ stale = {} /\ forcing = {}
    /\ leaving # {} => form = None
    /\ \A n \in Node, s \in Stream : <<n, s>> \in leaving =>
         /\ n \notin Members(s) /\ Members(s) # {}
         /\ \A r \in Stream : counters[n][r] = 0
    /\ \A s \in Streams : WithinBounds(overlayPerStream[s])

TermsOf(n) == [s \in Stream |-> Terms(n, s)]

NodesAgree == \A n \in Node : NodeAgrees(node[n], TermsOf(n), toNode[n], toTracker[n], n \in up)

Calm == TrackerIsCalm /\ NodesAgree

Undisturbed == faults = 0 /\ ~ disturbed

CalmInv == Undisturbed => Calm

-----------------------------------------------------------------------------
(* What the tracker may do without contradicting what was said.            *)

IsTerms(t) == t.counter \in Nat /\ t.settled \in BOOLEAN

\* Nothing changes, or n is told nothing yet, or n joins without neighbors, or it gets a new
\* instruction.
Keeps(t, u) ==
    \/ u.counter = t.counter + 1
    \/ /\ u.counter = t.counter
       /\ u.settled => \/ t.settled /\ u.neighbors = t.neighbors
                       \/ t.counter = 0 /\ u.neighbors = {}

LEMMA AgreementStays ==
    ASSUME NEW t, NEW u, IsTerms(t), IsTerms(u), Keeps(t, u)
    PROVE  /\ \A c, N : Agrees(t, c, N) => Agrees(u, c, N)
           /\ \A e \in Entry : EntryAgrees(e, t) => EntryAgrees(e, u)
<1>1. ASSUME NEW c, NEW N, Agrees(t, c, N) PROVE Agrees(u, c, N)
  <2>1. /\ c \in Nat /\ c <= t.counter /\ t.counter \in Nat /\ u.counter \in Nat
        /\ c = 0 => N = {}
        /\ c = t.counter /\ t.settled => N = t.neighbors
    BY <1>1 DEF Agrees, IsTerms
  <2>2. CASE u.counter = t.counter + 1
    BY <1>1, <2>1, <2>2 DEF Agrees
  <2>3. CASE u.counter = t.counter
    <3>1. u.settled => \/ t.settled /\ u.neighbors = t.neighbors
                       \/ t.counter = 0 /\ u.neighbors = {}
      BY <2>1, <2>3 DEF Keeps
    <3>2. c = u.counter /\ u.settled => N = u.neighbors
      BY <2>1, <2>3, <3>1
    <3> QED BY <2>1, <2>3, <3>2 DEF Agrees
  <2> QED BY <2>2, <2>3 DEF Keeps
<1>2. ASSUME NEW e \in Entry, EntryAgrees(e, t) PROVE EntryAgrees(e, u)
  <2>1. e.seen <= u.counter
    <3>1. e.seen \in Nat /\ e.seen <= t.counter  BY <1>2 DEF EntryAgrees, Entry
    <3> QED BY <3>1 DEF Keeps, IsTerms
  <2> QED BY <1>1, <1>2, <2>1 DEF EntryAgrees
<1> QED BY <1>1, <1>2

\* The entries of a node.
IsNode(entries, instructions, statuses) ==
    /\ entries \in [Stream -> Entry]
    /\ instructions \in Seq(Instruction)
    /\ statuses \in Seq(StatusMessage)

\* What is known of the typing of an instruction and of an entry.
LEMMA EntryFields ==
    /\ \A i \in Instruction : i.stream \in Stream /\ i.counter \in Nat /\ i.nodeIds \subseteq Node
    /\ \A e \in Entry :
         /\ e.counter \in Nat /\ e.seen \in Nat /\ e.neighbors \subseteq Node
         /\ e.isSetUp \in BOOLEAN /\ e.handlers \subseteq Handler
         /\ e.retry # None => e.retry.instruction \in Instruction /\ e.retry.again \in BOOLEAN
         /\ e.queue # None => e.queue \in Instruction
         /\ \A h \in e.handlers : h.instruction \in Instruction
BY DEF Instruction, Entry, Handler, Retry

LEMMA RetryIsSomething ==
    ASSUME NEW i \in Instruction, NEW again \in BOOLEAN
    PROVE  [instruction |-> i, again |-> again] # None
<1>1. [instruction |-> i, again |-> again] \in Retry  BY DEF Retry
<1> QED BY <1>1, NoInstructionAssumption

-----------------------------------------------------------------------------
(* What a node does with an instruction.                                   *)

Seen(e, i) == [e EXCEPT !.seen = i.counter]
Queued(e, i) == [e EXCEPT !.queue = i]

\* It waits behind the one that is being handled.
LEMMA QueuedAgrees ==
    ASSUME NEW e \in Entry, NEW i \in Instruction, NEW t, IsTerms(t), EntryAgrees(e, t),
           Agrees(t, i.counter, i.nodeIds), e.seen <= i.counter, Busy(e),
           NEW f, f = Queued(Seen(e, i), i)
    PROVE  EntryAgrees(f, t)
<1>1. /\ f.seen = i.counter /\ f.queue = i
      /\ f.counter = e.counter /\ f.neighbors = e.neighbors /\ f.isSetUp = e.isSetUp
      /\ f.retry = e.retry /\ f.handlers = e.handlers
  BY DEF Entry, Seen, Queued
<1>2. Busy(f) /\ e.handlers # {} /\ e.retry # None
  BY <1>1 DEF Busy, EntryAgrees
<1>3. /\ e.counter \in Nat /\ e.seen \in Nat /\ i.counter \in Nat /\ e.retry.instruction.counter \in Nat
      /\ i.counter <= t.counter
  BY <1>2, EntryFields DEF Agrees
<1>4. e.counter <= e.seen /\ e.retry.instruction.counter <= e.seen
  BY <1>2 DEF EntryAgrees
<1> QED BY <1>1, <1>2, <1>3, <1>4 DEF EntryAgrees

\* It is handled: neighbors it does not name are dropped.
LEMMA BegunAgrees ==
    ASSUME NEW e \in Entry, NEW i \in Instruction, NEW again \in BOOLEAN,
           NEW by \in {"throttler", "retry"}, NEW t, IsTerms(t),
           e.handlers = {}, e.queue = None,
           e.counter <= i.counter, i.counter <= e.seen, e.seen <= t.counter,
           e.counter = 0 => e.neighbors = {},
           Agrees(t, i.counter, i.nodeIds)
    PROVE  EntryAgrees(Begun(e, i, again, by), t)
<1> DEFINE f == Begun(e, i, again, by)
           h == [instruction |-> i, reattempt |-> again, by |-> by]
<1>1. /\ f.isSetUp = TRUE /\ f.neighbors = e.neighbors \cap i.nodeIds
      /\ f.retry = [instruction |-> i, again |-> FALSE]
      /\ f.handlers = {h} /\ f.queue = None
      /\ f.counter = e.counter /\ f.seen = e.seen
  BY DEF Begun, Entry
<1>2. h.instruction = i /\ h.by # "cancelled"  OBVIOUS
<1>3. f.retry.instruction = i  BY <1>1
<1>4. e.counter \in Nat /\ e.seen \in Nat /\ i.counter \in Nat  BY EntryFields
<1>5. f.counter <= f.seen /\ f.seen <= t.counter  BY <1>1, <1>4
<1>6. f.retry # None
  BY <1>1, RetryIsSomething
<1> HIDE DEF f, h
<1>7. EntryAgrees(f, t)
  BY <1>1, <1>2, <1>3, <1>5, <1>6 DEF EntryAgrees
<1> QED BY <1>7 DEF f

\* Its connections are made; the next one is handled, or a retry goes on.
LEMMA EndedAgrees ==
    ASSUME NEW e \in Entry, NEW t, IsTerms(t), EntryAgrees(e, t), NEW h \in e.handlers
    PROVE  LET f == Ended(e, h, {})
           IN  /\ f \in Entry /\ f.isSetUp /\ e.isSetUp
               /\ f.counter = h.instruction.counter /\ f.neighbors = h.instruction.nodeIds
               /\ h.instruction = e.retry.instruction
               /\ Agrees(t, f.counter, f.neighbors)
               /\ e.counter <= f.counter
               /\ EntryAgrees(Continued(f, h), t)
               /\ Continued(f, h).counter = f.counter /\ Continued(f, h).seen = e.seen
               /\ Continued(f, h).isSetUp
               /\ e.queue # None => /\ Continued(f, h).handlers # {}
                                    /\ Continued(f, h).retry.instruction = e.queue
<1> DEFINE f == Ended(e, h, {})
           i == h.instruction
<1>1. /\ e.retry # None /\ i = e.retry.instruction /\ e.handlers = {h} /\ h.by # "cancelled"
      /\ e.isSetUp
      /\ e.neighbors \subseteq i.nodeIds
      /\ Agrees(t, i.counter, i.nodeIds)
      /\ e.counter <= i.counter /\ i.counter <= e.seen /\ e.seen <= t.counter
  BY DEF EntryAgrees
<1>2. f \in Entry  BY EndedIsTyped
<1>3. /\ f.isSetUp /\ f.neighbors = i.nodeIds /\ f.counter = i.counter /\ f.handlers = {}
      /\ f.retry = e.retry /\ f.queue = e.queue /\ f.seen = e.seen
  BY <1>1 DEF Ended, Entry
<1>4. h \in Handler /\ i \in Instruction /\ i.counter \in Nat  BY EntryFields DEF Handler
<1>5. h.by \in {"throttler", "retry"}  BY <1>1, <1>4 DEF Handler
<1>6. i.counter = 0 => i.nodeIds = {}  BY <1>1 DEF Agrees
<1> HIDE DEF f, i
<1>7. CASE h.by = "throttler" /\ e.queue # None
  <2> DEFINE g == [f EXCEPT !.queue = None]
  <2>1. /\ g \in Entry /\ g.handlers = {} /\ g.queue = None
        /\ g.counter = i.counter /\ g.neighbors = i.nodeIds /\ g.seen = e.seen
    BY <1>2, <1>3 DEF Entry
  <2>2. /\ e.queue \in Instruction /\ Agrees(t, e.queue.counter, e.queue.nodeIds)
        /\ i.counter <= e.queue.counter /\ e.queue.counter <= e.seen
    BY <1>1, <1>7, EntryFields DEF EntryAgrees
  <2>3. Continued(f, h) = Begun(g, e.queue, FALSE, "throttler")
    BY <1>3, <1>7 DEF Continued
  <2> HIDE DEF g
  <2>4. EntryAgrees(Begun(g, e.queue, FALSE, "throttler"), t)
    BY <1>1, <1>6, <2>1, <2>2, BegunAgrees
  <2>5. LET b == Begun(g, e.queue, FALSE, "throttler")
        IN  /\ b.counter = g.counter /\ b.seen = g.seen /\ b.isSetUp
            /\ b.handlers # {} /\ b.retry.instruction = e.queue
    BY <2>1 DEF Begun, Entry
  <2> QED BY <1>1, <1>2, <1>3, <2>1, <2>3, <2>4, <2>5 DEF f, i
<1>8. CASE ~ (h.by = "throttler" /\ e.queue # None)
  <2>1. e.queue = None
    <3>1. e.queue # None => \E g \in e.handlers : g.by = "throttler"
      BY DEF EntryAgrees, Busy
    <3> QED BY <1>1, <1>8, <3>1
  <2>2. Continued(f, h) = IF h.by = "retry" THEN [f EXCEPT !.retry = [instruction |-> i, again |-> TRUE]] ELSE f
    BY <1>1, <1>3, <1>8, <2>1 DEF Continued, i
  <2> DEFINE b == Continued(f, h)
  <2>3. /\ b.counter = f.counter /\ b.seen = e.seen /\ b.isSetUp /\ b.neighbors = f.neighbors
        /\ b.handlers = {} /\ b.queue = None /\ b.retry # None /\ b.retry.instruction = i
    <3>1. [instruction |-> i, again |-> TRUE] # None
      BY <1>4, RetryIsSomething
    <3>2. [f EXCEPT !.retry = [instruction |-> i, again |-> TRUE]].retry = [instruction |-> i, again |-> TRUE]
      BY <1>2 DEF Entry
    <3>3. CASE h.by = "retry"
      <4>1. b = [f EXCEPT !.retry = [instruction |-> i, again |-> TRUE]]  BY <2>2, <3>3
      <4> HIDE DEF b
      <4> QED BY <1>1, <1>2, <1>3, <2>1, <3>1, <3>2, <4>1 DEF Entry
    <3>4. CASE h.by # "retry"
      <4>1. b = f  BY <2>2, <3>4
      <4> HIDE DEF b
      <4> QED BY <1>1, <1>3, <2>1, <4>1
    <3> QED BY <3>3, <3>4
  <2> HIDE DEF b
  <2>4. b.counter <= b.seen  BY <1>1, <1>3, <2>3
  <2>5. EntryAgrees(b, t)
    BY <1>1, <1>3, <1>6, <2>3, <2>4, <1>4 DEF EntryAgrees
  <2> QED BY <1>1, <1>2, <1>3, <2>1, <2>3, <2>5 DEF f, i, b
<1> QED BY <1>7, <1>8

-----------------------------------------------------------------------------
(* What its messages and its other streams make of it.                     *)

LEMMA OneMore ==
    ASSUME NEW S, NEW q \in Seq(S), NEW x
    PROVE  /\ DOMAIN (q \o <<x>>) = 1 .. (Len(q) + 1) /\ DOMAIN q = 1 .. Len(q) /\ Len(q) \in Nat
           /\ \A k \in DOMAIN q : (q \o <<x>>)[k] = q[k]
           /\ (q \o <<x>>)[Len(q) + 1] = x
           /\ Append(q, x) = q \o <<x>>
<1>1. DOMAIN (q \o <<x>>) = 1 .. (Len(q) + 1) /\ DOMAIN q = 1 .. Len(q) /\ Len(q) \in Nat
  OBVIOUS
<1>2. \A k \in DOMAIN q : (q \o <<x>>)[k] = q[k]  BY <1>1
<1>3. (q \o <<x>>)[Len(q) + 1] = x  BY <1>1
<1>4. Append(q, x) = q \o <<x>>
  OBVIOUS
<1> QED BY <1>1, <1>2, <1>3, <1>4

LEMMA OneLess ==
    ASSUME NEW S, NEW q \in Seq(S), q # <<>>
    PROVE  /\ Head(q) = q[1] /\ 1 \in DOMAIN q
           /\ \A k \in DOMAIN Tail(q) : k + 1 \in DOMAIN q /\ k + 1 > 1 /\ Tail(q)[k] = q[k + 1]
           /\ \A k \in DOMAIN q : k = 1 \/ (k - 1 \in DOMAIN Tail(q) /\ Tail(q)[k - 1] = q[k])
           /\ \A j, k \in DOMAIN Tail(q) : j < k => j + 1 < k + 1
<1>1. /\ Len(q) \in Nat \ {0} /\ DOMAIN q = 1 .. Len(q)
      /\ Head(q) = q[1]
      /\ Tail(q) \in Seq(S) /\ Len(Tail(q)) = Len(q) - 1 /\ DOMAIN Tail(q) = 1 .. (Len(q) - 1)
      /\ \A k \in 1 .. (Len(q) - 1) : Tail(q)[k] = q[k + 1]
  OBVIOUS
<1>2. \A k \in DOMAIN Tail(q) : k + 1 \in DOMAIN q /\ k + 1 > 1 /\ Tail(q)[k] = q[k + 1]
  BY <1>1
<1>3. ASSUME NEW k \in DOMAIN q, k # 1 PROVE k - 1 \in DOMAIN Tail(q) /\ Tail(q)[k - 1] = q[k]
  <2>1. k - 1 \in 1 .. (Len(q) - 1)  BY <1>1, <1>3
  <2>2. Tail(q)[k - 1] = q[(k - 1) + 1] /\ (k - 1) + 1 = k  BY <1>1, <2>1
  <2> QED BY <1>1, <2>1, <2>2
<1>4. \A j, k \in DOMAIN Tail(q) : j < k => j + 1 < k + 1  BY <1>1
<1> QED BY <1>1, <1>2, <1>3, <1>4

WithEntry(entries, s, f) == [entries EXCEPT ![s] = f]

\* One entry changes, and perhaps what is on its way.
LEMMA EntryBecomes ==
    ASSUME NEW entries, NEW instructions, NEW statuses, IsNode(entries, instructions, statuses),
           NEW terms, NEW isUp \in BOOLEAN,
           NodeAgrees(entries, terms, instructions, statuses, isUp),
           NEW s \in Stream, NEW f \in Entry, EntryAgrees(f, terms[s]),
           entries[s].isSetUp => f.isSetUp,
           NEW rest, InstructionsAgree(WithEntry(entries, s, f), terms, rest),
           LastIsSomewhere(f, terms[s].counter, s, rest),
           \A r \in Stream \ {s}, k \in DOMAIN instructions : instructions[k].stream = r =>
               \E j \in DOMAIN rest : rest[j] = instructions[k],
           NEW reports, ReportsAgree(WithEntry(entries, s, f), terms, reports),
           ~ isUp => reports = <<>>,
           isUp /\ f.isSetUp /\ ~ entries[s].isSetUp =>
               \E k \in DOMAIN reports : s \in DOMAIN reports[k].streams,
           \A k \in DOMAIN statuses : \E j \in DOMAIN reports : reports[j] = statuses[k]
    PROVE  NodeAgrees(WithEntry(entries, s, f), terms, rest, reports, isUp)
<1> DEFINE after == WithEntry(entries, s, f)
<1>1. after[s] = f /\ \A r \in Stream \ {s} : after[r] = entries[r]
  BY DEF IsNode, WithEntry
<1>2. entries[s].isSetUp \in BOOLEAN /\ f.isSetUp \in BOOLEAN  BY DEF IsNode, Entry
<1> HIDE DEF after
<1>3. ASSUME NEW r \in Stream PROVE EntryAgrees(after[r], terms[r])
  BY <1>1 DEF NodeAgrees
<1>4. ASSUME NEW r \in Stream PROVE LastIsSomewhere(after[r], terms[r].counter, r, rest)
  <2>1. CASE r = s
    BY <1>1, <2>1
  <2>2. CASE r # s
    <3>1. LastIsSomewhere(entries[r], terms[r].counter, r, instructions)  BY DEF NodeAgrees
    <3> QED BY <1>1, <2>2, <3>1 DEF LastIsSomewhere
  <2> QED BY <2>1, <2>2
<1>5. ASSUME NEW r \in Stream PROVE MembershipAgrees(after[r], terms[r], r, isUp, reports)
  <2>1. MembershipAgrees(entries[r], terms[r], r, isUp, statuses)  BY DEF NodeAgrees
  <2>2. terms[r].member => isUp /\ after[r].isSetUp
    BY <1>1, <2>1 DEF MembershipAgrees
  <2>3. ASSUME isUp, after[r].isSetUp, ~ terms[r].member
        PROVE  \E k \in DOMAIN reports : r \in DOMAIN reports[k].streams
    <3>1. CASE r = s /\ ~ entries[s].isSetUp
      BY <1>1, <2>3, <3>1
    <3>2. CASE ~ (r = s /\ ~ entries[s].isSetUp)
      <4>1. entries[r].isSetUp  BY <1>1, <2>3, <3>2
      <4>2. PICK k \in DOMAIN statuses : r \in DOMAIN statuses[k].streams
        BY <2>1, <2>3, <4>1 DEF MembershipAgrees
      <4> QED BY <4>2
    <3> QED BY <3>1, <3>2
  <2> QED BY <2>2, <2>3 DEF MembershipAgrees
<1> QED BY <1>3, <1>4, <1>5 DEF NodeAgrees, after

\* What is on its way to the tracker stays true, and a report of what the node has now is true.
LEMMA ReportsStay ==
    ASSUME NEW entries, NEW instructions, NEW statuses, IsNode(entries, instructions, statuses),
           NEW terms, ReportsAgree(entries, terms, statuses),
           NEW s \in Stream, NEW f, entries[s].isSetUp => f.isSetUp
    PROVE  /\ ReportsAgree(WithEntry(entries, s, f), terms, statuses)
           /\ \A e \in Entry :
                e.isSetUp /\ f.isSetUp /\ Agrees(terms[s], e.counter, e.neighbors) =>
                  ReportsAgree(WithEntry(entries, s, f), terms,
                               statuses \o <<StatusOf(WithEntry(entries, s, e), s)>>)
<1> DEFINE after == WithEntry(entries, s, f)
<1>1. after[s] = f /\ \A r \in Stream \ {s} : after[r] = entries[r]
  BY DEF IsNode, WithEntry
<1> HIDE DEF after
<1>2. ASSUME NEW k \in DOMAIN statuses, NEW r \in DOMAIN statuses[k].streams PROVE r \in Stream
  <2>1. statuses[k] \in StatusMessage  BY DEF IsNode
  <2> QED BY <2>1 DEF StatusMessage
<1>3. ReportsAgree(after, terms, statuses)
  BY <1>1, <1>2 DEF ReportsAgree
<1>4. ASSUME NEW e \in Entry, e.isSetUp, f.isSetUp, Agrees(terms[s], e.counter, e.neighbors)
      PROVE  ReportsAgree(after, terms, statuses \o <<StatusOf(WithEntry(entries, s, e), s)>>)
  <2> DEFINE status == StatusOf(WithEntry(entries, s, e), s)
  <2>1. WithEntry(entries, s, e)[s] = e  BY DEF IsNode, WithEntry
  <2>2. status.single /\ DOMAIN status.streams = {s}
        /\ status.streams[s].neighbors = e.neighbors /\ status.streams[s].counter = e.counter
    BY <1>4, <2>1 DEF StatusOf, ReportOf
  <2> HIDE DEF status
  <2>3. statuses \in Seq(StatusMessage)  BY DEF IsNode
  <2> DEFINE longer == statuses \o <<status>>
  <2>4. /\ DOMAIN longer = 1 .. (Len(statuses) + 1) /\ DOMAIN statuses = 1 .. Len(statuses)
        /\ Len(statuses) \in Nat
        /\ \A k \in DOMAIN statuses : longer[k] = statuses[k]
        /\ longer[Len(statuses) + 1] = status
    BY <2>3, OneMore
  <2> HIDE DEF longer
  <2>5. \A k \in DOMAIN longer : k \in DOMAIN statuses \/ k = Len(statuses) + 1
    BY <2>4
  <2>6. after[s].isSetUp  BY <1>1, <1>4
  <2>7. ReportsAgree(after, terms, longer)
    BY <1>3, <1>4, <2>2, <2>4, <2>5, <2>6 DEF ReportsAgree
  <2> QED BY <2>7 DEF longer, status
<1> QED BY <1>3, <1>4 DEF after

\* It is queued or handled.
Taken(e, i) == IF Busy(e) THEN Queued(e, i) ELSE Begun(e, i, FALSE, "throttler")

LEMMA TakenAgrees ==
    ASSUME NEW e \in Entry, NEW i \in Instruction, NEW t, IsTerms(t), EntryAgrees(e, t),
           Agrees(t, i.counter, i.nodeIds), e.seen <= i.counter,
           Busy(e) \/ (e.isSetUp /\ e.handlers = {}),
           NEW f, f = Taken(Seen(e, i), i)
    PROVE  /\ f \in Entry /\ EntryAgrees(f, t) /\ f.seen = i.counter /\ f.counter = e.counter
           /\ e.isSetUp /\ f.isSetUp
           /\ Busy(e) => f.queue = i /\ f.handlers = e.handlers /\ f.retry = e.retry
           /\ ~ Busy(e) => f.handlers # {} /\ f.retry.instruction = i /\ e.handlers = {} /\ e.queue = None
<1> DEFINE g == Seen(e, i)
<1>1. i.counter \in Nat  BY EntryFields
<1>2. g \in Entry  BY <1>1, ChangedEntryIsTyped DEF Seen
<1>3. /\ g.seen = i.counter /\ g.handlers = e.handlers /\ g.queue = e.queue
      /\ g.counter = e.counter /\ g.neighbors = e.neighbors /\ g.retry = e.retry
      /\ g.isSetUp = e.isSetUp
  BY DEF Seen, Entry
<1>4. Busy(g) <=> Busy(e)  BY <1>3 DEF Busy
<1>5. /\ e.counter \in Nat /\ e.seen \in Nat /\ t.counter \in Nat
      /\ e.counter <= e.seen /\ i.counter <= t.counter
      /\ e.counter = 0 => e.neighbors = {}
  BY <1>1, EntryFields DEF EntryAgrees, IsTerms, Agrees
<1>6. CASE Busy(e)
  <2>1. f = Queued(g, i)  BY <1>4, <1>6 DEF Taken
  <2> HIDE DEF g
  <2>3. EntryAgrees(f, t)  BY <1>6, <2>1, QueuedAgrees DEF g
  <2>4. f \in Entry  BY <1>2, <2>1, ChangedEntryIsTyped DEF Queued
  <2>5. /\ f.seen = g.seen /\ f.counter = g.counter /\ f.isSetUp = g.isSetUp /\ f.queue = i
        /\ f.handlers = g.handlers /\ f.retry = g.retry
    BY <1>2, <2>1 DEF Entry, Queued
  <2>6. e.isSetUp  BY <1>6 DEF Busy, EntryAgrees
  <2> QED BY <1>3, <1>6, <2>3, <2>4, <2>5, <2>6
<1>7. CASE ~ Busy(e)
  <2>1. f = Begun(g, i, FALSE, "throttler") /\ e.handlers = {} /\ e.isSetUp
    BY <1>4, <1>7 DEF Taken
  <2> HIDE DEF g
  <2>2. e.queue = None  BY <1>7 DEF EntryAgrees
  <2>3. g.counter <= i.counter /\ i.counter <= g.seen /\ g.seen <= t.counter
    BY <1>1, <1>3, <1>5
  <2>4. EntryAgrees(Begun(g, i, FALSE, "throttler"), t)
    BY <1>2, <1>3, <1>5, <2>1, <2>2, <2>3, BegunAgrees
  <2>5. Begun(g, i, FALSE, "throttler") \in Entry  BY <1>2, BegunIsTyped
  <2>6. LET b == Begun(g, i, FALSE, "throttler")
        IN  /\ b.seen = g.seen /\ b.counter = g.counter /\ b.isSetUp = TRUE /\ b.handlers # {}
            /\ b.retry.instruction = i
    BY <1>2 DEF Begun, Entry
  <2> QED BY <1>3, <1>7, <2>1, <2>2, <2>4, <2>5, <2>6
<1> QED BY <1>6, <1>7

\* The next instruction arrives.
LEMMA ReceivingAgrees ==
    ASSUME NEW entries, NEW instructions, NEW statuses, IsNode(entries, instructions, statuses),
           NEW terms, \A r \in Stream : IsTerms(terms[r]), NEW isUp \in BOOLEAN,
           NodeAgrees(entries, terms, instructions, statuses, isUp),
           instructions # <<>>, NEW i, i = Head(instructions),
           Busy(entries[i.stream]) \/ (entries[i.stream].isSetUp /\ entries[i.stream].handlers = {}),
           NEW f, f = Taken(Seen(entries[i.stream], i), i)
    PROVE  /\ Accepts(entries[i.stream], i)
           /\ NodeAgrees(WithEntry(entries, i.stream, f), terms, Tail(instructions), statuses, isUp)
<1> DEFINE s == i.stream
           t == terms[s]
           was == entries[s]
           after == WithEntry(entries, s, f)
           rest == Tail(instructions)
<1>1. /\ i = instructions[1] /\ 1 \in DOMAIN instructions
      /\ \A k \in DOMAIN rest : k + 1 \in DOMAIN instructions /\ k + 1 > 1 /\ rest[k] = instructions[k + 1]
      /\ \A k \in DOMAIN instructions : k = 1 \/ (k - 1 \in DOMAIN rest /\ rest[k - 1] = instructions[k])
      /\ \A j, k \in DOMAIN rest : j < k => j + 1 < k + 1
  BY OneLess DEF IsNode
<1>2. i \in Instruction /\ s \in Stream /\ i.counter \in Nat
  BY <1>1, EntryFields DEF IsNode
<1>3. was \in Entry /\ IsTerms(t) /\ EntryAgrees(was, t) /\ LastIsSomewhere(was, t.counter, s, instructions)
  BY <1>2 DEF IsNode, NodeAgrees
<1>4. Agrees(t, i.counter, i.nodeIds) /\ was.seen <= i.counter
  BY <1>1 DEF NodeAgrees, InstructionsAgree
<1>5. Accepts(was, i)  BY <1>4 DEF Accepts
<1> HIDE DEF s, t, was, rest
<1>7. /\ was.counter \in Nat /\ was.seen \in Nat /\ t.counter \in Nat
      /\ was.counter <= was.seen /\ i.counter <= t.counter
      /\ was.retry # None => was.retry.instruction.counter \in Nat
      /\ was.queue # None => was.queue.counter \in Nat /\ was.queue.counter <= was.seen
  <2>1. /\ was.counter \in Nat /\ was.seen \in Nat
        /\ was.retry # None => was.retry.instruction \in Instruction
        /\ was.queue # None => was.queue \in Instruction
    BY <1>3, EntryFields
  <2>2. \A j \in Instruction : j.counter \in Nat  BY EntryFields
  <2>3. t.counter \in Nat  BY <1>3 DEF IsTerms
  <2>4. i.counter <= t.counter  BY <1>4, <2>3 DEF Agrees
  <2>5. /\ was.counter <= was.seen
        /\ was.queue # None => was.queue.counter <= was.seen
    BY <1>3 DEF EntryAgrees
  <2> QED BY <2>1, <2>2, <2>3, <2>4, <2>5
<1>8. /\ f \in Entry /\ EntryAgrees(f, t) /\ f.seen = i.counter /\ f.counter = was.counter
      /\ was.isSetUp /\ f.isSetUp
      /\ Busy(was) => f.queue = i /\ f.handlers = was.handlers /\ f.retry = was.retry
      /\ ~ Busy(was) => f.handlers # {} /\ f.retry.instruction = i /\ was.handlers = {} /\ was.queue = None
  <2>1. Busy(was) \/ (was.isSetUp /\ was.handlers = {})  BY DEF was, s
  <2>2. f = Taken(Seen(was, i), i)  BY DEF was, s
  <2> QED BY <1>2, <1>3, <1>4, <2>1, <2>2, TakenAgrees
<1>9. after[s] = f /\ \A r \in Stream \ {s} : after[r] = entries[r]
  BY <1>2 DEF IsNode, WithEntry
<1>10. \A k \in DOMAIN instructions : instructions[k].stream \in Stream
  BY EntryFields DEF IsNode
<1>11. \A j, k \in DOMAIN instructions :
          j < k /\ instructions[j].stream = instructions[k].stream =>
              instructions[j].counter <= instructions[k].counter
  BY DEF NodeAgrees, InstructionsAgree
<1>12. \A k \in DOMAIN instructions :
          /\ Agrees(terms[instructions[k].stream], instructions[k].counter, instructions[k].nodeIds)
          /\ entries[instructions[k].stream].seen <= instructions[k].counter
  BY DEF NodeAgrees, InstructionsAgree
<1> HIDE DEF after
<1>13. InstructionsAgree(after, terms, rest)
  <2>1. ASSUME NEW k \in DOMAIN rest
        PROVE  /\ Agrees(terms[rest[k].stream], rest[k].counter, rest[k].nodeIds)
               /\ after[rest[k].stream].seen <= rest[k].counter
    <3>1. rest[k] = instructions[k + 1] /\ k + 1 \in DOMAIN instructions /\ 1 < k + 1
      <4>1. k \in Int  BY DEF rest, IsNode
      <4> QED BY <1>1, <4>1
    <3>2. CASE rest[k].stream = s
      <4>1. i.counter <= rest[k].counter  BY <1>1, <1>11, <3>1, <3>2 DEF s
      <4> QED BY <1>8, <1>9, <1>12, <3>1, <3>2, <4>1
    <3>3. CASE rest[k].stream # s
      BY <1>9, <1>10, <1>12, <3>1, <3>3
    <3> QED BY <3>2, <3>3
  <2>2. ASSUME NEW j \in DOMAIN rest, NEW k \in DOMAIN rest, j < k, rest[j].stream = rest[k].stream
        PROVE  rest[j].counter <= rest[k].counter
    BY <1>1, <1>11, <2>2
  <2> QED BY <2>1, <2>2 DEF InstructionsAgree
<1>14. LastIsSomewhere(f, t.counter, s, rest)
  <2>1. CASE was.counter = t.counter
    BY <1>8, <2>1 DEF LastIsSomewhere
  <2>2. CASE i.counter = t.counter
    <3>1. Busy(was) => f.queue # None
      BY <1>2, <1>8, NoInstructionAssumption
    <3> QED BY <1>8, <2>2, <3>1 DEF LastIsSomewhere
  <2>3. CASE was.handlers # {} /\ was.retry.instruction.counter = t.counter
    BY <1>8, <2>3 DEF LastIsSomewhere
  <2>4. CASE was.queue # None /\ was.queue.counter = t.counter
    <3>1. i.counter = t.counter  BY <1>2, <1>4, <1>7, <2>4
    <3> QED BY <2>2, <3>1
  <2>5. CASE \E k \in DOMAIN instructions : instructions[k].stream = s /\ instructions[k].counter = t.counter
    <3>1. PICK k \in DOMAIN instructions : instructions[k].stream = s /\ instructions[k].counter = t.counter
      BY <2>5
    <3>2. CASE k = 1
      BY <1>1, <2>2, <3>1, <3>2
    <3>3. CASE k # 1
      <4>1. k - 1 \in DOMAIN rest /\ rest[k - 1] = instructions[k]  BY <1>1, <3>3
      <4>2. \E j \in DOMAIN rest : rest[j].stream = s /\ rest[j].counter = t.counter
        BY <3>1, <4>1
      <4> QED BY <4>2 DEF LastIsSomewhere
    <3> QED BY <3>2, <3>3
  <2> QED BY <1>3, <2>1, <2>3, <2>4, <2>5 DEF LastIsSomewhere
<1>15. \A r \in Stream \ {s}, k \in DOMAIN instructions : instructions[k].stream = r =>
          \E j \in DOMAIN rest : rest[j] = instructions[k]
  BY <1>1 DEF s
<1>16. ReportsAgree(after, terms, statuses)
  BY <1>2, <1>8, ReportsStay DEF NodeAgrees, after, was
<1>17. ~ isUp => statuses = <<>>  BY DEF NodeAgrees
<1>18. \A k \in DOMAIN statuses : \E j \in DOMAIN statuses : statuses[j] = statuses[k]
  OBVIOUS
<1>19. NodeAgrees(after, terms, rest, statuses, isUp)
  <2>1. EntryAgrees(f, terms[s]) /\ LastIsSomewhere(f, terms[s].counter, s, rest)
    BY <1>8, <1>14 DEF t
  <2>2. entries[s].isSetUp /\ f.isSetUp  BY <1>8 DEF was
  <2> QED BY <1>2, <1>8, <1>13, <1>15, <1>16, <1>17, <1>18, <2>1, <2>2, EntryBecomes DEF after
<1> QED BY <1>5, <1>19 DEF after, rest, s, was
\* Nothing but the last instruction seen matters for those on their way.
LEMMA InstructionsStay ==
    ASSUME NEW entries, NEW instructions, NEW statuses, IsNode(entries, instructions, statuses),
           NEW terms, InstructionsAgree(entries, terms, instructions),
           NEW s \in Stream, NEW f, f.seen = entries[s].seen
    PROVE  InstructionsAgree(WithEntry(entries, s, f), terms, instructions)
<1> DEFINE after == WithEntry(entries, s, f)
<1>1. after[s] = f /\ \A r \in Stream \ {s} : after[r] = entries[r]
  BY DEF IsNode, WithEntry
<1>2. \A k \in DOMAIN instructions : instructions[k].stream \in Stream
  BY EntryFields DEF IsNode
<1> HIDE DEF after
<1>3. \A k \in DOMAIN instructions : after[instructions[k].stream].seen = entries[instructions[k].stream].seen
  BY <1>1, <1>2
<1>4. InstructionsAgree(after, terms, instructions)
  BY <1>3 DEF InstructionsAgree
<1> QED BY <1>4 DEF after

\* An entry changes but not what it has seen, and perhaps a report is sent.
LEMMA EntryMovesOn ==
    ASSUME NEW entries, NEW instructions, NEW statuses, IsNode(entries, instructions, statuses),
           NEW terms, NEW isUp \in BOOLEAN,
           NodeAgrees(entries, terms, instructions, statuses, isUp),
           NEW s \in Stream, NEW f \in Entry, EntryAgrees(f, terms[s]), f.isSetUp,
           f.seen = entries[s].seen,
           LastIsSomewhere(f, terms[s].counter, s, instructions),
           NEW e \in Entry, e.isSetUp, Agrees(terms[s], e.counter, e.neighbors),
           NEW reports,
           \/ reports = statuses /\ entries[s].isSetUp
           \/ reports = IF isUp THEN statuses \o <<StatusOf(WithEntry(entries, s, e), s)>> ELSE statuses
    PROVE  NodeAgrees(WithEntry(entries, s, f), terms, instructions, reports, isUp)
<1> DEFINE after == WithEntry(entries, s, f)
           status == StatusOf(WithEntry(entries, s, e), s)
           longer == statuses \o <<status>>
<1>1. InstructionsAgree(after, terms, instructions)  BY InstructionsStay DEF NodeAgrees
<1>2. ReportsAgree(after, terms, statuses) /\ ReportsAgree(after, terms, longer)
  BY ReportsStay DEF NodeAgrees
<1>3. s \in DOMAIN status.streams  BY DEF StatusOf
<1>4. statuses \in Seq(StatusMessage)  BY DEF IsNode
<1>5. /\ \A k \in DOMAIN statuses : k \in DOMAIN longer /\ longer[k] = statuses[k]
      /\ \E k \in DOMAIN longer : longer[k] = status
  <2> HIDE DEF status
  <2>1. /\ DOMAIN longer = 1 .. (Len(statuses) + 1) /\ DOMAIN statuses = 1 .. Len(statuses)
        /\ Len(statuses) \in Nat
        /\ \A k \in DOMAIN statuses : longer[k] = statuses[k]
        /\ longer[Len(statuses) + 1] = status
    BY <1>4, OneMore
  <2> HIDE DEF longer
  <2> QED BY <2>1
<1>6. ~ isUp => statuses = <<>>  BY DEF NodeAgrees
<1> HIDE DEF status, longer, after
<1>7. reports = statuses \/ (isUp /\ reports = longer)
  BY DEF longer, status
<1>8. reports = statuses => entries[s].isSetUp \/ ~ isUp
  <2>1. ASSUME reports = longer, reports = statuses, isUp PROVE FALSE
    <3>1. Len(longer) = Len(statuses) + 1 /\ Len(statuses) \in Nat
      BY <1>4 DEF longer
    <3> QED BY <2>1, <3>1
  <2> QED BY <2>1 DEF longer, status
<1>9. ReportsAgree(after, terms, reports) /\ (~ isUp => reports = <<>>)
  BY <1>2, <1>6, <1>7
<1>10. \A k \in DOMAIN statuses : \E j \in DOMAIN reports : reports[j] = statuses[k]
  BY <1>5, <1>7
<1>11. isUp /\ f.isSetUp /\ ~ entries[s].isSetUp => \E k \in DOMAIN reports : s \in DOMAIN reports[k].streams
  BY <1>3, <1>5, <1>7, <1>8
<1>12. \A r \in Stream \ {s}, k \in DOMAIN instructions : instructions[k].stream = r =>
          \E j \in DOMAIN instructions : instructions[j] = instructions[k]
  OBVIOUS
<1> QED BY <1>1, <1>9, <1>10, <1>11, <1>12, EntryBecomes DEF after

\* A handler ends.
LEMMA EndingAgrees ==
    ASSUME NEW entries, NEW instructions, NEW statuses, IsNode(entries, instructions, statuses),
           NEW terms, \A r \in Stream : IsTerms(terms[r]), NEW isUp \in BOOLEAN,
           NodeAgrees(entries, terms, instructions, statuses, isUp),
           NEW s \in Stream, NEW h \in entries[s].handlers,
           NEW e, e = Ended(entries[s], h, {}),
           NEW reports,
           \/ reports = statuses
           \/ reports = IF isUp THEN statuses \o <<StatusOf(WithEntry(entries, s, e), s)>> ELSE statuses
    PROVE  NodeAgrees(WithEntry(entries, s, Continued(e, h)), terms, instructions, reports, isUp)
<1> DEFINE was == entries[s]
           f == Continued(e, h)
           t == terms[s]
<1>1. was \in Entry /\ IsTerms(t) /\ EntryAgrees(was, t)
      /\ LastIsSomewhere(was, t.counter, s, instructions)
  BY DEF IsNode, NodeAgrees
<1>2. /\ e \in Entry /\ e.isSetUp /\ was.isSetUp
      /\ e.counter = h.instruction.counter /\ h.instruction = was.retry.instruction
      /\ Agrees(t, e.counter, e.neighbors)
      /\ was.counter <= e.counter
      /\ EntryAgrees(f, t)
      /\ f.counter = e.counter /\ f.seen = was.seen /\ f.isSetUp
      /\ was.queue # None => f.handlers # {} /\ f.retry.instruction = was.queue
  BY <1>1, EndedAgrees
<1>3. f \in Entry  BY <1>1, EndedIsTyped
<1>4. LastIsSomewhere(f, t.counter, s, instructions)
  <2>1. was.counter \in Nat /\ e.counter \in Nat /\ t.counter \in Nat /\ e.counter <= t.counter
    BY <1>1, <1>2, EntryFields DEF IsTerms, Agrees
  <2>2. was.counter = t.counter => f.counter = t.counter
    BY <1>2, <2>1
  <2> QED BY <1>1, <1>2, <2>2 DEF LastIsSomewhere
<1>5. \/ reports = statuses /\ entries[s].isSetUp
      \/ reports = IF isUp THEN statuses \o <<StatusOf(WithEntry(entries, s, e), s)>> ELSE statuses
  BY <1>2
<1> HIDE DEF f
<1>6. NodeAgrees(WithEntry(entries, s, f), terms, instructions, reports, isUp)
  BY <1>2, <1>3, <1>4, <1>5, EntryMovesOn
<1> QED BY <1>6 DEF f

\* The retry timer fires: what was done is done again.
Retried(e) == Begun(e, e.retry.instruction, e.retry.again, "retry")

LEMMA RetryAgrees ==
    ASSUME NEW entries, NEW instructions, NEW statuses, IsNode(entries, instructions, statuses),
           NEW terms, \A r \in Stream : IsTerms(terms[r]), NEW isUp \in BOOLEAN,
           NodeAgrees(entries, terms, instructions, statuses, isUp),
           NEW s \in Stream, entries[s].retry # None, entries[s].handlers = {}
    PROVE  NodeAgrees(WithEntry(entries, s, Retried(entries[s])), terms, instructions, statuses, isUp)
<1> DEFINE was == entries[s]
           i == was.retry.instruction
           f == Retried(was)
           t == terms[s]
<1>1. was \in Entry /\ IsTerms(t) /\ EntryAgrees(was, t)
      /\ LastIsSomewhere(was, t.counter, s, instructions)
  BY DEF IsNode, NodeAgrees
<1>2. i \in Instruction /\ was.retry.again \in BOOLEAN  BY <1>1, EntryFields
<1>3. was.queue = None  BY <1>1 DEF EntryAgrees, Busy
<1>4. /\ was.isSetUp /\ Agrees(t, i.counter, i.nodeIds)
      /\ was.counter <= i.counter /\ i.counter <= was.seen /\ was.seen <= t.counter
      /\ was.counter = 0 => was.neighbors = {}
      /\ Agrees(t, was.counter, was.neighbors)
  BY <1>1 DEF EntryAgrees
<1>5. f \in Entry  BY <1>1, <1>2, BegunIsTyped DEF Retried
<1>6. f.seen = was.seen /\ f.isSetUp /\ f.counter = was.counter
  BY <1>1 DEF Begun, Entry, Retried
<1>7. EntryAgrees(f, t)
  BY <1>1, <1>2, <1>3, <1>4, BegunAgrees DEF Retried
<1>8. LastIsSomewhere(f, t.counter, s, instructions)
  BY <1>1, <1>3, <1>6 DEF LastIsSomewhere
<1> HIDE DEF f
<1>9. NodeAgrees(WithEntry(entries, s, f), terms, instructions, statuses, isUp)
  BY <1>1, <1>4, <1>5, <1>6, <1>7, <1>8, EntryMovesOn
<1> QED BY <1>9 DEF f

\* A user subscribes.
SetUp(e) == [e EXCEPT !.isSetUp = TRUE]

LEMMA SubscribingAgrees ==
    ASSUME NEW entries, NEW instructions, NEW statuses, IsNode(entries, instructions, statuses),
           NEW terms, \A r \in Stream : IsTerms(terms[r]), NEW isUp \in BOOLEAN,
           NodeAgrees(entries, terms, instructions, statuses, isUp),
           NEW s \in Stream, ~ entries[s].isSetUp,
           NEW f, f = SetUp(entries[s]),
           NEW reports,
           reports = IF isUp THEN statuses \o <<StatusOf(WithEntry(entries, s, f), s)>> ELSE statuses
    PROVE  NodeAgrees(WithEntry(entries, s, f), terms, instructions, reports, isUp)
<1> DEFINE was == entries[s]
           t == terms[s]
<1>1. was \in Entry /\ EntryAgrees(was, t) /\ LastIsSomewhere(was, t.counter, s, instructions)
  BY DEF IsNode, NodeAgrees
<1>2. was.retry = None /\ was.handlers = {} /\ was.queue = None
  BY <1>1 DEF EntryAgrees, Busy
<1>3. /\ f \in Entry /\ f.isSetUp /\ f.seen = was.seen /\ f.counter = was.counter
      /\ f.neighbors = was.neighbors
      /\ f.retry = None /\ f.handlers = {} /\ f.queue = None
  BY <1>1, <1>2 DEF SetUp, Entry
<1>4. EntryAgrees(f, t) /\ Agrees(t, f.counter, f.neighbors)
  BY <1>1, <1>2, <1>3 DEF EntryAgrees
<1>5. LastIsSomewhere(f, t.counter, s, instructions)
  BY <1>1, <1>2, <1>3 DEF LastIsSomewhere
<1> HIDE DEF was
<1> QED BY <1>3, <1>4, <1>5, EntryMovesOn DEF was

\* A node connects, and says what it is subscribed to.
LEMMA ConnectingAgrees ==
    ASSUME NEW entries, NEW instructions, NEW statuses, IsNode(entries, instructions, statuses),
           NEW terms, \A r \in Stream : IsTerms(terms[r]),
           \A r \in Stream : terms[r].settled => terms[r].member,
           \A r \in Stream : ~ terms[r].member => terms[r].counter = 0,
           NodeAgrees(entries, terms, instructions, statuses, FALSE)
    PROVE  NodeAgrees(entries, terms, instructions, <<FullStatusOf(entries)>>, TRUE)
<1> DEFINE status == FullStatusOf(entries)
<1>1. \A r \in Stream : ~ terms[r].member /\ terms[r].counter = 0 /\ ~ terms[r].settled
  BY DEF NodeAgrees, MembershipAgrees
<1>2. /\ ~ status.single
      /\ DOMAIN status.streams = { r \in Stream : entries[r].isSetUp }
      /\ \A r \in DOMAIN status.streams : status.streams[r] = ReportOf(entries[r])
  BY DEF FullStatusOf
<1> HIDE DEF status
<1>3. ASSUME NEW r \in DOMAIN status.streams
      PROVE  /\ Agrees(terms[r], status.streams[r].counter, status.streams[r].neighbors)
             /\ entries[r].isSetUp
  <2>1. r \in Stream /\ entries[r].isSetUp /\ entries[r] \in Entry  BY <1>2 DEF IsNode
  <2>2. EntryAgrees(entries[r], terms[r])  BY <2>1 DEF NodeAgrees
  <2>3. entries[r].counter \in Nat /\ entries[r].seen \in Nat  BY <2>1, EntryFields
  <2>4. entries[r].counter = 0 /\ entries[r].neighbors = {}
    BY <1>1, <2>1, <2>2, <2>3 DEF EntryAgrees
  <2>5. status.streams[r].counter = 0 /\ status.streams[r].neighbors = {}
    <3>1. ReportOf(entries[r]).counter = 0 /\ ReportOf(entries[r]).neighbors = {}
      BY <2>1, <2>4 DEF ReportOf
    <3>2. status.streams[r] = ReportOf(entries[r])  BY <1>2
    <3> QED BY <3>1, <3>2
  <2> QED BY <1>1, <2>1, <2>5 DEF Agrees
<1>4. ReportsAgree(entries, terms, <<status>>)
  <2>1. DOMAIN <<status>> = {1} /\ <<status>>[1] = status  OBVIOUS
  <2> QED BY <1>1, <1>2, <1>3, <2>1 DEF ReportsAgree
<1>5. \A r \in Stream : MembershipAgrees(entries[r], terms[r], r, TRUE, <<status>>)
  <2>1. 1 \in DOMAIN <<status>> /\ <<status>>[1] = status  OBVIOUS
  <2> QED BY <1>1, <1>2, <2>1 DEF MembershipAgrees
<1> QED BY <1>4, <1>5 DEF NodeAgrees, status
-----------------------------------------------------------------------------
(* The steps of a node.                                                    *)

LEMMA TermsAreTyped ==
    ASSUME TrackerInv, NEW n \in Node, NEW s \in Stream
    PROVE  /\ TermsOf(n)[s] = Terms(n, s)
           /\ IsTerms(TermsOf(n)[s])
           /\ TermsOf(n)[s].settled => TermsOf(n)[s].member
           /\ ~ TermsOf(n)[s].member => TermsOf(n)[s].counter = 0
<1>1. TermsOf(n)[s] = Terms(n, s)  BY DEF TermsOf
<1>2. /\ Terms(n, s).counter = counters[n][s]
      /\ Terms(n, s).member <=> n \in Members(s)
      /\ Terms(n, s).settled \in BOOLEAN
      /\ Terms(n, s).settled => n \in Members(s)
  BY DEF Terms
<1>3. counters[n][s] \in Nat  BY DEF TrackerInv, SoundCalls
<1>4. n \notin Members(s) => counters[n][s] = 0  BY DEF TrackerInv, CountersOfMembers
<1> QED BY <1>1, <1>2, <1>3, <1>4 DEF IsTerms

LEMMA NodeIsTyped ==
    ASSUME NetworkInv, NEW n \in Node
    PROVE  IsNode(node[n], toNode[n], toTracker[n])
BY DEF NetworkInv, ChannelsOK, IsNode

\* The tracker keeps its terms, and the other nodes keep to them.
LEMMA NodeStepAgrees ==
    ASSUME Calm, UNCHANGED trackerVars, NEW n \in Node,
           \A m \in Node \ {n} : /\ node'[m] = node[m] /\ toNode'[m] = toNode[m]
                                 /\ toTracker'[m] = toTracker[m] /\ (m \in up' <=> m \in up),
           up' \subseteq known', stale' = {},
           NodeAgrees(node'[n], TermsOf(n), toNode'[n], toTracker'[n], n \in up')
    PROVE  Calm'
<1>1. ASSUME NEW m \in Node PROVE TermsOf(m)' = TermsOf(m)
  BY DEF TermsOf, Terms, trackerVars, calls, Members, Streams
<1>2. ASSUME NEW m \in Node PROVE NodeAgrees(node[m], TermsOf(m), toNode[m], toTracker[m], m \in up)'
  <2>1. CASE m = n
    BY <1>1, <2>1
  <2>2. CASE m # n
    <3>1. NodeAgrees(node[m], TermsOf(m), toNode[m], toTracker[m], m \in up)
      BY DEF Calm, NodesAgree
    <3>2. (m \in up') = (m \in up)  BY <2>2
    <3> QED BY <1>1, <2>2, <3>1, <3>2
  <2> QED BY <2>1, <2>2
<1>3. TrackerIsCalm'
  BY DEF Calm, TrackerIsCalm, trackerVars, calls, Members, Streams
<1> QED BY <1>2, <1>3 DEF Calm, NodesAgree

LEMMA ReceiveInstructionIsCalm ==
    ASSUME NetworkInv, Calm, NEW n \in Node, ReceiveInstruction(n), ~ disturbed'
    PROVE  Calm'
<1> DEFINE i == Head(toNode[n])
           s == i.stream
           held == node[n][s]
           f == Taken(Seen(held, i), i)
<1>1. IsNode(node[n], toNode[n], toTracker[n])  BY NodeIsTyped
<1>2. toNode[n] # <<>>  BY DEF ReceiveInstruction
<1>3. i = toNode[n][1] /\ 1 \in DOMAIN toNode[n]  BY <1>1, <1>2, OneLess DEF IsNode
<1>4. i \in Instruction /\ s \in Stream  BY <1>1, <1>3, EntryFields DEF IsNode
<1>5. NodeAgrees(node[n], TermsOf(n), toNode[n], toTracker[n], n \in up)
  BY DEF Calm, NodesAgree
<1>6. Accepts(held, i)
  BY <1>3, <1>5 DEF NodeAgrees, InstructionsAgree, Accepts
<1>7. Busy(held) \/ (held.isSetUp /\ held.handlers = {})
  BY <1>6 DEF ReceiveInstruction
<1>8. \A r \in Stream : IsTerms(TermsOf(n)[r])  BY TermsAreTyped DEF NetworkInv
<1>9. NodeAgrees(WithEntry(node[n], s, f), TermsOf(n), Tail(toNode[n]), toTracker[n], n \in up)
  <2>1. (n \in up) \in BOOLEAN  OBVIOUS
  <2> HIDE DEF i
  <2>2. i = Head(toNode[n])  BY DEF i
  <2> QED BY <1>1, <1>2, <1>5, <1>7, <1>8, <2>1, <2>2, ReceivingAgrees
<1>10. node' = [node EXCEPT ![n] = WithEntry(node[n], s, f)]
  <2>1. node' = [node EXCEPT ![n][s] =
                    IF Busy([held EXCEPT !.seen = i.counter])
                    THEN [[held EXCEPT !.seen = i.counter] EXCEPT !.queue = i]
                    ELSE Begun([held EXCEPT !.seen = i.counter], i, FALSE, "throttler")]
    BY <1>6 DEF ReceiveInstruction
  <2> QED BY <2>1 DEF WithEntry, Taken, Seen, Queued
<1> HIDE DEF f, s, i
<1>11. /\ node'[n] = WithEntry(node[n], s, f)
       /\ \A m \in Node \ {n} : node'[m] = node[m]
  BY <1>10 DEF NetworkInv
<1>12. /\ toNode'[n] = Tail(toNode[n])
       /\ \A m \in Node \ {n} : toNode'[m] = toNode[m]
  BY DEF ReceiveInstruction, NetworkInv, ChannelsOK
<1>13. UNCHANGED <<trackerVars, up, known, stale, toTracker>>
  BY DEF ReceiveInstruction, sockets
<1>14. up' \subseteq known' /\ stale' = {}  BY <1>13 DEF Calm, TrackerIsCalm
<1> QED BY <1>9, <1>11, <1>12, <1>13, <1>14, NodeStepAgrees

LEMMA HandlerEndsIsCalm ==
    ASSUME NetworkInv, Calm, NEW n \in Node, NEW s \in Stream, HandlerEnds(n, s, {})
    PROVE  Calm'
<1>1. PICK h \in node[n][s].handlers :
        LET e == Ended(node[n][s], h, {})
        IN  /\ node' = [node EXCEPT ![n][s] = Continued(e, h)]
            /\ \/ toTracker' = [toTracker EXCEPT ![n] = Sent(n, <<StatusOf([node[n] EXCEPT ![s] = e], s)>>)]
               \/ toTracker' = toTracker
            /\ UNCHANGED <<trackerVars, sockets, toNode>>
  BY DEF HandlerEnds
<1> DEFINE e == Ended(node[n][s], h, {})
           f == Continued(e, h)
<1>2. IsNode(node[n], toNode[n], toTracker[n])  BY NodeIsTyped
<1>3. NodeAgrees(node[n], TermsOf(n), toNode[n], toTracker[n], n \in up)
  BY DEF Calm, NodesAgree
<1>4. \A r \in Stream : IsTerms(TermsOf(n)[r])  BY TermsAreTyped DEF NetworkInv
<1>5. (n \in up) \in BOOLEAN  OBVIOUS
<1>6. node' = [node EXCEPT ![n] = WithEntry(node[n], s, f)]
  BY <1>1 DEF WithEntry
<1>7. \/ toTracker'[n] = toTracker[n]
      \/ toTracker'[n] = IF n \in up THEN toTracker[n] \o <<StatusOf(WithEntry(node[n], s, e), s)>> ELSE toTracker[n]
  <2> HIDE DEF e
  <2>1. \/ toTracker' = [toTracker EXCEPT ![n] = Sent(n, <<StatusOf([node[n] EXCEPT ![s] = e], s)>>)]
        \/ toTracker' = toTracker
    BY <1>1 DEF e
  <2>2. n \in DOMAIN toTracker  BY DEF NetworkInv, ChannelsOK
  <2> QED BY <2>1, <2>2 DEF WithEntry, Sent
<1>8. \A m \in Node \ {n} : toTracker'[m] = toTracker[m]
  BY <1>1 DEF NetworkInv, ChannelsOK
<1> HIDE DEF e
<1>9. NodeAgrees(WithEntry(node[n], s, f), TermsOf(n), toNode[n], toTracker'[n], n \in up)
  BY <1>1, <1>2, <1>3, <1>4, <1>5, <1>7, EndingAgrees DEF e
<1> HIDE DEF f
<1>10. /\ node'[n] = WithEntry(node[n], s, f)
       /\ \A m \in Node \ {n} : node'[m] = node[m]
  BY <1>6 DEF NetworkInv
<1>11. UNCHANGED <<trackerVars, up, known, stale, toNode>>
  BY <1>1 DEF sockets
<1>12. up' \subseteq known' /\ stale' = {}  BY <1>11 DEF Calm, TrackerIsCalm
<1> QED BY <1>8, <1>9, <1>10, <1>11, <1>12, NodeStepAgrees

LEMMA RetryFiresIsCalm ==
    ASSUME NetworkInv, Calm, NEW n \in Node, NEW s \in Stream, RetryFires(n, s)
    PROVE  Calm'
<1> DEFINE f == Retried(node[n][s])
<1>1. /\ node[n][s].retry # None /\ node[n][s].handlers = {}
      /\ node' = [node EXCEPT ![n] = WithEntry(node[n], s, f)]
      /\ UNCHANGED <<trackerVars, up, known, stale, toNode, toTracker>>
  BY DEF RetryFires, WithEntry, Retried, sockets, channels
<1>2. IsNode(node[n], toNode[n], toTracker[n])  BY NodeIsTyped
<1>3. NodeAgrees(node[n], TermsOf(n), toNode[n], toTracker[n], n \in up)
  BY DEF Calm, NodesAgree
<1>4. \A r \in Stream : IsTerms(TermsOf(n)[r])  BY TermsAreTyped DEF NetworkInv
<1>5. (n \in up) \in BOOLEAN  OBVIOUS
<1>6. NodeAgrees(WithEntry(node[n], s, f), TermsOf(n), toNode[n], toTracker[n], n \in up)
  BY <1>1, <1>2, <1>3, <1>4, <1>5, RetryAgrees
<1> HIDE DEF f
<1>7. /\ node'[n] = WithEntry(node[n], s, f)
      /\ \A m \in Node \ {n} : node'[m] = node[m]
  BY <1>1 DEF NetworkInv
<1>8. up' \subseteq known' /\ stale' = {}  BY <1>1 DEF Calm, TrackerIsCalm
<1> QED BY <1>1, <1>6, <1>7, <1>8, NodeStepAgrees

LEMMA SubscribeIsCalm ==
    ASSUME NetworkInv, Calm, NEW n \in Node, NEW s \in Stream, Subscribe(n, s)
    PROVE  Calm'
<1> DEFINE f == SetUp(node[n][s])
           after == WithEntry(node[n], s, f)
<1>1. [node[n] EXCEPT ![s].isSetUp = TRUE] = after
  BY DEF WithEntry, SetUp
<1>2. /\ ~ node[n][s].isSetUp
      /\ node' = [node EXCEPT ![n] = after]
      /\ toTracker' = [toTracker EXCEPT ![n] = Sent(n, <<StatusOf(after, s)>>)]
      /\ UNCHANGED <<trackerVars, up, known, stale, toNode>>
  BY <1>1 DEF Subscribe, sockets
<1>3. IsNode(node[n], toNode[n], toTracker[n])  BY NodeIsTyped
<1>4. NodeAgrees(node[n], TermsOf(n), toNode[n], toTracker[n], n \in up)
  BY DEF Calm, NodesAgree
<1>5. \A r \in Stream : IsTerms(TermsOf(n)[r])  BY TermsAreTyped DEF NetworkInv
<1>6. (n \in up) \in BOOLEAN  OBVIOUS
<1> HIDE DEF f
<1>7. /\ toTracker'[n] = IF n \in up THEN toTracker[n] \o <<StatusOf(after, s)>> ELSE toTracker[n]
      /\ \A m \in Node \ {n} : toTracker'[m] = toTracker[m]
  BY <1>2 DEF Sent, NetworkInv, ChannelsOK
<1>8. NodeAgrees(after, TermsOf(n), toNode[n], toTracker'[n], n \in up)
  <2> DEFINE reports == toTracker'[n]
  <2>1. f = SetUp(node[n][s])  BY DEF f
  <2>2. reports = IF n \in up THEN toTracker[n] \o <<StatusOf(after, s)>> ELSE toTracker[n]
    BY <1>7
  <2> HIDE DEF reports
  <2>3. NodeAgrees(after, TermsOf(n), toNode[n], reports, n \in up)
    BY <1>2, <1>3, <1>4, <1>5, <1>6, <2>1, <2>2, SubscribingAgrees
  <2> QED BY <2>3 DEF reports
<1> HIDE DEF after
<1>9. /\ node'[n] = after
      /\ \A m \in Node \ {n} : node'[m] = node[m]
  BY <1>2 DEF NetworkInv
<1>10. up' \subseteq known' /\ stale' = {}  BY <1>2 DEF Calm, TrackerIsCalm
<1> QED BY <1>2, <1>7, <1>8, <1>9, <1>10, NodeStepAgrees

LEMMA ConnectIsCalm ==
    ASSUME NetworkInv, Calm, NEW n \in Node, Connect(n)
    PROVE  Calm'
<1>1. /\ n \notin up /\ up' = up \cup {n} /\ known' = known \cup {n}
      /\ toTracker' = [toTracker EXCEPT ![n] = <<FullStatusOf(node[n])>>]
      /\ UNCHANGED <<trackerVars, node, stale, toNode>>
  BY DEF Connect
<1>2. IsNode(node[n], toNode[n], toTracker[n])  BY NodeIsTyped
<1>3. NodeAgrees(node[n], TermsOf(n), toNode[n], toTracker[n], FALSE)
  <2>1. (n \in up) = FALSE  BY <1>1
  <2>2. NodeAgrees(node[n], TermsOf(n), toNode[n], toTracker[n], n \in up)  BY DEF Calm, NodesAgree
  <2> QED BY <2>1, <2>2
<1>4. \A r \in Stream : /\ IsTerms(TermsOf(n)[r])
                        /\ TermsOf(n)[r].settled => TermsOf(n)[r].member
                        /\ ~ TermsOf(n)[r].member => TermsOf(n)[r].counter = 0
  BY TermsAreTyped DEF NetworkInv
<1>5. NodeAgrees(node[n], TermsOf(n), toNode[n], <<FullStatusOf(node[n])>>, TRUE)
  BY <1>2, <1>3, <1>4, ConnectingAgrees
<1>6. /\ toTracker'[n] = <<FullStatusOf(node[n])>>
      /\ \A m \in Node \ {n} : toTracker'[m] = toTracker[m]
  BY <1>1 DEF NetworkInv, ChannelsOK
<1>7. NodeAgrees(node'[n], TermsOf(n), toNode'[n], toTracker'[n], n \in up')
  <2>1. (n \in up') = TRUE  BY <1>1
  <2> QED BY <1>1, <1>5, <1>6, <2>1
<1>8. up' \subseteq known' /\ stale' = {}  BY <1>1 DEF Calm, TrackerIsCalm
<1> QED BY <1>1, <1>6, <1>7, <1>8, NodeStepAgrees
-----------------------------------------------------------------------------
(* What new terms of the tracker make of a node.                           *)

NewTerms(terms, next) ==
    \A r \in Stream : IsTerms(terms[r]) /\ IsTerms(next[r]) /\ Keeps(terms[r], next[r])

LEMMA AgreementsStay ==
    ASSUME NEW entries, NEW instructions, NEW statuses, IsNode(entries, instructions, statuses),
           NEW terms, NEW next, NewTerms(terms, next)
    PROVE  /\ InstructionsAgree(entries, terms, instructions) => InstructionsAgree(entries, next, instructions)
           /\ \A r \in Stream : EntryAgrees(entries[r], terms[r]) => EntryAgrees(entries[r], next[r])
           /\ \A k \in DOMAIN statuses : \A s \in DOMAIN statuses[k].streams :
                LET report == statuses[k].streams[s]
                IN  s \in Stream /\ (Agrees(terms[s], report.counter, report.neighbors) =>
                                        Agrees(next[s], report.counter, report.neighbors))
<1>1. ASSUME NEW r \in Stream
      PROVE  /\ \A c, N : Agrees(terms[r], c, N) => Agrees(next[r], c, N)
             /\ \A e \in Entry : EntryAgrees(e, terms[r]) => EntryAgrees(e, next[r])
  <2>1. IsTerms(terms[r]) /\ IsTerms(next[r]) /\ Keeps(terms[r], next[r])  BY DEF NewTerms
  <2> QED BY <2>1, AgreementStays
<1>2. \A k \in DOMAIN instructions : instructions[k].stream \in Stream
  BY EntryFields DEF IsNode
<1>3. \A r \in Stream : entries[r] \in Entry  BY DEF IsNode
<1>4. \A k \in DOMAIN statuses : \A s \in DOMAIN statuses[k].streams : s \in Stream
  <2>1. \A k \in DOMAIN statuses : statuses[k] \in StatusMessage  BY DEF IsNode
  <2>2. ASSUME NEW x \in StatusMessage  PROVE DOMAIN x.streams \subseteq Stream
    <3>1. CASE x \in [single : {TRUE}, streams : UNION {[S -> Report] : S \in SUBSET Stream}]
      <4>1. x.streams \in UNION {[S -> Report] : S \in SUBSET Stream}  BY <3>1
      <4>2. PICK S \in SUBSET Stream : x.streams \in [S -> Report]  BY <4>1
      <4> QED BY <4>2
    <3>2. CASE x \in [single : {FALSE}, streams : UNION {[S -> Counts] : S \in SUBSET Stream}]
      <4>1. x.streams \in UNION {[S -> Counts] : S \in SUBSET Stream}  BY <3>2
      <4>2. PICK S \in SUBSET Stream : x.streams \in [S -> Counts]  BY <4>1
      <4> QED BY <4>2
    <3> QED BY <3>1, <3>2 DEF StatusMessage
  <2> QED BY <2>1, <2>2
<1>5. InstructionsAgree(entries, terms, instructions) => InstructionsAgree(entries, next, instructions)
  BY <1>1, <1>2 DEF InstructionsAgree
<1>6. ASSUME NEW r \in Stream, EntryAgrees(entries[r], terms[r])
      PROVE  EntryAgrees(entries[r], next[r])
  BY <1>1, <1>3, <1>6
<1>7. ASSUME NEW k \in DOMAIN statuses, NEW s \in DOMAIN statuses[k].streams
      PROVE  LET report == statuses[k].streams[s]
             IN  s \in Stream /\ (Agrees(terms[s], report.counter, report.neighbors) =>
                                     Agrees(next[s], report.counter, report.neighbors))
  <2>1. s \in Stream  BY <1>4
  <2> QED BY <1>1, <2>1
<1> QED BY <1>5, <1>6, <1>7

\* The node is a member where it was one, and no message is taken or sent.
LEMMA TermsKept ==
    ASSUME NEW entries, NEW instructions, NEW statuses, IsNode(entries, instructions, statuses),
           NEW terms, NEW next, NewTerms(terms, next), NEW isUp,
           NodeAgrees(entries, terms, instructions, statuses, isUp),
           \A r \in Stream : /\ next[r].counter = terms[r].counter
                             /\ next[r].member <=> terms[r].member
    PROVE  NodeAgrees(entries, next, instructions, statuses, isUp)
<1>1. /\ InstructionsAgree(entries, next, instructions)
      /\ \A r \in Stream : EntryAgrees(entries[r], next[r])
  BY AgreementsStay DEF NodeAgrees
<1>2. ReportsAgree(entries, next, statuses)
  <2>1. ReportsAgree(entries, terms, statuses)  BY DEF NodeAgrees
  <2>2. \A k \in DOMAIN statuses : \A s \in DOMAIN statuses[k].streams :
          LET report == statuses[k].streams[s]
          IN  Agrees(terms[s], report.counter, report.neighbors) =>
                Agrees(next[s], report.counter, report.neighbors)
    BY AgreementsStay
  <2> QED BY <2>1, <2>2 DEF ReportsAgree
<1>3. \A r \in Stream : /\ LastIsSomewhere(entries[r], next[r].counter, r, instructions)
                        /\ MembershipAgrees(entries[r], next[r], r, isUp, statuses)
  BY DEF NodeAgrees, MembershipAgrees
<1> QED BY <1>1, <1>2, <1>3 DEF NodeAgrees

\* The tracker takes a status, and the node joins the overlays of the streams it mentions.
LEMMA StatusTakenAgrees ==
    ASSUME NEW entries, NEW instructions, NEW statuses, IsNode(entries, instructions, statuses),
           NEW terms, NEW next, NewTerms(terms, next), NEW isUp \in BOOLEAN,
           NodeAgrees(entries, terms, instructions, statuses, isUp),
           statuses # <<>>,
           \A r \in Stream : /\ next[r].counter = terms[r].counter
                             /\ next[r].member <=> terms[r].member \/ r \in DOMAIN Head(statuses).streams
    PROVE  NodeAgrees(entries, next, instructions, Tail(statuses), isUp)
<1> DEFINE rest == Tail(statuses)
<1>1. /\ InstructionsAgree(entries, next, instructions)
      /\ \A r \in Stream : EntryAgrees(entries[r], next[r])
  BY AgreementsStay DEF NodeAgrees
<1>2. /\ Head(statuses) = statuses[1] /\ 1 \in DOMAIN statuses
      /\ \A k \in DOMAIN rest : k + 1 \in DOMAIN statuses /\ k + 1 > 1 /\ rest[k] = statuses[k + 1]
      /\ \A k \in DOMAIN statuses : k = 1 \/ (k - 1 \in DOMAIN rest /\ rest[k - 1] = statuses[k])
  BY OneLess DEF IsNode
<1>3. isUp  BY DEF NodeAgrees
<1>4. ReportsAgree(entries, terms, statuses)  BY DEF NodeAgrees
<1>5. \A k \in DOMAIN statuses : \A s \in DOMAIN statuses[k].streams :
          LET report == statuses[k].streams[s]
          IN  /\ s \in Stream
              /\ Agrees(terms[s], report.counter, report.neighbors) =>
                    Agrees(next[s], report.counter, report.neighbors)
  BY AgreementsStay
<1> HIDE DEF rest
<1>6. ReportsAgree(entries, next, rest)
  <2> SUFFICES ASSUME NEW k \in DOMAIN rest
               PROVE  LET streams == rest[k].streams
                      IN  /\ \A s \in DOMAIN streams :
                               /\ Agrees(next[s], streams[s].counter, streams[s].neighbors)
                               /\ entries[s].isSetUp
                          /\ IF rest[k].single THEN \A r, s \in DOMAIN streams : r = s
                             ELSE k = 1 /\ \A s \in Stream : ~ next[s].member
    BY DEF ReportsAgree
  <2>1. rest[k] = statuses[k + 1] /\ k + 1 \in DOMAIN statuses /\ k + 1 # 1
    <3>1. k \in Int  BY DEF rest, IsNode
    <3> QED BY <1>2, <3>1
  <2>2. statuses[k + 1].single  BY <1>4, <2>1 DEF ReportsAgree
  <2> QED BY <1>4, <1>5, <2>1, <2>2 DEF ReportsAgree
<1>7. ASSUME NEW r \in Stream PROVE MembershipAgrees(entries[r], next[r], r, isUp, rest)
  <2>1. MembershipAgrees(entries[r], terms[r], r, isUp, statuses)  BY DEF NodeAgrees
  <2>2. next[r].member => entries[r].isSetUp
    BY <1>2, <1>4, <2>1 DEF MembershipAgrees, ReportsAgree
  <2>3. ASSUME entries[r].isSetUp, ~ next[r].member
        PROVE  \E k \in DOMAIN rest : r \in DOMAIN rest[k].streams
    <3>1. PICK k \in DOMAIN statuses : r \in DOMAIN statuses[k].streams
      BY <1>3, <2>1, <2>3 DEF MembershipAgrees
    <3>2. k # 1  BY <1>2, <2>3, <3>1
    <3> QED BY <1>2, <3>1, <3>2
  <2> QED BY <1>3, <2>2, <2>3 DEF MembershipAgrees
<1>8. \A r \in Stream : LastIsSomewhere(entries[r], next[r].counter, r, instructions)
  BY DEF NodeAgrees
<1> QED BY <1>1, <1>3, <1>6, <1>7, <1>8 DEF NodeAgrees, rest

\* The tracker sends the node an instruction, with the next counter and the neighbors it has.
LEMMA InstructionSentAgrees ==
    ASSUME NEW entries, NEW instructions, NEW statuses, IsNode(entries, instructions, statuses),
           NEW terms, NEW next, NewTerms(terms, next), NEW isUp,
           NodeAgrees(entries, terms, instructions, statuses, isUp),
           NEW i \in Instruction,
           \A r \in Stream : /\ next[r].counter = IF r = i.stream THEN i.counter ELSE terms[r].counter
                             /\ next[r].member <=> terms[r].member,
           i.counter = terms[i.stream].counter + 1,
           i.nodeIds = next[i.stream].neighbors
    PROVE  NodeAgrees(entries, next, Append(instructions, i), statuses, isUp)
<1> DEFINE s == i.stream
           longer == Append(instructions, i)
<1>1. s \in Stream /\ i.counter \in Nat /\ i.counter # 0  BY EntryFields DEF Instruction
<1>2. IsTerms(terms[s]) /\ IsTerms(next[s]) /\ next[s].counter = i.counter
  BY <1>1 DEF NewTerms
<1>3. /\ InstructionsAgree(entries, next, instructions)
      /\ \A r \in Stream : EntryAgrees(entries[r], next[r])
  BY AgreementsStay DEF NodeAgrees
<1>4. ReportsAgree(entries, next, statuses)
  <2>1. ReportsAgree(entries, terms, statuses)  BY DEF NodeAgrees
  <2>2. \A k \in DOMAIN statuses : \A r \in DOMAIN statuses[k].streams :
          LET report == statuses[k].streams[r]
          IN  Agrees(terms[r], report.counter, report.neighbors) =>
                Agrees(next[r], report.counter, report.neighbors)
    BY AgreementsStay
  <2> QED BY <2>1, <2>2 DEF ReportsAgree
<1>5. \A r \in Stream : MembershipAgrees(entries[r], next[r], r, isUp, statuses)
  BY DEF NodeAgrees, MembershipAgrees
<1>6. /\ DOMAIN longer = 1 .. (Len(instructions) + 1) /\ DOMAIN instructions = 1 .. Len(instructions)
      /\ Len(instructions) \in Nat
      /\ \A k \in DOMAIN instructions : longer[k] = instructions[k]
      /\ longer[Len(instructions) + 1] = i
  <2>1. instructions \in Seq(Instruction)  BY DEF IsNode
  <2>2. Append(instructions, i) = instructions \o <<i>>  BY <2>1, OneMore
  <2> QED BY <2>1, <2>2, OneMore
<1> HIDE DEF longer, s
<1>7. Agrees(next[s], i.counter, i.nodeIds)
  BY <1>1, <1>2 DEF Agrees, IsTerms, s
<1>8. entries[s].seen <= i.counter
  <2>1. EntryAgrees(entries[s], next[s])  BY <1>1, <1>3
  <2> QED BY <1>2, <2>1 DEF EntryAgrees
<1>9. \A k \in DOMAIN longer : k \in DOMAIN instructions \/ k = Len(instructions) + 1
  BY <1>6
<1>10. ASSUME NEW j \in DOMAIN instructions, instructions[j].stream = s
       PROVE  instructions[j].counter <= i.counter
  <2>1. Agrees(next[s], instructions[j].counter, instructions[j].nodeIds)
    BY <1>3, <1>10 DEF InstructionsAgree
  <2> QED BY <1>2, <2>1 DEF Agrees, IsTerms
<1>11. InstructionsAgree(entries, next, longer)
  <2>1. \A k \in DOMAIN longer :
          /\ Agrees(next[longer[k].stream], longer[k].counter, longer[k].nodeIds)
          /\ entries[longer[k].stream].seen <= longer[k].counter
    BY <1>3, <1>6, <1>7, <1>8, <1>9 DEF InstructionsAgree, s
  <2>2. ASSUME NEW j \in DOMAIN longer, NEW k \in DOMAIN longer, j < k, longer[j].stream = longer[k].stream
        PROVE  longer[j].counter <= longer[k].counter
    <3>1. j \in DOMAIN instructions  BY <1>6, <1>9, <2>2
    <3>2. CASE k \in DOMAIN instructions
      BY <1>3, <1>6, <2>2, <3>1, <3>2 DEF InstructionsAgree
    <3>3. CASE k = Len(instructions) + 1
      BY <1>6, <1>10, <2>2, <3>1, <3>3 DEF s
    <3> QED BY <1>9, <3>2, <3>3
  <2> QED BY <2>1, <2>2 DEF InstructionsAgree
<1>12. ASSUME NEW r \in Stream PROVE LastIsSomewhere(entries[r], next[r].counter, r, longer)
  <2>1. CASE r = s
    <3>1. Len(instructions) + 1 \in DOMAIN longer  BY <1>6
    <3> QED BY <1>2, <1>6, <2>1, <3>1 DEF LastIsSomewhere, s
  <2>2. CASE r # s
    <3>1. LastIsSomewhere(entries[r], next[r].counter, r, instructions)  BY <2>2 DEF NodeAgrees, s
    <3>2. \A k \in DOMAIN instructions : k \in DOMAIN longer /\ longer[k] = instructions[k]  BY <1>6
    <3> QED BY <3>1, <3>2 DEF LastIsSomewhere
  <2> QED BY <2>1, <2>2
<1> QED BY <1>3, <1>4, <1>5, <1>11, <1>12 DEF NodeAgrees, longer
-----------------------------------------------------------------------------
(* The steps of the tracker.                                               *)

\* What the terms are, now and after a step.
LEMMA TermsFields ==
    ASSUME NEW n \in Node, NEW s \in Stream
    PROVE  /\ TermsOf(n)[s].counter = counters[n][s]
           /\ TermsOf(n)[s].member <=> n \in Members(s)
           /\ TermsOf(n)[s].settled <=>
                n \in Members(s) /\ ~ (form # None /\ form.stream = s /\ n \in form.updated)
           /\ TermsOf(n)[s].neighbors = IF n \in Members(s) THEN overlayPerStream[s][n] ELSE {}
           /\ TermsOf(n)[s].settled \in BOOLEAN
BY DEF TermsOf, Terms

LEMMA NextTermsFields ==
    ASSUME NEW n \in Node, NEW s \in Stream
    PROVE  /\ TermsOf(n)'[s].counter = counters'[n][s]
           /\ TermsOf(n)'[s].member <=> n \in Members(s)'
           /\ TermsOf(n)'[s].settled <=>
                n \in Members(s)' /\ ~ (form' # None /\ form'.stream = s /\ n \in form'.updated)
           /\ TermsOf(n)'[s].neighbors = IF n \in Members(s)' THEN overlayPerStream'[s][n] ELSE {}
           /\ TermsOf(n)'[s].settled \in BOOLEAN
BY DEF TermsOf, Terms

\* A step of the tracker that neither takes nor sends a message, and changes no counter and no
\* membership.
LEMMA TrackerStepAgrees ==
    ASSUME NetworkInv, TrackerInv', Calm, TrackerIsCalm',
           UNCHANGED <<node, up, toNode, toTracker>>,
           \A n \in Node, s \in Stream :
             /\ counters'[n][s] = counters[n][s]
             /\ n \in Members(s)' <=> n \in Members(s)
             /\ TermsOf(n)'[s].settled => TermsOf(n)[s].settled /\ overlayPerStream'[s][n] = overlayPerStream[s][n]
    PROVE  Calm'
<1> SUFFICES ASSUME NEW n \in Node
             PROVE  NodeAgrees(node[n], TermsOf(n)', toNode[n], toTracker[n], n \in up)
  BY DEF Calm, NodesAgree
<1>1. IsNode(node[n], toNode[n], toTracker[n])  BY NodeIsTyped
<1>2. NodeAgrees(node[n], TermsOf(n), toNode[n], toTracker[n], n \in up)
  BY DEF Calm, NodesAgree
<1>3. ASSUME NEW r \in Stream
      PROVE  /\ IsTerms(TermsOf(n)[r]) /\ IsTerms(TermsOf(n)'[r]) /\ Keeps(TermsOf(n)[r], TermsOf(n)'[r])
             /\ TermsOf(n)'[r].counter = TermsOf(n)[r].counter
             /\ TermsOf(n)'[r].member <=> TermsOf(n)[r].member
  <2>1. counters[n][r] \in Nat  BY DEF NetworkInv, TrackerInv, SoundCalls
  <2>2. TermsOf(n)'[r].counter = TermsOf(n)[r].counter
    BY TermsFields, NextTermsFields
  <2>3. TermsOf(n)'[r].member <=> TermsOf(n)[r].member
    BY TermsFields, NextTermsFields
  <2>4. TermsOf(n)'[r].settled =>
          TermsOf(n)[r].settled /\ TermsOf(n)'[r].neighbors = TermsOf(n)[r].neighbors
    BY TermsFields, NextTermsFields
  <2>5. TermsOf(n)[r].settled \in BOOLEAN /\ TermsOf(n)'[r].settled \in BOOLEAN
        /\ TermsOf(n)[r].counter \in Nat
    BY <2>1, TermsFields, NextTermsFields
  <2> QED BY <2>2, <2>3, <2>4, <2>5 DEF IsTerms, Keeps
<1>4. NewTerms(TermsOf(n), TermsOf(n)')  BY <1>3 DEF NewTerms
<1> QED BY <1>1, <1>2, <1>3, <1>4, TermsKept

\* Nobody leaves but nodes that are not in the overlay.
LEMMA LeaveStreamIsCalm ==
    ASSUME NetworkInv, TrackerInv', Calm, NEW n \in Node, NEW s \in Stream, LeaveStream(n, s),
           UNCHANGED <<node, sockets, channels>>
    PROVE  Calm'
<1> DEFINE t == overlayPerStream[s]
<1>1. /\ <<n, s>> \in leaving /\ form = None
      /\ n \notin Members(s) /\ Members(s) # {}
      /\ \A r \in Stream : counters[n][r] = 0
      /\ s \in Streams /\ Members(s) = DOMAIN t
  BY DEF LeaveStream, Calm, TrackerIsCalm, Members
<1>2. AfterLeave(t, n) = t /\ ~ IsEmpty(t)
  BY <1>1 DEF AfterLeave, IsEmpty
<1>3. /\ leaving' = leaving \ {<<n, s>>}
      /\ forcing' = {} /\ form' = None
      /\ overlayPerStream' = [r \in Streams |-> IF r = s THEN t ELSE overlayPerStream[r]]
      /\ counters' = [m \in Node |-> [r \in Stream |-> IF m = n THEN 0 ELSE counters[m][r]]]
  BY <1>1, <1>2 DEF LeaveStream, CountersAfterLeave
<1>4. /\ DOMAIN overlayPerStream' = Streams
      /\ \A r \in Streams : overlayPerStream'[r] = overlayPerStream[r]
  BY <1>3
<1>5. \A r \in Stream : Members(r)' = Members(r)
  BY <1>4 DEF Members, Streams
<1>6. \A m \in Node, r \in Stream : counters'[m][r] = counters[m][r]
  BY <1>1, <1>3
<1>7. TrackerIsCalm'
  <2>1. \A m \in Node, r \in Stream : <<m, r>> \in leaving' =>
          m \notin Members(r)' /\ Members(r)' # {} /\ \A q \in Stream : counters'[m][q] = 0
    BY <1>3, <1>5, <1>6 DEF Calm, TrackerIsCalm
  <2>2. \A r \in Streams' : WithinBounds(overlayPerStream'[r])
    BY <1>4 DEF Calm, TrackerIsCalm, Streams
  <2> QED BY <1>3, <2>1, <2>2 DEF Calm, TrackerIsCalm, sockets
<1>8. ASSUME NEW m \in Node, NEW r \in Stream, TermsOf(m)'[r].settled
      PROVE  TermsOf(m)[r].settled /\ overlayPerStream'[r][m] = overlayPerStream[r][m]
  <2>1. m \in Members(r)  BY <1>5, <1>8, NextTermsFields
  <2>2. r \in Streams  BY <2>1 DEF Members
  <2> QED BY <1>1, <1>4, <2>1, <2>2, TermsFields
<1> QED BY <1>5, <1>6, <1>7, <1>8, TrackerStepAgrees DEF sockets, channels

\* A call of formInstructions starts, or goes on: those whose neighbors it changes are to be told.
LEMMA FormingIsCalm ==
    ASSUME NetworkInv, TrackerInv', Calm, leaving = {}, UNCHANGED <<counters, leaving, forcing>>,
           UNCHANGED <<node, sockets, channels>>,
           NEW s \in Streams, NEW t, Sound(t), DOMAIN t = Members(s), WithinBounds(t),
           overlayPerStream' = [overlayPerStream EXCEPT ![s] = t],
           form' # None, form'.stream = s,
           \A m \in Members(s) \ form'.updated :
             t[m] = overlayPerStream[s][m] /\ ~ (form # None /\ m \in form.updated),
           form # None => form.stream = s
    PROVE  Calm'
<1>1. /\ UNCHANGED Streams /\ \A r \in Stream : UNCHANGED Members(r)
      /\ overlayPerStream'[s] = t
      /\ \A r \in Streams \ {s} : overlayPerStream'[r] = overlayPerStream[r]
  BY OverlayBecomes DEF NetworkInv, Streams
<1>2. TrackerIsCalm'
  <2>1. \A r \in Streams' : WithinBounds(overlayPerStream'[r])
    BY <1>1 DEF Calm, TrackerIsCalm
  <2> QED BY <2>1 DEF Calm, TrackerIsCalm, sockets
<1>3. ASSUME NEW m \in Node, NEW r \in Stream, TermsOf(m)'[r].settled
      PROVE  TermsOf(m)[r].settled /\ overlayPerStream'[r][m] = overlayPerStream[r][m]
  <2>1. m \in Members(r) /\ ~ (r = s /\ m \in form'.updated)
    BY <1>1, <1>3, NextTermsFields
  <2>2. r \in Streams  BY <2>1 DEF Members
  <2>3. CASE r = s
    BY <1>1, <2>1, <2>3, TermsFields
  <2>4. CASE r # s
    BY <1>1, <2>1, <2>2, <2>4, TermsFields
  <2> QED BY <2>3, <2>4
<1> QED BY <1>1, <1>2, <1>3, TrackerStepAgrees DEF sockets, channels

LEMMA FormForSenderIsCalm ==
    ASSUME NetworkInv, TrackerInv', Calm, NEW n \in Node, NEW s \in Stream, FormForSender(n, s),
           UNCHANGED <<node, sockets, channels>>
    PROVE  Calm'
<1>1. leaving = {} /\ form = None /\ UNCHANGED <<counters, leaving, forcing>>
  BY DEF FormForSender, StartsForming
<1>2. StartsForming(n, s, FALSE)  BY DEF FormForSender
<1>3. CASE n \notin Members(s)
  <2>1. UNCHANGED <<overlayPerStream, form, counters>>  BY <1>2, <1>3 DEF StartsForming
  <2>2. \A r \in Stream : Members(r)' = Members(r)  BY <2>1 DEF Members, Streams
  <2>3. TrackerIsCalm'
    BY <1>1, <2>1, <2>2 DEF Calm, TrackerIsCalm, sockets, Streams
  <2>4. \A m \in Node, r \in Stream : TermsOf(m)'[r].settled <=> TermsOf(m)[r].settled
    BY <2>1, <2>2, TermsFields, NextTermsFields
  <2> QED BY <2>1, <2>2, <2>3, <2>4, TrackerStepAgrees DEF sockets, channels
<1>4. CASE n \in Members(s)
  <2>1. PICK x \in Started(overlayPerStream[s], n, FALSE) :
          /\ overlayPerStream' = [overlayPerStream EXCEPT ![s] = x.nodes]
          /\ form' = [node |-> n, stream |-> s, targets |-> x.targets,
                      updated |-> x.updated, old |-> overlayPerStream[s]]
    BY <1>2, <1>4 DEF StartsForming
  <2>2. s \in Streams /\ Members(s) = DOMAIN overlayPerStream[s]
    BY <1>4 DEF Members
  <2>3. Sound(overlayPerStream[s]) /\ WithinBounds(overlayPerStream[s])
    BY <2>2 DEF NetworkInv, TrackerInv, SoundOverlays, Calm, TrackerIsCalm
  <2>4. Sound(x.nodes) /\ DOMAIN x.nodes = Members(s)
    BY <1>4, <2>2, <2>3, StartedIsSound
  <2>5. WithinBounds(x.nodes) /\ \A m \in Members(s) \ x.updated : x.nodes[m] = overlayPerStream[s][m]
    <3> DEFINE t == overlayPerStream[s]
    <3>0. PICK force : force = FALSE  OBVIOUS
    <3>1. Sound(t) /\ WithinBounds(t) /\ n \in DOMAIN t /\ x \in Started(t, n, force)
      BY <1>4, <2>2, <2>3, <3>0
    <3> HIDE DEF t
    <3>2. WithinBounds(x.nodes) /\ \A m \in DOMAIN t \ x.updated : x.nodes[m] = t[m]
      BY <3>1, StartedTellsAll
    <3> QED BY <2>2, <3>2 DEF t
  <2>6. /\ form'.stream = s /\ form'.updated = x.updated
        /\ form' # None
    <3>1. form'.stream = s /\ form'.updated = x.updated  BY <2>1
    <3>2. form' \in Form
      <4>1. x.targets \subseteq Node /\ x.updated \subseteq Node
        BY <1>4, <2>2, <2>3, <2>4, StartedIsSound, SoundIsTyped DEF Strangers
      <4> QED BY <2>1, <2>3, <4>1, SoundIsTyped DEF Form
    <3> QED BY <3>1, <3>2, NoFormAssumption
  <2> QED BY <1>1, <2>1, <2>2, <2>4, <2>5, <2>6, FormingIsCalm
<1> QED BY <1>3, <1>4

LEMMA RewireIsCalm ==
    ASSUME NetworkInv, TrackerInv', Calm, RewireOverlay, UNCHANGED <<node, sockets, channels>>
    PROVE  Calm'
<1>0. PICK s, n : s = form.stream /\ n = form.node
  OBVIOUS
<1>1. /\ form # None /\ Missing(overlayPerStream[s], n) > 1
      /\ UNCHANGED <<counters, leaving, forcing, forming>>
  BY <1>0 DEF RewireOverlay, Rewiring
<1>2. PICK n1 \in form.targets :
        \E x \in Turned(overlayPerStream[s], n, n1, form.targets, form.updated) :
           /\ overlayPerStream' = [overlayPerStream EXCEPT ![s] = x.nodes]
           /\ form' = [form EXCEPT !.targets = x.targets, !.updated = x.updated]
  BY <1>0, Zenon DEF RewireOverlay
<1>3. PICK x \in Turned(overlayPerStream[s], n, n1, form.targets, form.updated) :
           /\ overlayPerStream' = [overlayPerStream EXCEPT ![s] = x.nodes]
           /\ form' = [form EXCEPT !.targets = x.targets, !.updated = x.updated]
  BY <1>2, Zenon
<1>4. /\ s \in Streams /\ n \in Members(s) /\ Members(s) = DOMAIN overlayPerStream[s]
      /\ form.targets \subseteq Strangers(overlayPerStream[s], n)
      /\ form.updated \subseteq Members(s)
      /\ form \in Form
      /\ Sound(overlayPerStream[s])
      /\ WithinBounds(overlayPerStream[s])
  BY <1>0, <1>1 DEF NetworkInv, TrackerInv, SoundForm, SoundOverlays, Members, Calm, TrackerIsCalm
<1> DEFINE t == overlayPerStream[s]
           T == form.targets
           U == form.updated
<1>5. /\ Sound(t) /\ WithinBounds(t) /\ n \in DOMAIN t /\ Missing(t, n) > 1
      /\ T \subseteq Strangers(t, n) /\ U \subseteq DOMAIN t
      /\ n1 \in T /\ x \in Turned(t, n, n1, T, U)
      /\ Members(s) = DOMAIN t
  BY <1>1, <1>2, <1>3, <1>4
<1> HIDE DEF t, T, U
<1>6. /\ Sound(x.nodes) /\ DOMAIN x.nodes = DOMAIN t
      /\ x.targets \subseteq Strangers(x.nodes, n) /\ x.updated \subseteq DOMAIN t
  <2>1. /\ Sound(t) /\ n \in DOMAIN t /\ T \subseteq Strangers(t, n) /\ U \subseteq DOMAIN t
        /\ n1 \in T /\ x \in Turned(t, n, n1, T, U)
    BY <1>5
  <2> QED BY <2>1, TurnedIsSound
<1>7. /\ WithinBounds(x.nodes)
      /\ U \subseteq x.updated
      /\ \A m \in DOMAIN t \ x.updated : x.nodes[m] = t[m]
  BY <1>5, TurnedTellsAll
<1>8. form'.stream = s /\ form'.updated = x.updated
  BY <1>0, <1>3, <1>4 DEF Form
<1>9. form' # None
  <2>1. form' \in Form
    <3>1. x.targets \subseteq Node /\ x.updated \subseteq Node
      BY <1>5, <1>6, SoundIsTyped DEF Strangers
    <3> QED BY <1>3, <1>4, <3>1 DEF Form
  <2> QED BY <2>1, NoFormAssumption
<1>10. leaving = {}  BY <1>1 DEF Calm, TrackerIsCalm
<1>11. \A m \in Members(s) \ form'.updated :
          x.nodes[m] = overlayPerStream[s][m] /\ ~ (form # None /\ m \in form.updated)
  BY <1>5, <1>7, <1>8 DEF t, U
<1>12. DOMAIN x.nodes = Members(s)  BY <1>5, <1>6
<1> QED BY <1>0, <1>1, <1>3, <1>4, <1>6, <1>7, <1>8, <1>9, <1>10, <1>11, <1>12, FormingIsCalm

LEMMA CallsAreCalm ==
    ASSUME NetworkInv, TrackerInv', Calm, Calls
    PROVE  Calm'
<1>1. TrackerCalls /\ UNCHANGED <<node, sockets, channels>>
  BY DEF Calls
<1>2. forcing = {}  BY DEF Calm, TrackerIsCalm
<1>3. ASSUME NEW n \in Node, NEW s \in Stream, LeaveStream(n, s) PROVE Calm'
  BY <1>1, <1>3, LeaveStreamIsCalm
<1>4. ASSUME NEW n \in Node, NEW s \in Stream, FormForNeighbor(n, s) PROVE Calm'
  BY <1>2, <1>4 DEF FormForNeighbor
<1>5. ASSUME NEW n \in Node, NEW s \in Stream, FormForSender(n, s) PROVE Calm'
  BY <1>1, <1>5, FormForSenderIsCalm
<1>6. ASSUME RewireOverlay PROVE Calm'
  BY <1>1, <1>6, RewireIsCalm
<1> QED BY <1>1, <1>3, <1>4, <1>5, <1>6 DEF TrackerCalls
\* Instructions are sent: what was changed is settled.
LEMMA SendIsCalm ==
    ASSUME NetworkInv, TrackerInv', Calm, Send
    PROVE  Calm'
<1> DEFINE s == form.stream
           U == form.updated
<1>1. /\ form # None /\ form' = None
      /\ UNCHANGED <<overlayPerStream, leaving, forcing, forming, node, up, known, stale, toTracker>>
      /\ counters' = [n \in Node |-> IF n \in U THEN [counters[n] EXCEPT ![s] = CounterFor(n)] ELSE counters[n]]
      /\ toNode' = [n \in Node |->
             IF n \in U \cap known \cap up THEN Append(toNode[n], InstructionFor(n)) ELSE toNode[n]]
  BY DEF Send, SendInstructions, Sending, sockets
<1>2. /\ s \in Streams /\ s \in Stream /\ U \subseteq Members(s) /\ Sound(overlayPerStream[s])
      /\ counters \in [Node -> [Stream -> Nat]]
  BY <1>1 DEF NetworkInv, TrackerInv, SoundForm, SoundOverlays, SoundCalls
<1> HIDE DEF s, U
<1>3. UNCHANGED Streams /\ \A r \in Stream : UNCHANGED Members(r)
  BY <1>1 DEF Streams, Members
<1>4. TrackerIsCalm'
  <2>1. leaving = {}  BY <1>1 DEF Calm, TrackerIsCalm
  <2> QED BY <1>1, <1>3, <2>1 DEF Calm, TrackerIsCalm
<1>5. ASSUME NEW n \in Node, NEW r \in Stream
      PROVE  /\ counters'[n][r] = IF n \in U /\ r = s THEN counters[n][r] + 1 ELSE counters[n][r]
             /\ counters[n][r] \in Nat
  BY <1>1, <1>2 DEF CounterFor, s
<1>6. ASSUME NEW n \in Node, NEW r \in Stream
      PROVE  /\ IsTerms(TermsOf(n)[r]) /\ IsTerms(TermsOf(n)'[r])
             /\ TermsOf(n)'[r].member <=> TermsOf(n)[r].member
             /\ TermsOf(n)'[r].counter =
                  IF n \in U /\ r = s THEN TermsOf(n)[r].counter + 1 ELSE TermsOf(n)[r].counter
             /\ Keeps(TermsOf(n)[r], TermsOf(n)'[r])
  <2>1. TermsOf(n)'[r].member <=> TermsOf(n)[r].member
    BY <1>3, TermsFields, NextTermsFields
  <2>2. TermsOf(n)[r].counter = counters[n][r] /\ TermsOf(n)'[r].counter = counters'[n][r]
    BY TermsFields, NextTermsFields
  <2>3. IsTerms(TermsOf(n)[r]) /\ IsTerms(TermsOf(n)'[r])
    BY <1>5, <2>2, TermsFields, NextTermsFields DEF IsTerms
  <2>4. TermsOf(n)'[r].neighbors = TermsOf(n)[r].neighbors
    BY <1>1, <1>3, TermsFields, NextTermsFields
  <2>5. TermsOf(n)'[r].settled => TermsOf(n)[r].settled \/ (n \in U /\ r = s)
    BY <1>1, <1>3, TermsFields, NextTermsFields DEF U, s
  <2> QED BY <1>5, <2>1, <2>2, <2>3, <2>4, <2>5 DEF Keeps
<1> SUFFICES ASSUME NEW n \in Node
             PROVE  NodeAgrees(node[n], TermsOf(n)', toNode'[n], toTracker[n], n \in up)
  BY <1>1, <1>4 DEF Calm, NodesAgree
<1>7. IsNode(node[n], toNode[n], toTracker[n])  BY NodeIsTyped
<1>8. NodeAgrees(node[n], TermsOf(n), toNode[n], toTracker[n], n \in up)
  BY DEF Calm, NodesAgree
<1>9. NewTerms(TermsOf(n), TermsOf(n)')  BY <1>6 DEF NewTerms
<1>10. CASE n \notin U
  <2>1. toNode'[n] = toNode[n]  BY <1>1, <1>10
  <2>2. \A r \in Stream : /\ TermsOf(n)'[r].counter = TermsOf(n)[r].counter
                          /\ TermsOf(n)'[r].member <=> TermsOf(n)[r].member
    BY <1>6, <1>10
  <2>3. NodeAgrees(node[n], TermsOf(n)', toNode[n], toTracker[n], n \in up)
    BY <1>7, <1>8, <1>9, <2>2, TermsKept
  <2> QED BY <2>1, <2>3
<1>11. CASE n \in U
  <2> DEFINE i == InstructionFor(n)
  <2>1. n \in Members(s)  BY <1>2, <1>11
  <2>2. n \in up /\ n \in known
    <3>1. TermsOf(n)[s].member  BY <1>2, <2>1, TermsFields
    <3>2. MembershipAgrees(node[n][s], TermsOf(n)[s], s, n \in up, toTracker[n])
      BY <1>2, <1>8 DEF NodeAgrees
    <3> QED BY <3>1, <3>2 DEF MembershipAgrees, Calm, TrackerIsCalm
  <2>3. toNode'[n] = Append(toNode[n], i)  BY <1>1, <1>11, <2>2
  <2>4. /\ i.stream = s /\ i.nodeIds = overlayPerStream[s][n] /\ i.counter = counters[n][s] + 1
        /\ i \in Instruction
    <3>1. i = [stream |-> s, nodeIds |-> overlayPerStream[s][n], counter |-> counters[n][s] + 1]
      BY DEF InstructionFor, CounterFor, s
    <3>2. n \in DOMAIN overlayPerStream[s]  BY <2>1 DEF Members
    <3>3. overlayPerStream[s][n] \subseteq Node  BY <1>2, <3>2 DEF Sound, IsTopology
    <3>4. counters[n][s] + 1 \in Nat \ {0}  BY <1>2
    <3> QED BY <1>2, <3>1, <3>3, <3>4 DEF Instruction
  <2> HIDE DEF i
  <2>5. TermsOf(n)[s].counter = counters[n][s]  BY <1>2, TermsFields
  <2>6. i.nodeIds = TermsOf(n)'[s].neighbors
    BY <1>1, <1>2, <1>3, <2>1, <2>4, NextTermsFields
  <2>7. \A r \in Stream :
          /\ TermsOf(n)'[r].counter = IF r = s THEN i.counter ELSE TermsOf(n)[r].counter
          /\ TermsOf(n)'[r].member <=> TermsOf(n)[r].member
    BY <1>6, <1>11, <2>4, <2>5
  <2>8. NodeAgrees(node[n], TermsOf(n)', Append(toNode[n], i), toTracker[n], n \in up)
    BY <1>7, <1>8, <1>9, <2>4, <2>5, <2>6, <2>7, InstructionSentAgrees
  <2> QED BY <2>3, <2>8
<1> QED BY <1>10, <1>11

\* A status is taken.  Reports of members are either old or repeat what the tracker has, and those
\* of nodes that are not in the overlay name no neighbors.
LEMMA ReceiveStatusIsCalm ==
    ASSUME NetworkInv, TrackerInv', Calm, NEW n \in Node, ReceiveStatus(n)
    PROVE  Calm'
<1> DEFINE status == Head(toTracker[n])
           streams == status.streams
           filtered == Filtered(n, streams)
<1>1. /\ toTracker[n] # <<>>
      /\ toTracker' = [toTracker EXCEPT ![n] = Tail(@)]
      /\ UNCHANGED <<node, up, known, stale, toNode>>
      /\ IF status.single
         THEN \E s \in DOMAIN streams : StreamStatus(n, s, streams[s])
         ELSE FullStatus(n, streams)
  BY DEF ReceiveStatus, sockets
<1>2. IsNode(node[n], toNode[n], toTracker[n])  BY NodeIsTyped
<1>3. NodeAgrees(node[n], TermsOf(n), toNode[n], toTracker[n], n \in up)
  BY DEF Calm, NodesAgree
<1>4. status = toTracker[n][1] /\ 1 \in DOMAIN toTracker[n]
  BY <1>1, <1>2, OneLess DEF IsNode
<1>5. status \in StatusMessage /\ DOMAIN streams \subseteq Stream
  <2>1. status \in StatusMessage  BY <1>2, <1>4 DEF IsNode
  <2> QED BY <2>1 DEF StatusMessage
<1>6. /\ \A s \in DOMAIN streams : Agrees(TermsOf(n)[s], streams[s].counter, streams[s].neighbors)
      /\ status.single => \A r, s \in DOMAIN streams : r = s
      /\ ~ status.single => \A s \in Stream : ~ TermsOf(n)[s].member
  BY <1>3, <1>4 DEF NodeAgrees, ReportsAgree
<1> HIDE DEF status
<1>7. ASSUME NEW s \in DOMAIN streams
      PROVE  /\ streams[s].counter \in Nat /\ counters[n][s] \in Nat
             /\ streams[s].counter <= counters[n][s]
             /\ streams[s].counter = 0 => streams[s].neighbors = {}
             /\ n \notin Members(s) => counters[n][s] = 0
  <2>1. s \in Stream  BY <1>5
  <2>2. counters[n][s] \in Nat /\ (n \notin Members(s) => counters[n][s] = 0)
    BY <2>1 DEF NetworkInv, TrackerInv, SoundCalls, CountersOfMembers
  <2>3. TermsOf(n)[s].counter = counters[n][s]  BY <2>1, TermsFields
  <2>4. Agrees(TermsOf(n)[s], streams[s].counter, streams[s].neighbors)  BY <1>6
  <2> QED BY <2>2, <2>3, <2>4 DEF Agrees
<1>8. /\ Idle /\ UNCHANGED <<counters, forcing, form>>
      /\ overlayPerStream' = OverlaysAfter(n, streams, filtered)
      /\ leaving' = IF status.single THEN {} ELSE {n} \X (Streams \ DOMAIN streams)
  <2>1. CASE status.single
    <3>1. PICK s \in DOMAIN streams : StreamStatus(n, s, streams[s])  BY <1>1, <2>1
    <3>2. streams = [r \in {s} |-> streams[s]]
      <4>1. DOMAIN streams = {s}  BY <1>6, <2>1
      <4>2. streams = [r \in DOMAIN streams |-> streams[r]]  BY <1>5 DEF StatusMessage
      <4> QED BY <4>1, <4>2
    <3>3. streams[s].counter # -1  BY <1>7
    <3> HIDE DEF streams
    <3>4. LET all == [r \in {s} |-> streams[s]]
          IN  /\ Idle
              /\ overlayPerStream' = OverlaysAfter(n, all, Filtered(n, all))
              /\ leaving' = {}
              /\ UNCHANGED <<counters, forcing, form>>
      BY <3>1, <3>3 DEF StreamStatus
    <3> QED BY <2>1, <3>2, <3>4 DEF filtered
  <2>2. CASE ~ status.single
    BY <1>1, <2>2 DEF FullStatus
  <2> QED BY <2>1, <2>2
<1>9. /\ filtered \subseteq DOMAIN streams
      /\ \A s \in DOMAIN streams : s \in filtered <=> streams[s].counter = counters[n][s]
  <2>1. \A s \in DOMAIN streams : s \in filtered <=>
          streams[s].counter >= counters[n][s] \/ streams[s].counter = -1
    BY DEF Filtered
  <2> QED BY <1>7, <2>1 DEF Filtered
<1>10. /\ form = None /\ leaving = {}
       /\ \A s \in Streams : Members(s) # {}
  BY <1>8 DEF Idle, NetworkInv, TrackerInv, OneLeaver
<1>11. \A s \in Streams : Sound(overlayPerStream[s]) /\ WithinBounds(overlayPerStream[s])
  BY DEF NetworkInv, TrackerInv, SoundOverlays, Calm, TrackerIsCalm
<1>12. /\ Streams' = Streams \cup DOMAIN streams
       /\ \A s \in Streams' : overlayPerStream'[s] =
             IF s \in filtered THEN Updated(OverlayOf(s), n, streams[s].neighbors) ELSE OverlayOf(s)
  BY <1>8, <1>9 DEF OverlaysAfter, Streams
<1>13. \A s : Members(s) = DOMAIN OverlayOf(s)
  BY NothingIsSound DEF Members, OverlayOf
<1>14. \A s : Sound(OverlayOf(s)) /\ WithinBounds(OverlayOf(s))
  BY <1>11, NothingIsSound DEF OverlayOf, WithinBounds
<1> HIDE DEF streams, filtered
\* Who reports is heard, and nobody else's neighbors change.
<1>15. ASSUME NEW s \in filtered
       PROVE  LET t == OverlayOf(s)
                  u == Updated(t, n, streams[s].neighbors)
              IN  /\ DOMAIN u = DOMAIN t \cup {n}
                  /\ \A m \in DOMAIN t : u[m] = t[m]
                  /\ n \notin DOMAIN t => u[n] = {}
  <2> DEFINE t == OverlayOf(s)
             N == streams[s].neighbors
  <2>1. s \in DOMAIN streams /\ s \in Stream /\ streams[s].counter = counters[n][s]
    BY <1>5, <1>9 DEF streams
  <2>2. CASE n \in Members(s)
    <3>1. s \in Streams /\ t = overlayPerStream[s]  BY <2>2 DEF Members, OverlayOf
    <3>2. TermsOf(n)[s].settled /\ TermsOf(n)[s].counter = counters[n][s]
          /\ TermsOf(n)[s].neighbors = t[n]
      BY <1>10, <2>1, <2>2, <3>1, TermsFields
    <3>3. N = t[n]  BY <1>6, <2>1, <3>2 DEF Agrees, streams
    <3>4. IF n \in DOMAIN t THEN N = t[n] ELSE N = {}  BY <1>13, <2>2, <3>3
    <3>5. Sound(t)  BY <1>14
    <3> HIDE DEF t, N
    <3>6. /\ DOMAIN Updated(t, n, N) = DOMAIN t \cup {n}
          /\ \A m \in DOMAIN t : Updated(t, n, N)[m] = t[m]
          /\ n \notin DOMAIN t => Updated(t, n, N)[n] = {}
      BY <3>4, <3>5, UpdatedInAgreement
    <3> QED BY <3>6 DEF t, N
  <2>3. CASE n \notin Members(s)
    <3>1. N = {}  BY <1>7, <2>1, <2>3
    <3>2. IF n \in DOMAIN t THEN N = t[n] ELSE N = {}  BY <1>13, <2>3, <3>1
    <3>3. Sound(t)  BY <1>14
    <3> HIDE DEF t, N
    <3>4. /\ DOMAIN Updated(t, n, N) = DOMAIN t \cup {n}
          /\ \A m \in DOMAIN t : Updated(t, n, N)[m] = t[m]
          /\ n \notin DOMAIN t => Updated(t, n, N)[n] = {}
      BY <3>2, <3>3, UpdatedInAgreement
    <3> QED BY <3>4 DEF t, N
  <2> QED BY <2>2, <2>3
<1>16. ASSUME NEW s \in Stream
       PROVE  /\ \A m \in Node : m \in Members(s)' <=> m \in Members(s) \/ (m = n /\ s \in DOMAIN streams)
              /\ \A m \in Members(s) : overlayPerStream'[s][m] = overlayPerStream[s][m]
              /\ s \in DOMAIN streams /\ n \notin Members(s) => overlayPerStream'[s][n] = {}
  <2>1. CASE s \notin Streams'
    <3>1. s \notin Streams /\ s \notin DOMAIN streams  BY <1>12, <2>1
    <3> QED BY <2>1, <3>1 DEF Members
  <2>2. CASE s \in filtered
    <3>1. s \in DOMAIN streams /\ s \in Streams'  BY <1>9, <1>12, <2>2
    <3> DEFINE t == OverlayOf(s)
               u == Updated(t, n, streams[s].neighbors)
    <3>2. /\ overlayPerStream'[s] = u
          /\ DOMAIN u = DOMAIN t \cup {n}
          /\ \A m \in DOMAIN t : u[m] = t[m]
          /\ n \notin DOMAIN t => u[n] = {}
      BY <1>12, <1>15, <2>2, <3>1
    <3>3. Members(s)' = DOMAIN overlayPerStream'[s] /\ Members(s) = DOMAIN t
      BY <1>13, <3>1 DEF Members
    <3>4. \A m \in Members(s) : t[m] = overlayPerStream[s][m]
      BY DEF Members, OverlayOf
    <3> HIDE DEF t, u
    <3> QED BY <3>1, <3>2, <3>3, <3>4
  <2>3. CASE s \in Streams' /\ s \notin filtered
    <3>1. overlayPerStream'[s] = OverlayOf(s)  BY <1>12, <2>3
    <3>2. Members(s)' = Members(s)  BY <1>13, <2>3, <3>1 DEF Members
    <3>3. \A m \in Members(s) : OverlayOf(s)[m] = overlayPerStream[s][m]
      BY DEF Members, OverlayOf
    <3>4. s \in DOMAIN streams => n \in Members(s)
      <4>1. ASSUME s \in DOMAIN streams, n \notin Members(s) PROVE FALSE
        <5>1. streams[s].counter # counters[n][s]  BY <1>9, <2>3, <4>1
        <5> QED BY <1>7, <4>1, <5>1
      <4> QED BY <4>1
    <3> QED BY <3>1, <3>2, <3>3, <3>4
  <2> QED BY <1>9, <1>12, <2>1, <2>2, <2>3
<1>17. TrackerIsCalm'
  <2>1. \A s \in Streams' : WithinBounds(overlayPerStream'[s])
    <3> SUFFICES ASSUME NEW s \in Streams' PROVE WithinBounds(overlayPerStream'[s])
      OBVIOUS
    <3>1. CASE s \in filtered
      <4> DEFINE t == OverlayOf(s)
                 u == Updated(t, n, streams[s].neighbors)
      <4>1. /\ overlayPerStream'[s] = u
            /\ DOMAIN u = DOMAIN t \cup {n}
            /\ \A m \in DOMAIN t : u[m] = t[m]
            /\ n \notin DOMAIN t => u[n] = {}
        BY <1>12, <1>15, <3>1
      <4>2. WithinBounds(t)  BY <1>14
      <4> HIDE DEF t, u
      <4>3. n \notin DOMAIN t => Missing(u, n) >= 0
        BY <4>1, FS_EmptySet, MaxNeighborsAssumption DEF Missing
      <4>4. \A m \in DOMAIN t : Missing(u, m) >= 0
        BY <4>1, <4>2 DEF WithinBounds, Missing
      <4> QED BY <4>1, <4>3, <4>4 DEF WithinBounds
    <3>2. CASE s \notin filtered
      BY <1>12, <1>14, <3>2
    <3> QED BY <3>1, <3>2
  <2>2. ASSUME NEW m \in Node, NEW s \in Stream, <<m, s>> \in leaving'
        PROVE  m \notin Members(s)' /\ Members(s)' # {} /\ \A r \in Stream : counters'[m][r] = 0
    <3>1. ~ status.single /\ m = n /\ s \in Streams /\ s \notin DOMAIN streams
      BY <1>8, <2>2 DEF streams
    <3>2. \A r \in Stream : n \notin Members(r)  BY <1>6, <3>1, TermsFields
    <3>3. \A r \in Stream : counters[n][r] = 0
      BY <3>2 DEF NetworkInv, TrackerInv, CountersOfMembers
    <3>4. PICK o : o \in Members(s)  BY <1>10, <3>1
    <3>5. o \in Node
      BY <1>11, <3>1, <3>4 DEF Members, Sound, IsTopology
    <3> QED BY <1>8, <1>16, <3>1, <3>2, <3>3, <3>4, <3>5
  <2> QED BY <1>1, <1>8, <1>10, <2>1, <2>2 DEF Calm, TrackerIsCalm
<1>18. ASSUME NEW m \in Node, NEW r \in Stream
       PROVE  /\ IsTerms(TermsOf(m)[r]) /\ IsTerms(TermsOf(m)'[r])
              /\ TermsOf(m)'[r].counter = TermsOf(m)[r].counter
              /\ TermsOf(m)'[r].member <=> TermsOf(m)[r].member \/ (m = n /\ r \in DOMAIN streams)
              /\ Keeps(TermsOf(m)[r], TermsOf(m)'[r])
  <2>1. /\ TermsOf(m)[r].counter = counters[m][r] /\ TermsOf(m)'[r].counter = counters[m][r]
        /\ counters[m][r] \in Nat
        /\ m \notin Members(r) => counters[m][r] = 0
    BY <1>8, TermsFields, NextTermsFields DEF NetworkInv, TrackerInv, SoundCalls, CountersOfMembers
  <2>2. TermsOf(m)[r].settled \in BOOLEAN /\ TermsOf(m)'[r].settled \in BOOLEAN
    BY TermsFields, NextTermsFields
  <2>3. TermsOf(m)'[r].member <=> TermsOf(m)[r].member \/ (m = n /\ r \in DOMAIN streams)
    BY <1>16, TermsFields, NextTermsFields
  <2>4. CASE m \in Members(r)
    <3>1. m \in Members(r)'  BY <1>16, <2>4
    <3>2. TermsOf(m)[r].settled /\ TermsOf(m)'[r].neighbors = TermsOf(m)[r].neighbors
      BY <1>10, <1>16, <2>4, <3>1, TermsFields, NextTermsFields
    <3> QED BY <2>1, <2>2, <2>3, <3>2 DEF IsTerms, Keeps
  <2>5. CASE m \notin Members(r)
    <3>1. TermsOf(m)'[r].neighbors = {}
      BY <1>16, <2>5, NextTermsFields
    <3> QED BY <2>1, <2>2, <2>3, <2>5, <3>1 DEF IsTerms, Keeps
  <2> QED BY <2>4, <2>5
<1> SUFFICES ASSUME NEW m \in Node
             PROVE  NodeAgrees(node[m], TermsOf(m)', toNode[m], toTracker'[m], m \in up)
  BY <1>1, <1>17 DEF Calm, NodesAgree
<1>19. NewTerms(TermsOf(m), TermsOf(m)')  BY <1>18 DEF NewTerms
<1>20. CASE m = n
  <2>1. toTracker'[n] = Tail(toTracker[n])  BY <1>1 DEF NetworkInv, ChannelsOK
  <2>2. \A r \in Stream :
          /\ TermsOf(n)'[r].counter = TermsOf(n)[r].counter
          /\ TermsOf(n)'[r].member <=> TermsOf(n)[r].member \/ r \in DOMAIN Head(toTracker[n]).streams
    BY <1>18 DEF streams, status
  <2>3. NewTerms(TermsOf(n), TermsOf(n)')  BY <1>19, <1>20
  <2>4. (n \in up) \in BOOLEAN  OBVIOUS
  <2>5. NodeAgrees(node[n], TermsOf(n)', toNode[n], Tail(toTracker[n]), n \in up)
    BY <1>1, <1>2, <1>3, <2>2, <2>3, <2>4, StatusTakenAgrees
  <2> QED BY <1>20, <2>1, <2>5
<1>21. CASE m # n
  <2>1. toTracker'[m] = toTracker[m]  BY <1>1, <1>21 DEF NetworkInv, ChannelsOK
  <2>2. \A r \in Stream : /\ TermsOf(m)'[r].counter = TermsOf(m)[r].counter
                          /\ TermsOf(m)'[r].member <=> TermsOf(m)[r].member
    BY <1>18, <1>21
  <2>3. IsNode(node[m], toNode[m], toTracker[m])  BY NodeIsTyped
  <2>4. NodeAgrees(node[m], TermsOf(m), toNode[m], toTracker[m], m \in up)
    BY DEF Calm, NodesAgree
  <2>5. NodeAgrees(node[m], TermsOf(m)', toNode[m], toTracker[m], m \in up)
    BY <1>19, <2>2, <2>3, <2>4, TermsKept
  <2> QED BY <2>1, <2>5
<1> QED BY <1>20, <1>21
-----------------------------------------------------------------------------
(* Whatever happens but faults.                                            *)

\* A fault is remembered.
LEMMA UndisturbedBefore ==
    ASSUME NetworkInv, [NetworkNext]_networkVars, Undisturbed'
    PROVE  Undisturbed /\ UNCHANGED faults
<1>1. faults \in Nat /\ disturbed \in BOOLEAN
  BY MaxFaultsAssumption DEF NetworkInv, HistoryOK
<1>2. ASSUME NEW n \in Node, ReceiveInstruction(n) PROVE UNCHANGED faults /\ (disturbed => disturbed')
  <2>1. UNCHANGED faults  BY <1>2 DEF ReceiveInstruction
  <2>2. disturbed => disturbed'  BY <1>2 DEF ReceiveInstruction
  <2> QED BY <2>1, <2>2
<1>3. ASSUME NEW n \in Node, NEW s \in Stream, NEW failed \in SUBSET Node, HandlerEnds(n, s, failed)
      PROVE  (UNCHANGED faults \/ Fails) /\ UNCHANGED disturbed
  BY <1>3 DEF HandlerEnds
<1>4. ASSUME NEW n \in Node, NEW s \in Stream, RetryFires(n, s) \/ Subscribe(n, s) \/ Unsubscribe(n, s)
      PROVE  (UNCHANGED faults \/ Fails) /\ UNCHANGED disturbed
  BY <1>4 DEF RetryFires, Subscribe, Unsubscribe, history
<1>5. ASSUME NEW n \in Node, NEW m \in Node, ConnectionLost(m, n) PROVE Fails /\ UNCHANGED disturbed
  BY <1>5 DEF ConnectionLost
<1>6. ASSUME NEW n \in Node, Disconnect(n) PROVE Fails /\ disturbed'
  BY <1>6 DEF Disconnect
<1>7. ASSUME NEW n \in Node, Connect(n) \/ NoticeClose(n) \/ ReceiveStatus(n) PROVE UNCHANGED <<faults, disturbed>>
  BY <1>7 DEF Connect, NoticeClose, ReceiveStatus, history
<1>8. ASSUME Send \/ Calls PROVE UNCHANGED <<faults, disturbed>>
  BY <1>8 DEF Send, Calls
<1>9. ASSUME UNCHANGED networkVars PROVE UNCHANGED <<faults, disturbed>>
  BY <1>9 DEF networkVars, history
<1>10. (UNCHANGED faults \/ Fails) /\ (disturbed => disturbed')
  BY <1>2, <1>3, <1>4, <1>5, <1>6, <1>7, <1>8, <1>9 DEF NetworkNext
<1> QED BY <1>1, <1>10 DEF Undisturbed, Fails

LEMMA CalmStays ==
    ASSUME NetworkInv, NetworkInv', Calm, [NetworkNext]_networkVars, Undisturbed'
    PROVE  Calm'
<1>1. faults' = faults /\ faults \in Nat /\ ~ disturbed'
  BY UndisturbedBefore, MaxFaultsAssumption DEF Undisturbed, NetworkInv, HistoryOK
<1>2. ~ Fails  BY <1>1 DEF Fails
<1>3. TrackerInv'  BY DEF NetworkInv
<1>4. ASSUME NEW n \in Node, ReceiveInstruction(n) PROVE Calm'
  BY <1>1, <1>4, ReceiveInstructionIsCalm
<1>5. ASSUME NEW n \in Node, NEW s \in Stream, NEW failed \in SUBSET Node, HandlerEnds(n, s, failed)
      PROVE  Calm'
  <2>1. failed = {}  BY <1>2, <1>5 DEF HandlerEnds
  <2> QED BY <1>5, <2>1, HandlerEndsIsCalm
<1>6. ASSUME NEW n \in Node, NEW s \in Stream, RetryFires(n, s) PROVE Calm'
  BY <1>6, RetryFiresIsCalm
<1>7. ASSUME NEW n \in Node, NEW s \in Stream, Subscribe(n, s) PROVE Calm'
  BY <1>7, SubscribeIsCalm
<1>8. ASSUME NEW n \in Node, NEW s \in Stream, Unsubscribe(n, s) PROVE Calm'
  BY <1>2, <1>8 DEF Unsubscribe
<1>9. ASSUME NEW n \in Node, NEW m \in Node, ConnectionLost(m, n) PROVE Calm'
  BY <1>2, <1>9 DEF ConnectionLost
<1>10. ASSUME NEW n \in Node, Connect(n) PROVE Calm'
  BY <1>10, ConnectIsCalm
<1>11. ASSUME NEW n \in Node, Disconnect(n) PROVE Calm'
  BY <1>2, <1>11 DEF Disconnect
<1>12. ASSUME NEW n \in Node, NoticeClose(n) PROVE Calm'
  BY <1>12 DEF NoticeClose, Calm, TrackerIsCalm
<1>13. ASSUME NEW n \in Node, ReceiveStatus(n) PROVE Calm'
  BY <1>3, <1>13, ReceiveStatusIsCalm
<1>14. ASSUME Send PROVE Calm'
  BY <1>3, <1>14, SendIsCalm
<1>15. ASSUME Calls PROVE Calm'
  BY <1>3, <1>15, CallsAreCalm
<1>16. ASSUME UNCHANGED networkVars PROVE Calm'
  BY <1>16 DEF networkVars, trackerVars, calls, sockets, channels, Calm, TrackerIsCalm, NodesAgree,
               TermsOf, Terms, Members, Streams
<1> QED BY <1>4, <1>5, <1>6, <1>7, <1>8, <1>9, <1>10, <1>11, <1>12, <1>13, <1>14, <1>15, <1>16 DEF NetworkNext

LEMMA CalmAtFirst == NetworkInit => Calm
<1> SUFFICES ASSUME NetworkInit PROVE Calm
  OBVIOUS
<1>1. /\ Streams = {} /\ \A s : Members(s) = {}
      /\ form = None /\ leaving = {} /\ forcing = {} /\ stale = {} /\ up = {}
  BY DEF NetworkInit, TrackerInit, Streams, Members
<1>2. TrackerIsCalm  BY <1>1 DEF TrackerIsCalm
<1>3. ASSUME NEW n \in Node
      PROVE  NodeAgrees(node[n], TermsOf(n), toNode[n], toTracker[n], n \in up)
  <2>1. /\ toNode[n] = <<>> /\ toTracker[n] = <<>> /\ n \notin up
        /\ \A s \in Stream : node[n][s] = Blank /\ counters[n][s] = 0
    BY <1>1, <1>3 DEF NetworkInit, TrackerInit
  <2>2. \A s \in Stream : /\ TermsOf(n)[s].counter = 0
                          /\ ~ TermsOf(n)[s].member /\ ~ TermsOf(n)[s].settled
    BY <1>1, <2>1, TermsFields
  <2>3. /\ Blank.counter = 0 /\ Blank.seen = 0 /\ Blank.neighbors = {} /\ Blank.handlers = {}
        /\ Blank.retry = None /\ Blank.queue = None /\ ~ Blank.isSetUp
    BY DEF Blank
  <2>4. ASSUME NEW s \in Stream
        PROVE  /\ EntryAgrees(Blank, TermsOf(n)[s])
               /\ LastIsSomewhere(Blank, TermsOf(n)[s].counter, s, <<>>)
               /\ MembershipAgrees(Blank, TermsOf(n)[s], s, n \in up, <<>>)
    BY <2>1, <2>2, <2>3 DEF EntryAgrees, Agrees, LastIsSomewhere, MembershipAgrees
  <2>5. InstructionsAgree(node[n], TermsOf(n), <<>>) /\ ReportsAgree(node[n], TermsOf(n), <<>>)
    BY DEF InstructionsAgree, ReportsAgree
  <2> QED BY <2>1, <2>4, <2>5 DEF NodeAgrees
<1> QED BY <1>2, <1>3 DEF Calm, NodesAgree

\* Without faults nothing that is said contradicts the tracker.
LEMMA CalmInvHolds == NetworkSpec => []CalmInv
<1>1. NetworkInit => CalmInv  BY CalmAtFirst DEF CalmInv
<1>2. NetworkInv /\ NetworkInv' /\ CalmInv /\ [NetworkNext]_networkVars => CalmInv'
  BY UndisturbedBefore, CalmStays DEF CalmInv
<1> QED BY <1>1, <1>2, NetworkInvHolds, PTL DEF NetworkSpec

\* A network in which nothing has failed, nobody has unsubscribed and nothing is going on is one
\* in which every connected node has the neighbors the tracker wants it to have, for every stream
\* it is subscribed to, and is in no overlay of the others; and the tracker listens to what it says.
THEOREM AgreementAtRest == NetworkSpec => []AgreesAtRest
<1>1. NetworkInv /\ CalmInv => AgreesAtRest
  <2> SUFFICES ASSUME NetworkInv, Calm, Quiet, NEW n \in up, NEW s \in Stream
               PROVE  InSync(n, s)
    BY DEF CalmInv, Undisturbed, AgreesAtRest
  <2> DEFINE e == node[n][s]
             t == TermsOf(n)[s]
  <2>1. n \in Node /\ form = None  BY DEF NetworkInv, SocketsOK, Quiet, Idle
  <2>2. NodeAgrees(node[n], TermsOf(n), toNode[n], toTracker[n], n \in up)
    BY <2>1 DEF Calm, NodesAgree
  <2>3. toNode[n] = <<>> /\ toTracker[n] = <<>> /\ e.handlers = {}
    BY <2>1 DEF Quiet
  <2>4. /\ t.counter = counters[n][s] /\ counters[n][s] \in Nat
        /\ t.member <=> n \in Members(s)
        /\ n \in Members(s) => t.settled /\ t.neighbors = overlayPerStream[s][n]
    BY <2>1, TermsFields DEF NetworkInv, TrackerInv, SoundCalls
  <2> HIDE DEF e, t
  <2>5. /\ EntryAgrees(e, t) /\ LastIsSomewhere(e, t.counter, s, <<>>)
        /\ MembershipAgrees(e, t, s, n \in up, <<>>)
    BY <2>2, <2>3 DEF NodeAgrees, e, t
  <2>6. e.queue = None  BY <2>3, <2>5 DEF EntryAgrees, Busy
  <2>7. e.counter = t.counter
    BY <2>3, <2>5, <2>6 DEF LastIsSomewhere
  <2>8. Agrees(t, e.counter, e.neighbors)  BY <2>3, <2>5 DEF EntryAgrees
  <2>9. e.isSetUp => n \in Members(s)
    BY <2>4, <2>5 DEF MembershipAgrees
  <2>10. n \in Members(s) => e.isSetUp
    BY <2>4, <2>5 DEF MembershipAgrees
  <2>11. n \in Members(s) => e.neighbors = overlayPerStream[s][n]
    BY <2>4, <2>7, <2>8 DEF Agrees
  <2>12. e.counter >= counters[n][s]  BY <2>4, <2>7
  <2> QED BY <2>9, <2>10, <2>11, <2>12 DEF InSync, e
<1> QED BY <1>1, NetworkInvHolds, CalmInvHolds, PTL


=============================================================================
