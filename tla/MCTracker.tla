------------------------------ MODULE MCTracker -----------------------------
(* Four nodes, the fewest of which one can be linked by splitting a link;   *)
(* one of them is in a second stream as well.                              *)
EXTENDS TrackerAlone, TLC
CONSTANTS a, b, c, d, s1, s2
MCInterested == (Node \X {s1}) \cup {<<a, s2>>}
Symmetry == Permutations({b, c, d})
=============================================================================
