---------------------------- MODULE MCPropagation ---------------------------
(* One stream, three messages, two of which fit into the buffer.            *)
EXTENDS Propagation, TLC
CONSTANTS s1, m1, m2, m3, p1, p2, t1, t2, t3
MCStreamOf == [m \in Message |-> s1]
Symmetry == Permutations(Message) \cup Permutations(Peer) \cup Permutations(Timer)
=============================================================================
