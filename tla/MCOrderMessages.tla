--------------------------- MODULE MCOrderMessages -------------------------
(* One publisher of five messages, the second not chained, the fourth lost *)
(* for good (each of the others may be), so that a gap that can be filled  *)
(* and one that cannot are open in the same queue; and a publisher whose   *)
(* second message is chained to one that is lost.                          *)
EXTENDS OrderMessages

CONSTANTS p1, p2
Message(ref, prev) == [ref |-> ref, prev |-> prev]
MCPublishers == {p1, p2}
MCSent == [p \in MCPublishers |->
             IF p = p1 THEN {Message(1, 0), Message(2, 0), Message(3, 2), Message(5, 4)}
             ELSE {Message(1, 0), Message(3, 2)}]
MCMarkable == [p \in MCPublishers |-> IF p = p1 THEN {Message(3, 2)} ELSE {}]
============================================================================
