--------------------------- MODULE OrderedDelivery --------------------------
(***************************************************************************)
(* What ordering promises to a subscriber, whatever the network does: for  *)
(* each publisher a log in which every message follows the message it was  *)
(* chained to, and every hole is an explicit entry that the missing        *)
(* messages were given up.                                                 *)
(***************************************************************************)
EXTENDS Integers, Sequences

CONSTANTS Publishers, Sent

VARIABLE log    \* for each publisher, a sequence of entries [kind, ref]

PrevOf(p, ref) == (CHOOSE m \in Sent[p] : m.ref = ref).prev

\* Entry e may follow position `at` in the chain of publisher p.
Follows(p, at, e) ==
    /\ e.ref > at
    /\ e.kind \in {"deliver", "skip"} =>
         at = 0 \/ PrevOf(p, e.ref) \in {0, at}

Legal(p, entries) ==
    \A i \in 1 .. Len(entries) :
        Follows(p, IF i = 1 THEN 0 ELSE entries[i - 1].ref, entries[i])

Init == log = [p \in Publishers |-> <<>>]

\* A publisher's log may grow by some entries; what it held before stays.
Grow(p) ==
    /\ Len(log'[p]) >= Len(log[p])
    /\ SubSeq(log'[p], 1, Len(log[p])) = log[p]
    /\ Legal(p, log'[p])

Next == \A p \in Publishers : Grow(p)

Spec == Init /\ [][Next]_log
=============================================================================
