-------------------------------- MODULE MCStorage --------------------------------
(* A storage node writing and, in a behaviour of its own, reading: the two  *)
(* meet in the tables only, which StorageQueries writes as Storage does.    *)
EXTENDS Storage

CONSTANTS LastTime, MaxSequenceNumber, Publishers, Records, StorageTime, BucketLimit, MaxMessages,
          Limits, AskedRefs

VARIABLES part, clock, table, stored, current, query, kept, deleter, raced
Queries == INSTANCE StorageQueries WITH rows <- table, data <- stored
ASSUME QueriesAssumption ==
    /\ LastTime \in Nat /\ MaxSequenceNumber \in Nat /\ StorageTime \in Nat
    /\ Limits \subseteq Nat /\ AskedRefs \subseteq Queries!Ref
    /\ None \notin Queries!Times \union Queries!Ref
queriesVars == <<clock, table, stored, current, query, kept, deleter, raced>>

\* The first message is a millisecond older than the others.
MCTimestampOf == [m \in Messages |-> IF m = "m1" THEN 1 ELSE 2]
MCAskedRefs == {[ts |-> 0, seq |-> 1], [ts |-> 1, seq |-> 0], [ts |-> 1, seq |-> 1]}

MCInit ==
    /\ Init /\ Queries!Init
    /\ part = "writing" \/ (part = "reading" /\ ids = {})
MCNext ==
    /\ UNCHANGED part
    /\ \/ part = "writing" /\ Next /\ UNCHANGED queriesVars
       \/ part = "reading" /\ Queries!Next /\ UNCHANGED vars
MCSpec == MCInit /\ [][MCNext]_<<part, vars, queriesVars>> /\ Fairness

\* A query finds what was there when it began, and nothing twice. (StorageQueries)
QueriesAreExact == Queries!TypeOK /\ Queries!QueriesAreExact
\* Nothing is deleted before its time. (StorageQueries)
OnlyExpiredIsDeleted == Queries!OnlyExpiredIsDeleted
==================================================================================
