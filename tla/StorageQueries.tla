------------------------------ MODULE StorageQueries -----------------------------
(***************************************************************************)
(* Reading what a storage node has stored of one stream part (requestLast, *)
(* requestFrom and requestRange of src/packages/broker/src/plugins/         *)
(* storage/Storage.ts behind DataQueryEndpoints.ts), while messages are    *)
(* stored and DeleteExpiredCmd removes what is too old. A query reads the  *)
(* table of buckets and then, in up to three queries of their own, the     *)
(* table of messages.                                                      *)
(*                                                                         *)
(* Messages are stored in the order of their time and those of one         *)
(* millisecond in one bucket, as the comment in getBucketsByTimestamp has  *)
(* it: Storage says when they are not. A bucket is named by its date.      *)
(***************************************************************************)
EXTENDS Naturals, FiniteSets, FiniteSetsExt

CONSTANTS LastTime, MaxSequenceNumber, Publishers, Records,
          StorageTime,  \* storageDays: how long messages are kept
          BucketLimit,
          MaxMessages,  \* bound: messages stored at a time
          Limits, AskedRefs,  \* bounds: what clients ask for
          None

Times == 0..LastTime
Ref == [ts : Times, seq : 0..MaxSequenceNumber]
Message == [ts : Times, seq : 0..MaxSequenceNumber, publisher : Publishers, bucket : Times]

VARIABLES
    clock,
    rows,     \* the table of buckets
    data,     \* the table of messages
    current,  \* the bucket in memory that takes the next message, or None
    query,    \* the query under way, or None (see Starts)
    kept,     \* history: messages that are there since the query has started
    deleter,  \* DeleteExpiredCmd: [potential, expired], or None
    raced     \* history: messages that came to a bucket already found expired

tables == <<clock, rows, data, current>>
queryVars == <<query, kept>>
deleterVars == <<deleter, raced>>
storageVars == <<tables, queryVars, deleterVars>>

Init ==
    /\ clock = 0 /\ rows = {} /\ data = {} /\ current = None
    /\ query = None /\ kept = {} /\ deleter = None /\ raced = {}

Earlier(m, n) == m.ts < n.ts \/ (m.ts = n.ts /\ m.seq < n.seq)
In(bucket) == {m \in data : m.bucket = bucket}

----------------------------------------------------------------------------
Tick == clock < LastTime /\ clock' = clock + 1 /\ UNCHANGED <<rows, data, current, queryVars, deleterVars>>

\* Storage.store: into the bucket in memory, or the latest one in the table, or
\* a new one. A bucket in memory writes its row again if that has gone.
HasRoom(bucket) == Cardinality(In(bucket)) < Records
Fitting == IF current # None THEN {current} ELSE {b \in rows : \A c \in rows : c <= b}
Store(seq, publisher) ==
    \E bucket \in {b \in Fitting : HasRoom(b)} \cup
                  (IF \E b \in Fitting : HasRoom(b) \/ \E m \in In(b) : m.ts = clock THEN {} ELSE {clock}) :
        LET m == [ts |-> clock, seq |-> seq, publisher |-> publisher, bucket |-> bucket]
        IN  /\ \A n \in data : n.ts = clock => n.seq < seq
            /\ Cardinality(data) < MaxMessages
            /\ data' = data \cup {m} /\ rows' = rows \cup {bucket} /\ current' = bucket
            /\ raced' = IF deleter # None /\ bucket \in deleter.expired THEN raced \cup {m} ELSE raced
            /\ UNCHANGED <<clock, queryVars, deleter>>
\* _removeBuckets, or a restart.
Forget == current # None /\ current' = None /\ UNCHANGED <<clock, rows, data, queryVars, deleterVars>>

----------------------------------------------------------------------------
\* The queries. What is not given is None; DataQueryEndpoints replaces a sequence
\* number that is not given, or is 0, by its default.
OrElse(x, default) == IF x = 0 THEN default ELSE x
Parts == [last |-> {1}, from |-> {1}, fromPublisher |-> {1, 2},
          range |-> {1}, rangePublisher |-> {1, 2, 3}]
Starts(kind, from, to, publisher, limit) ==
    /\ query = None
    /\ query' = [kind |-> kind, from |-> from, to |-> to, publisher |-> publisher, limit |-> limit,
                 phase |-> "buckets", read |-> {}, buckets |-> {}, total |-> 0,
                 parts |-> {}, result |-> {}, twice |-> FALSE, deleted |-> FALSE]
    /\ kept' = data
    /\ UNCHANGED <<tables, deleterVars>>
RequestLast(limit) == Starts("last", None, None, None, limit)
RequestFrom(from, publisher) ==
    Starts(IF publisher = None THEN "from" ELSE "fromPublisher", from, None, publisher, None)
RequestRange(from, to, publisher) ==
    Starts(IF publisher = None THEN "range" ELSE "rangePublisher", from,
           [to EXCEPT !.seq = OrElse(@, MaxSequenceNumber)], publisher, None)

Advance(q) == query' = q /\ UNCHANGED <<tables, kept, deleterVars>>

\* getBucketsByTimestamp: the latest bucket that begins before the range, and
\* those that begin in it, are read at once; without buckets the query ends.
FirstBucket == {b \in rows : b <= query.from.ts /\ \A c \in rows : c <= query.from.ts => c <= b}
RestOfBucketsBefore == {b \in rows : b > query.from.ts /\ (query.to # None => b < query.to.ts)}
RestOfBuckets == {b \in rows : b > query.from.ts /\ (query.to # None => b <= query.to.ts)}
ReadBuckets(which) ==
    LET found == query.buckets \cup (IF which = "first" THEN FirstBucket ELSE RestOfBuckets)
        both == query.read \cup {which} = {"first", "rest"}
    IN  /\ query # None /\ query.phase = "buckets" /\ query.kind # "last" /\ which \notin query.read
        /\ Advance([query EXCEPT !.read = @ \cup {which}, !.buckets = found,
                        !.phase = IF ~both THEN "buckets" ELSE IF found = {} THEN "end" ELSE "data"])

\* requestLast: one bucket after the other, the latest first, until their
\* messages are enough. A page that has turned out to be empty counts the last
\* bucket once more, and is the last one.
Older == {b \in rows : \A c \in query.buckets : b < c}
ReadPage ==
    /\ query # None /\ query.phase = "buckets" /\ query.kind = "last"
    /\ Advance(IF Older # {} THEN [query EXCEPT !.buckets = @ \cup {Max(Older)}, !.phase = "count"]
               ELSE [query EXCEPT !.phase = IF query.buckets = {} THEN "end" ELSE "data"])
CountMessages ==
    /\ query # None /\ query.phase = "count"
    /\ LET total == query.total + Cardinality(In(Min(query.buckets)))
       IN  Advance([query EXCEPT !.total = total, !.phase = IF total < query.limit THEN "buckets" ELSE "data"])

\* The messages of the buckets, by one to three queries whose results are
\* merged. The queries without a publisher leave sequence numbers out.
LaterIn(messages, m) == {n \in messages : Earlier(m, n)}
LatestOf(messages, limit) == {m \in messages : Cardinality(LaterIn(messages, m)) < limit}
Selects(part, m) ==
    LET from == query.from  to == query.to
    IN  \/ query.kind = "from" /\ m.ts >= from.ts
        \/ query.kind = "range" /\ m.ts >= from.ts /\ m.ts <= to.ts
        \/ /\ query.kind \in {"fromPublisher", "rangePublisher"}
           /\ \/ part = 1 /\ m.ts = from.ts /\ m.seq >= from.seq
              \/ part = 2 /\ m.ts > from.ts /\ (to # None => m.ts < to.ts)
              \/ part = 3 /\ m.ts = to.ts /\ m.seq <= to.seq
PartOf(part) ==
    LET there == {m \in data : m.bucket \in query.buckets}
    IN  IF query.kind = "last" THEN LatestOf(there, query.limit)
        ELSE {m \in there : (query.publisher # None => m.publisher = query.publisher) /\ Selects(part, m)}
ReadMessages(part) ==
    LET found == PartOf(part)
        read == query.parts \cup {part}
    IN  /\ query # None /\ query.phase = "data" /\ part \in Parts[query.kind] \ query.parts
        /\ Advance([query EXCEPT !.parts = read, !.result = @ \cup found, !.twice = @ \/ found \cap query.result # {},
                        !.phase = IF read = Parts[query.kind] THEN "end" ELSE "data"])
\* The client has got the answer, or the database or the client has given up.
Done == query # None /\ query' = None /\ kept' = {} /\ UNCHANGED <<tables, deleterVars>>

----------------------------------------------------------------------------
\* DeleteExpiredCmd.run: buckets that begin before the time to keep, in so far as
\* the limit allows; of these the ones whose last message is older (each is
\* queried, and left alone when that fails); and their deletion, one by one.
Expired(ts) == ts + StorageTime < clock
FindPotential ==
    /\ deleter = None
    /\ \E some \in SUBSET {b \in rows : b + StorageTime <= clock} :
          /\ some # {} /\ Cardinality(some) <= BucketLimit
          /\ deleter' = [potential |-> some, expired |-> {}]
    /\ UNCHANGED <<tables, queryVars, raced>>
FoundPotential(b) == Expired(b)
FoundExpired(b) == \A m \in In(b) : Expired(m.ts)
FilterExpired(b) ==
    /\ deleter # None /\ b \in deleter.potential
    /\ \E yes \in {FoundExpired(b), FALSE} :
          deleter' = [potential |-> deleter.potential \ {b},
                      expired |-> IF yes THEN deleter.expired \cup {b} ELSE deleter.expired]
    /\ UNCHANGED <<tables, queryVars, raced>>
DeleteExpired(b) ==
    /\ deleter # None /\ deleter.potential = {} /\ b \in deleter.expired
    /\ rows' = rows \ {b} /\ data' = data \ In(b)
    /\ deleter' = [deleter EXCEPT !.expired = @ \ {b}]
    /\ kept' = kept \cap data'
    /\ query' = IF query = None THEN None ELSE [query EXCEPT !.deleted = TRUE]
    /\ raced' = raced \cap data'
    /\ UNCHANGED <<clock, current>>
DeleterEnds ==  \* also when dryRun keeps it from deleting
    /\ deleter # None /\ deleter.potential = {}
    /\ deleter' = None /\ raced' = {}
    /\ UNCHANGED <<tables, queryVars>>

Reads ==
    \/ \E which \in {"first", "rest"} : ReadBuckets(which)
    \/ ReadPage \/ CountMessages \/ Done
    \/ \E part \in 1..3 : ReadMessages(part)
Next ==
    \/ Tick \/ Forget
    \/ \E seq \in 0..MaxSequenceNumber, p \in Publishers : Store(seq, p)
    \/ \E limit \in Limits : RequestLast(limit)
    \/ \E p \in Publishers \cup {None}, from \in AskedRefs :
          RequestFrom(from, p) \/ \E to \in AskedRefs : RequestRange(from, to, p)
    \/ Reads
    \/ FindPotential \/ DeleterEnds \/ \E b \in Times : FilterExpired(b) \/ DeleteExpired(b)
Spec == Init /\ [][Next]_storageVars

----------------------------------------------------------------------------
TypeOK ==
    /\ clock \in Times /\ rows \subseteq Times /\ data \cup kept \cup raced \subseteq Message
    /\ current \in Times \cup {None}

\* A query finds what was there when it began, and nothing twice, while messages
\* are stored and deleted. Two exceptions: a range of one millisecond is read as
\* if its two sequence numbers bounded nothing, and a deletion may take from the
\* last messages those that had been counted on.
\* (requestLast, requestFrom, requestRange, getBucketsByTimestamp)
Asked(m) ==
    /\ query.publisher # None => m.publisher = query.publisher
    /\ query.from # None => query.from.ts <= m.ts
    /\ query.kind \in {"fromPublisher", "rangePublisher"} => ~Earlier(m, query.from)
    /\ query.to # None => m.ts <= query.to.ts
    /\ query.kind = "rangePublisher" => ~Earlier(query.to, m)
LastAreFound ==
    query.deleted \/ \A m \in kept \ query.result :
        Cardinality(query.result) = query.limit /\ \A n \in query.result : Earlier(m, n)
QueriesAreExact ==
    query # None /\ query.phase = "end" =>
        IF query.kind = "last" THEN LastAreFound
        ELSE /\ {m \in kept : Asked(m)} \subseteq query.result
             /\ \/ query.kind = "rangePublisher" /\ query.from.ts >= query.to.ts
                \/ ~query.twice /\ \A m \in query.result : Asked(m)

\* Only what is too old is deleted, unless it came to a bucket that had been
\* found expired before. (_filterExpiredBuckets, _deleteExpired)
OnlyExpiredIsDeleted ==
    [][\A m \in data \ data' : Expired(m.ts) \/ m \in raced]_storageVars
==================================================================================
