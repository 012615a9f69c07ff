------------------------------ MODULE BucketManager ------------------------------
(***************************************************************************)
(* The buckets of one stream part (src/packages/broker/src/plugins/        *)
(* storage/BucketManager.ts and Bucket.ts): those in memory, the rows of   *)
(* the table "bucket" in Cassandra, and the two timer loops in between.    *)
(* The maximal number of records and the maximal size are one bound here,  *)
(* AlmostFull, the 70 percent at which the newest bucket takes no more.    *)
(*                                                                         *)
(* A bucket's id is a time based uuid made from its date, so the date is   *)
(* a part of the id. A heap of one stream part and the object "buckets"    *)
(* hold the same buckets and are one variable. Which of several buckets is *)
(* first in the array under a heap is left open, but for the newest one.   *)
(***************************************************************************)
EXTENDS Integers, FiniteSets

CONSTANTS Timestamps,   \* dates of messages, in milliseconds
          AlmostFull,   \* records at which a bucket is almost full
          MaxBuckets,   \* bound: buckets ever made
          EarlierRecords,  \* bound: records in the row of an earlier run
          MaxFaults,    \* bound: failed calls of the database and restarts
          None          \* undefined

ASSUME BucketAssumption ==
    /\ Timestamps \subseteq Nat
    \* Dates are bounded: among any of them one is the latest.
    /\ \A S \in (SUBSET Timestamps) \ {{}} : \E d \in S : \A e \in S : e <= d
    /\ AlmostFull \in Nat \ {0}
    /\ EarlierRecords \subseteq Nat
    /\ MaxBuckets \in Nat
    /\ MaxFaults \in Nat
    /\ None \notin Timestamps
    /\ None \notin [date : Timestamps, serial : 1..MaxBuckets]
    /\ None \notin [id : [date : Timestamps, serial : 1..MaxBuckets], records : Nat]

VARIABLES
    buckets,       \* in memory: id |-> [records, stored]
    minTimestamp,  \* of the messages that found no bucket, or None
    rows,          \* the table: date |-> [id, records], or None
    checker,       \* the round of _checkFullBuckets under way
    storer,        \* the round of _storeBuckets under way
    ids,           \* the ids ever made
    counted,       \* history: id |-> messages counted in that bucket
    faults       \* failed calls and restarts so far

bucketVars == <<buckets, minTimestamp, rows, checker, storer, ids, counted>>

BucketId == [date : Timestamps, serial : 1..MaxBuckets]
Row == [id : BucketId, records : Nat]
NewBucket(records) == [records |-> records, stored |-> FALSE]
CheckerIdle ==
    [pc |-> "timer", min |-> None, insert |-> FALSE, reply |-> None, loaded |-> None]
StorerIdle ==
    [pc |-> "timer", captured |-> <<>>, written |-> {}, failed |-> {}, afterRead |-> FALSE]

IsAlmostFull(mem, b) == mem[b].records >= AlmostFull
Latests(mem) == {b \in DOMAIN mem : \A c \in DOMAIN mem : c.date <= b.date}

\* Mutant: the newest bucket is the answer whatever its date.
NewestWithRoom(mem, newest, ts) == IF IsAlmostFull(mem, newest) THEN {None} ELSE {newest}
\* What _findBucketId may answer for a timestamp with the given buckets in
\* memory: the newest one if it is old enough and has room, nothing if it has
\* none, and else any other bucket that is old enough, full or not.
AnswerWith(mem, newest, ts) ==
    LET older == {b \in DOMAIN mem \ {newest} : b.date <= ts}
    IN  IF newest.date <= ts THEN IF IsAlmostFull(mem, newest) THEN {None} ELSE {newest}
        ELSE IF older = {} THEN {None} ELSE older
Lookup(mem, ts) ==
    IF mem = <<>> THEN {None} ELSE UNION {AnswerWith(mem, l, ts) : l \in Latests(mem)}

\* The table is empty or has a row that an earlier run has left.
BucketInit ==
    /\ buckets = <<>> /\ minTimestamp = None
    /\ \E earlier \in {None} \union {r \in [id : BucketId, records : EarlierRecords] : r.id.serial = 1} :
          LET has(b) == earlier # None /\ earlier.id = b
          IN  /\ rows = [d \in Timestamps |->
                            IF \E b \in BucketId : b.date = d /\ has(b) THEN earlier ELSE None]
              /\ ids = {b \in BucketId : has(b)}
              /\ counted = [b \in BucketId |-> IF has(b) THEN earlier.records ELSE 0]
    /\ checker = CheckerIdle /\ storer = StorerIdle
    /\ faults = 0

With(mem, b, bucket) == [c \in DOMAIN mem \union {b} |-> IF c = b THEN bucket ELSE mem[c]]

(***************************************************************************)
(* getBucketId followed by incrementBucket in one go, and getBucketId that *)
(* finds nothing and leaves the timestamp for the checker.                 *)
(***************************************************************************)
CountIn(b) ==
    /\ buckets' = [buckets EXCEPT ![b] = NewBucket(@.records + 1)]
    /\ counted' = [counted EXCEPT ![b] = @ + 1]
    /\ UNCHANGED <<minTimestamp, rows, checker, storer, ids>>
NoteMissing(ts) ==
    /\ minTimestamp' = IF minTimestamp = None \/ ts < minTimestamp THEN ts ELSE minTimestamp
    /\ UNCHANGED <<buckets, rows, checker, storer, ids, counted>>

(***************************************************************************)
(* _checkFullBuckets, one action from one await to the next. A round that  *)
(* has nothing to do changes nothing and is left out.                      *)
(***************************************************************************)
AskFor(m, insert, ask) == [CheckerIdle EXCEPT !.pc = ask, !.min = m, !.insert = insert]

EndRound == checker' = CheckerIdle
CheckFullBuckets ==
    /\ checker.pc = "timer" /\ minTimestamp # None
    /\ IF buckets = <<>> THEN checker' = AskFor(minTimestamp, FALSE, "askLatest")
       ELSE \E newest \in Latests(buckets) :
              \/ /\ IsAlmostFull(buckets, newest)
                 /\ checker' = AskFor(minTimestamp, TRUE, "askLatest")
              \/ /\ ~IsAlmostFull(buckets, newest)
                 /\ AnswerWith(buckets, newest, minTimestamp) = {None}
                 /\ checker' = AskFor(minTimestamp, FALSE, "askBefore")
    /\ UNCHANGED <<buckets, minTimestamp, rows, storer, ids, counted, faults>>

\* The database reads the table at some time between the call and its answer.
\* A timestamp of 0 counts as none (if (timestamp) of getLastBuckets).
RowBefore ==
    LET limited == checker.pc = "askBefore" /\ checker.min # 0
        known == {d \in Timestamps : rows[d] # None /\ (limited => d <= checker.min)}
    IN  IF known = {} THEN None ELSE rows[CHOOSE d \in known : \A e \in known : e <= d]
DatabaseReads ==
    /\ checker.pc \in {"askLatest", "askBefore"}
    /\ checker' = [checker EXCEPT !.reply = RowBefore,
                       !.pc = IF checker.pc = "askLatest" THEN "latestRead" ELSE "beforeRead"]
    /\ UNCHANGED <<buckets, minTimestamp, rows, storer, ids, counted, faults>>

Loaded == checker.reply # None /\ checker.reply.id \notin DOMAIN buckets
WithLoaded == With(buckets, checker.reply.id, NewBucket(checker.reply.records))
CreateIn(mem) ==
    LET b == [date |-> checker.min, serial |-> Cardinality(ids) + 1]
    IN  /\ Cardinality(ids) < MaxBuckets
        /\ buckets' = With(mem, b, NewBucket(0)) /\ ids' = ids \union {b}

\* The bound on the buckets made stands in the way of the next one.
AtBound == /\ Cardinality(ids) = MaxBuckets
           /\ \/ checker.pc = "latestRead" /\ (~Loaded \/ checker.insert)
              \/ checker.pc = "beforeRead" /\ ~Loaded

LatestBucketRead ==
    /\ checker.pc = "latestRead"
    /\ \/ /\ Loaded /\ ~checker.insert
          /\ buckets' = WithLoaded /\ minTimestamp' = None
          /\ \/ /\ None \in Lookup(WithLoaded, checker.min)
                /\ checker' = [AskFor(checker.min, FALSE, "askBefore")
                                   EXCEPT !.loaded = checker.reply.id]
             \/ Lookup(WithLoaded, checker.min) # {None} /\ EndRound
          /\ UNCHANGED ids
       \/ Loaded /\ checker.insert /\ CreateIn(WithLoaded) /\ minTimestamp' = None /\ EndRound
       \/ ~Loaded /\ CreateIn(buckets) /\ minTimestamp' = None /\ EndRound
    /\ UNCHANGED <<rows, storer, counted, faults>>

BucketBeforeRead ==
    /\ checker.pc = "beforeRead"
    /\ IF Loaded THEN buckets' = WithLoaded /\ UNCHANGED ids ELSE CreateIn(buckets)
    /\ minTimestamp' = None /\ EndRound
    /\ UNCHANGED <<rows, storer, counted, faults>>

\* Nothing catches an error of the query: the timer is never armed again.
CheckFails ==
    /\ checker.pc \in {"askLatest", "askBefore"} /\ faults < MaxFaults
    /\ checker' = [CheckerIdle EXCEPT !.pc = "dead"]
    /\ faults' = faults + 1
    /\ UNCHANGED <<buckets, minTimestamp, rows, storer, ids, counted>>

(***************************************************************************)
(* _storeBuckets: all buckets that are not stored are written at once, in  *)
(* any order; when all calls have ended, those that did not change in      *)
(* between are stored, and stored ones that are not alive are removed: any *)
(* that were not incremented for bucketKeepAliveSeconds, a minute, which   *)
(* outlasts the checker's round that has loaded a bucket.                  *)
(***************************************************************************)
Unstored == {b \in DOMAIN buckets : ~buckets[b].stored}
Removable(mem) == {b \in DOMAIN mem \ {checker.loaded} : mem[b].stored}
Without(mem, gone) == [b \in DOMAIN mem \ gone |-> mem[b]]

StoreBuckets ==
    /\ storer.pc = "timer" /\ Unstored # {}
    /\ storer' = [StorerIdle EXCEPT !.pc = "writing",
                      !.captured = [b \in Unstored |-> buckets[b].records]]
    /\ UNCHANGED <<buckets, minTimestamp, rows, checker, ids, counted, faults>>
NothingToStore(gone) ==
    /\ storer.pc = "timer" /\ Unstored = {}
    /\ gone \in SUBSET Removable(buckets) \ {{}}
    /\ buckets' = Without(buckets, gone)
    /\ UNCHANGED <<minTimestamp, rows, checker, storer, ids, counted, faults>>

\* The database answers in the order in which it carries out the calls: what was
\* written after the table was read for the checker is answered after that.
Reading == checker.pc \in {"latestRead", "beforeRead"}
Unsettled == DOMAIN storer.captured \ (storer.written \union storer.failed)
Written(b) == [rows EXCEPT ![b.date] = [id |-> b, records |-> storer.captured[b]]]
WriteRow(b) ==
    /\ storer.pc = "writing" /\ b \in Unsettled
    /\ rows' = Written(b)
    /\ storer' = [storer EXCEPT !.written = @ \union {b}, !.afterRead = @ \/ Reading]
    /\ UNCHANGED <<buckets, minTimestamp, checker, ids, counted, faults>>
WriteFails(b) ==
    /\ storer.pc = "writing" /\ b \in Unsettled /\ faults < MaxFaults
    /\ rows' \in {rows, Written(b)}    \* a call that times out may have been carried out
    /\ storer' = [storer EXCEPT !.failed = @ \union {b}, !.afterRead = @ \/ Reading]
    /\ faults' = faults + 1
    /\ UNCHANGED <<buckets, minTimestamp, checker, ids, counted>>

\* Mutant: what was counted during the write is taken to be written.
SettledWhateverChanged ==
    [b \in DOMAIN buckets |->
        IF b \in storer.written THEN [buckets[b] EXCEPT !.stored = TRUE] ELSE buckets[b]]
SettledBuckets ==
    [b \in DOMAIN buckets |->
        IF b \in storer.written /\ buckets[b].records = storer.captured[b]
        THEN [buckets[b] EXCEPT !.stored = TRUE] ELSE buckets[b]]
StoreSettled(gone) ==
    /\ storer.pc = "writing" /\ Unsettled = {} /\ (storer.afterRead => ~Reading)
    /\ gone \subseteq Removable(SettledBuckets)
    /\ buckets' = Without(SettledBuckets, gone)
    /\ storer' = StorerIdle
    /\ UNCHANGED <<minTimestamp, rows, checker, ids, counted, faults>>

\* The broker stops and starts again: what is not in the table is forgotten.
BucketsRestart ==
    /\ buckets' = <<>> /\ minTimestamp' = None
    /\ checker' = CheckerIdle /\ storer' = StorerIdle
    /\ counted' = [b \in BucketId |->
                       IF rows[b.date] # None /\ rows[b.date].id = b THEN rows[b.date].records ELSE 0]
    /\ UNCHANGED <<rows, ids>>

BucketStep ==
    \/ CheckFullBuckets \/ DatabaseReads \/ LatestBucketRead \/ BucketBeforeRead \/ CheckFails
    \/ StoreBuckets
    \/ \E b \in BucketId : WriteRow(b) \/ WriteFails(b)
    \/ \E gone \in SUBSET DOMAIN buckets : StoreSettled(gone) \/ NothingToStore(gone)

BucketTypeOK ==
    /\ DOMAIN buckets \subseteq BucketId
    /\ \A b \in DOMAIN buckets : buckets[b] \in [records : Nat, stored : BOOLEAN]
    /\ minTimestamp \in Timestamps \union {None}
    /\ rows \in [Timestamps -> Row \union {None}]
    /\ checker \in [pc : {"timer", "askLatest", "latestRead", "askBefore", "beforeRead", "dead"},
                    min : Timestamps \union {None}, insert : BOOLEAN, reply : Row \union {None},
                    loaded : BucketId \union {None}]
    /\ storer.pc \in {"timer", "writing"}
    /\ DOMAIN storer.captured \subseteq BucketId
    /\ storer.written \subseteq DOMAIN storer.captured
    /\ storer.failed \subseteq DOMAIN storer.captured /\ storer.afterRead \in BOOLEAN
    /\ ids \subseteq BucketId
    /\ counted \in [BucketId -> Nat] /\ faults \in Nat

\* Two buckets with one date share one row of the table (its key is the date).
Shared(b) == \E c \in ids \ {b} : c.date = b.date

\* While messages are counted, rows are written and read and buckets leave
\* memory and come back, no bucket forgets a message: its count is right in
\* memory, and in the table from when it leaves memory (_storeBuckets marks as
\* stored only what did not change during the write, removes only what is
\* stored, and _checkFullBuckets loads only what is not in memory).
NoCountIsLost ==
    \A b \in ids : ~Shared(b) =>
        IF b \in DOMAIN buckets THEN buckets[b].records = counted[b]
        ELSE \/ counted[b] = 0
             \/ rows[b.date] = [id |-> b, records |-> counted[b]]
==================================================================================
