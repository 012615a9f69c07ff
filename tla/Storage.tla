---------------------------------- MODULE Storage --------------------------------
(***************************************************************************)
(* Storing the messages of one stream part (src/packages/broker/src/       *)
(* plugins/storage/Storage.ts): a message is given to the bucket its       *)
(* timestamp belongs to and then to that bucket's batch; a message without *)
(* a bucket waits and tries again, while the bucket manager looks for one  *)
(* in the database or makes one.                                           *)
(***************************************************************************)
EXTENDS BucketManager

CONSTANTS Messages, TimestampOf, BatchMaxRecords, BatchMaxRetries

ASSUME StorageAssumption ==
    /\ TimestampOf \in [Messages -> Timestamps]
    /\ BatchMaxRecords \in Nat \ {0} /\ BatchMaxRetries \in Nat \ {0}

VARIABLES
    open, pending, data,
    status  \* of the promise of store() and of where the message is

Batches == INSTANCE BatchManager WITH BucketIds <- BucketId

vars == <<bucketVars, faults, open, pending, data, status>>

Init ==
    /\ BucketInit /\ Batches!BatchInit
    /\ status = [m \in Messages |-> "new"]

(***************************************************************************)
(* Storage.store, called for a message of the network or by the timer of a *)
(* message that waits (pendingStores). The setImmediate between the bucket *)
(* and the batch lets nothing happen that matters to either.               *)
(***************************************************************************)
StoreFound(m) ==
    /\ \E b \in Lookup(buckets, TimestampOf[m]) \ {None} :
          CountIn(b) /\ Batches!PushToBatch(b, m)
    /\ status' = [status EXCEPT ![m] = "batched"]
StoreMissing(m) ==
    /\ None \in Lookup(buckets, TimestampOf[m])
    /\ NoteMissing(TimestampOf[m])
    /\ status' = [status EXCEPT ![m] = "waiting"]
    /\ UNCHANGED <<open, pending, data>>
StoreMessage(m) ==
    /\ status[m] \in {"new", "waiting"}
    /\ StoreFound(m) \/ StoreMissing(m)
    /\ UNCHANGED faults

LockBatch(b) == Batches!LockTimeout(b) /\ UNCHANGED <<bucketVars, faults, status>>
SendBatch(batch) == Batches!SendBatch(batch) /\ UNCHANGED <<bucketVars, faults, status>>

\* batch.done(): the promises of the batch's messages are resolved.
Settle(batch, as) ==
    [m \in Messages |-> IF m \in batch.messages THEN as ELSE status[m]]
BatchInserted(batch) ==
    /\ Batches!Inserted(batch)
    /\ status' = Settle(batch, "resolved")
    /\ UNCHANGED <<bucketVars, faults>>
\* A batch that is dropped leaves the promises of its messages unsettled.
BatchFailed(batch) ==
    /\ Batches!InsertFailed(batch)
    /\ status' = IF Batches!ReachedMaxRetries(batch) THEN Settle(batch, "dropped") ELSE status
    /\ UNCHANGED <<bucketVars, faults>>

Restart ==
    /\ faults < MaxFaults
    /\ BucketsRestart /\ Batches!BatchesRestart
    /\ status' = [m \in Messages |->
                     IF status[m] \in {"waiting", "batched"} THEN "lost" ELSE status[m]]
    /\ faults' = faults + 1

Apart == UNCHANGED <<open, pending, data, status>>
Bucketing == BucketStep /\ Apart
Next ==
    \/ Bucketing
    \/ \E m \in Messages : StoreMessage(m)
    \/ \E b \in BucketId : LockBatch(b)
    \/ \E batch \in pending : SendBatch(batch) \/ BatchInserted(batch) \/ BatchFailed(batch)
    \/ Restart

\* The two loops of the bucket manager and the batches go on: timers fire and
\* the database answers. A message that waits tries every half second: it cannot
\* miss for ever a bucket that is there again and again for a minute.
Checking == CheckFullBuckets \/ DatabaseReads \/ LatestBucketRead \/ BucketBeforeRead
Storing ==
    \/ StoreBuckets
    \/ \E b \in BucketId : WriteRow(b)
    \/ \E gone \in SUBSET DOMAIN buckets : StoreSettled(gone)
Batching ==
    \/ \E b \in BucketId : LockBatch(b)
    \/ \E batch \in pending : SendBatch(batch) \/ BatchInserted(batch)
Retry(m) == status[m] = "waiting" /\ StoreMessage(m)
Fairness ==
    /\ WF_vars(Checking /\ Apart) /\ WF_vars(Storing /\ Apart) /\ WF_vars(Batching)
    /\ \A m \in Messages : WF_vars(StoreMissing(m) /\ Retry(m)) /\ SF_vars(StoreFound(m) /\ Retry(m))

Spec == Init /\ [][Next]_vars
FairSpec == Spec /\ Fairness

TypeOK ==
    /\ BucketTypeOK /\ Batches!BatchTypeOK
    /\ status \in [Messages -> {"new", "waiting", "batched", "resolved", "dropped", "lost"}]

\* A message is never in a bucket that begins after it: the queries for a range
\* of time leave out the buckets made after its end (getBucketsByTimestamp).
WithinItsBucket ==
    /\ \A b \in BucketId : \A m \in open[b] : b.date <= TimestampOf[m]
    /\ \A batch \in pending : \A m \in batch.messages : batch.bucket.date <= TimestampOf[m]
    /\ \A p \in data : p[1].date <= TimestampOf[p[2]]

\* Buckets neither forget their messages nor get ones they are not searched for.
BucketsAreKept == NoCountIsLost /\ WithinItsBucket

\* A message whose promise is open is in exactly one batch (or waits for a
\* bucket), no other message is in any, and one whose promise is resolved has
\* been written, through full and failing batches and insertions tried again.
OpenBatchesOf(m) == {b \in BucketId : m \in open[b]}
PendingBatchesOf(m) == {batch \in pending : m \in batch.messages}
PromisesAreKept ==
    \A m \in Messages :
        /\ Cardinality(OpenBatchesOf(m)) + Cardinality(PendingBatchesOf(m)) =
               IF status[m] = "batched" THEN 1 ELSE 0
        /\ status[m] = "resolved" => \E b \in BucketId : <<b, m>> \in data

\* Both: what has been taken in is counted, findable and answered for.
RecordsAreKept == BucketsAreKept /\ PromisesAreKept

\* Every message that store() has taken is written in the end, or its batch
\* dropped, whatever buckets were full, expired, written or read meanwhile: the
\* timers of messages without a bucket, of buckets and of batches bring it there.
\* Two things end that: the broker's restart, and an error of the checker's query.
EveryMessageSettles ==
    \A m \in Messages :
        status[m] \in {"waiting", "batched"} ~>
            status[m] \in {"resolved", "dropped", "lost"} \/ checker.pc = "dead" \/ AtBound

\* The messages of one millisecond are in one bucket.
OneMillisecondOneBucket ==
    \A p, q \in data : TimestampOf[p[2]] = TimestampOf[q[2]] => p[1] = q[1]
==================================================================================
