------------------------------- MODULE BatchManager ------------------------------
(***************************************************************************)
(* The batches in which messages are written to the table "stream_data"    *)
(* (src/packages/broker/src/plugins/storage/BatchManager.ts and Batch.ts). *)
(* There is at most one open batch per bucket, made with its first         *)
(* message; a locked batch is inserted by a timer, again and again until   *)
(* it succeeds or is dropped. Only the number of records of a batch is     *)
(* bounded here; its bound on bytes works the same way.                    *)
(***************************************************************************)
EXTENDS Integers, FiniteSets

CONSTANTS Messages,
          BucketIds,
          BatchMaxRecords,  \* batchMaxRecords
          BatchMaxRetries   \* batchMaxRetries

VARIABLES
    open,     \* batches: bucket |-> messages of its open batch, {} if there is none
    pending,  \* pendingBatches: [bucket, messages, retries, state]
    data      \* the table stream_data: pairs of bucket and message

batchVars == <<open, pending, data>>

Batch == [bucket : BucketIds, messages : (SUBSET Messages) \ {{}},
          retries : 0..BatchMaxRetries, state : {"locked", "pending"}]

BatchInit == open = [b \in BucketIds |-> {}] /\ pending = {} /\ data = {}

\* There is a batch and it is full.
IsFull(b) == open[b] # {} /\ Cardinality(open[b]) >= BatchMaxRecords
\* lock and _moveFullBatch: the first insertion is scheduled without a delay
\* (closeTimeout * 0 retries) and counts as the first retry.
Locked(b) == [bucket |-> b, messages |-> open[b], retries |-> 1, state |-> "pending"]

\* Mutant: the next batch takes the place of the full one.
PushInPlaceOfFull(b, m) ==
    /\ open' = [open EXCEPT ![b] = IF IsFull(b) THEN {m} ELSE @ \union {m}]
    /\ UNCHANGED <<pending, data>>

\* BatchManager.store: a full batch is locked before the next message.
PushToBatch(b, m) ==
    /\ IF IsFull(b)
       THEN pending' = pending \union {Locked(b)} /\ open' = [open EXCEPT ![b] = {m}]
       ELSE open' = [open EXCEPT ![b] = @ \union {m}] /\ UNCHANGED pending
    /\ UNCHANGED data

\* The close timeout of an open batch.
LockTimeout(b) ==
    /\ open[b] # {}
    /\ pending' = pending \union {Locked(b)}
    /\ open' = [open EXCEPT ![b] = {}]
    /\ UNCHANGED data

\* The timer of a batch that failed: it is pending again and _insert sends it.
SendBatch(batch) ==
    /\ batch \in pending /\ batch.state = "locked"
    /\ pending' = (pending \ {batch}) \union
           {[batch EXCEPT !.state = "pending",
                          !.retries = IF @ < BatchMaxRetries THEN @ + 1 ELSE @]}
    /\ UNCHANGED <<open, data>>

Stored(batch) == {<<batch.bucket, m>> : m \in batch.messages}
Inserted(batch) ==
    /\ batch \in pending /\ batch.state = "pending"
    /\ data' = data \union Stored(batch)
    /\ pending' = pending \ {batch}
    /\ UNCHANGED open

\* A call that times out may have been carried out.
ReachedMaxRetries(batch) == batch.retries = BatchMaxRetries
\* Mutant: no timer is set for the next try.
InsertNotTriedAgain(batch) ==
    /\ batch \in pending /\ batch.state = "pending"
    /\ data' = data
    /\ pending' = pending \ {batch}
    /\ UNCHANGED open
\* Mutant: a batch that is given up is cleared but stays among pendingBatches.
InsertGivenUp(batch) ==
    /\ batch \in pending /\ batch.state = "pending"
    /\ data' = data
    /\ pending' = (pending \ {batch}) \union
           {IF ReachedMaxRetries(batch) THEN [batch EXCEPT !.messages = {}]
            ELSE [batch EXCEPT !.state = "locked"]}
    /\ UNCHANGED open
InsertFailed(batch) ==
    /\ batch \in pending /\ batch.state = "pending"
    /\ data' \in {data, data \union Stored(batch)}
    /\ pending' = (pending \ {batch}) \union
           IF ReachedMaxRetries(batch) THEN {} ELSE {[batch EXCEPT !.state = "locked"]}
    /\ UNCHANGED open

BatchesRestart == open' = [b \in BucketIds |-> {}] /\ pending' = {} /\ UNCHANGED data

BatchTypeOK ==
    /\ open \in [BucketIds -> SUBSET Messages]
    /\ pending \subseteq Batch
    /\ data \subseteq BucketIds \X Messages
==================================================================================
