------------------------------ MODULE StorageProofs ------------------------------
(***************************************************************************)
(* A message whose promise is open is in exactly one batch, a resolved one *)
(* is in the table, none is in a bucket that begins after it, and what a   *)
(* bucket has counted is in memory or in the table: for any messages,      *)
(* dates, bounds and failures.                                             *)
(* And of StorageQueries: what a query has read, part by part, is what was *)
(* there when it began, and what is deleted had expired: for any times,    *)
(* sequence numbers, limits and requests. The least obvious fact is Ranks: *)
(* of finitely many messages, as many as were asked for have fewer than    *)
(* that many after them.                                                   *)
(***************************************************************************)
EXTENDS MCStorage, TLAPS, FiniteSetTheorems, FunctionTheorems

\* What the loops of the bucket manager have captured is well formed, and a
\* round that asks for a bucket knows the date it is for.
StorerTyped ==
    /\ storer \in [pc : {"timer", "writing"}, captured : {storer.captured},
                   written : SUBSET DOMAIN storer.captured, failed : SUBSET DOMAIN storer.captured,
                   afterRead : BOOLEAN]
    /\ DOMAIN storer.captured \subseteq BucketId
    /\ \A b \in DOMAIN storer.captured : storer.captured[b] \in Nat
RoundsAsk == checker.pc \in {"askLatest", "latestRead", "askBefore", "beforeRead"} => checker.min # None
BucketInv == BucketTypeOK /\ StorerTyped /\ RoundsAsk /\ IsFiniteSet(ids)

\* No message is in two places, and what is batched is somewhere.
InOneBatch ==
    \A m \in Messages :
        /\ status[m] = "batched" <=>
              (\E b \in BucketId : m \in open[b]) \/ (\E x \in pending : m \in x.messages)
        /\ \A b, c \in BucketId : m \in open[b] /\ m \in open[c] => b = c
        /\ \A x, y \in pending : m \in x.messages /\ m \in y.messages => x = y
        /\ \A b \in BucketId, x \in pending : ~(m \in open[b] /\ m \in x.messages)
ResolvedIsWritten ==
    \A m \in Messages : status[m] = "resolved" => \E b \in BucketId : <<b, m>> \in data
Statuses == {"new", "waiting", "batched", "resolved", "dropped", "lost"}
BatchInv ==
    /\ open \in [BucketId -> SUBSET Messages] /\ pending \subseteq Batches!Batch
    /\ data \subseteq BucketId \X Messages /\ status \in [Messages -> Statuses]
    /\ InOneBatch /\ ResolvedIsWritten /\ WithinItsBucket
\* What lies behind NoCountIsLost. Ids are never made twice, and nothing is known
\* of a bucket that was never made.
NamesAreKnown ==
    /\ DOMAIN buckets \subseteq ids
    /\ \A d \in Timestamps : rows[d] # None => rows[d].id \in ids /\ rows[d].id.date = d
    /\ \A b \in ids : b.serial <= Cardinality(ids)
    /\ \A b \in BucketId \ ids : counted[b] = 0
\* A bucket whose row is being written stays in memory, and is not stored.
BeingWritten ==
    /\ storer.pc = "timer" => DOMAIN storer.captured = {}
    /\ \A b \in DOMAIN storer.captured : b \in DOMAIN buckets /\ ~buckets[b].stored
    /\ \A b \in storer.written : ~Shared(b) => rows[b.date] = [id |-> b, records |-> storer.captured[b]]
\* In memory the count is right, and in the table too once the bucket is stored
\* or has left memory.
CountIsKnown(b) ==
    /\ b \in DOMAIN buckets =>
          /\ buckets[b].records = counted[b]
          /\ buckets[b].stored => rows[b.date] = [id |-> b, records |-> counted[b]]
    /\ b \notin DOMAIN buckets =>
          IF rows[b.date] = None THEN counted[b] = 0 ELSE rows[b.date].records = counted[b]
\* What the checker has read is still in the table, or is being written over and
\* then is in memory.
ReplyIsTheRow ==
    Reading /\ checker.reply # None /\ ~Shared(checker.reply.id) =>
        \/ rows[checker.reply.id.date] = checker.reply
        \/ storer.afterRead /\ checker.reply.id \in DOMAIN storer.captured
CountInv ==
    /\ NamesAreKnown /\ BeingWritten /\ ReplyIsTheRow
    /\ Reading /\ checker.reply # None => checker.reply.id \in ids
    /\ \A b \in ids : ~Shared(b) => CountIsKnown(b)
IInv == BucketInv /\ CountInv /\ BatchInv

-----------------------------------------------------------------------------
(* The bucket manager.                                                     *)

LEMMA CreateKeeps ==
    ASSUME BucketInv, checker.min # None, NEW mem, CreateIn(mem),
           DOMAIN mem \subseteq BucketId,
           \A b \in DOMAIN mem : mem[b] \in [records : Nat, stored : BOOLEAN]
    PROVE  /\ DOMAIN buckets' \subseteq BucketId
           /\ \A b \in DOMAIN buckets' : buckets'[b] \in [records : Nat, stored : BOOLEAN]
           /\ ids' \subseteq BucketId /\ IsFiniteSet(ids')
<1> DEFINE b == [date |-> checker.min, serial |-> Cardinality(ids) + 1]
<1>1. Cardinality(ids) \in Nat /\ Cardinality(ids) < MaxBuckets /\ MaxBuckets \in Nat
  BY FS_CardinalityType, BucketAssumption DEF BucketInv, CreateIn
<1>2. checker.min \in Timestamps
  BY DEF BucketInv, BucketTypeOK
<1>3. b \in BucketId
  BY <1>1, <1>2 DEF BucketId
<1>4. buckets' = With(mem, b, NewBucket(0)) /\ ids' = ids \union {b}
  BY DEF CreateIn
<1> HIDE DEF b
<1>5. NewBucket(0) \in [records : Nat, stored : BOOLEAN]
  BY DEF NewBucket
<1>6. IsFiniteSet(ids')
  BY <1>4, FS_AddElement DEF BucketInv
<1>7. QED
  BY <1>3, <1>4, <1>5, <1>6 DEF With, BucketInv, BucketTypeOK

LEMMA LoadKeeps ==
    ASSUME BucketInv, Loaded
    PROVE  /\ checker.reply.id \in BucketId
           /\ DOMAIN WithLoaded \subseteq BucketId
           /\ \A b \in DOMAIN WithLoaded : WithLoaded[b] \in [records : Nat, stored : BOOLEAN]
<1>1. checker.reply \in Row
  BY DEF BucketInv, BucketTypeOK, Loaded
<1>2. checker.reply.id \in BucketId /\ NewBucket(checker.reply.records) \in [records : Nat, stored : BOOLEAN]
  BY <1>1 DEF Row, NewBucket
<1>3. QED
  BY <1>2 DEF WithLoaded, With, BucketInv, BucketTypeOK

LEMMA CheckerKeeps ==
    ASSUME BucketInv,
           CheckFullBuckets \/ DatabaseReads \/ LatestBucketRead \/ BucketBeforeRead \/ CheckFails
    PROVE  BucketInv'
<1> USE DEF BucketInv, BucketTypeOK, StorerTyped, RoundsAsk
<1>1. CheckerIdle.pc = "timer" /\ CheckerIdle.min = None /\ CheckerIdle.loaded = None
  BY DEF CheckerIdle
<1>2. CASE CheckFullBuckets
  <2>1. PICK insert \in BOOLEAN, ask \in {"askLatest", "askBefore"} : checker' = AskFor(minTimestamp, insert, ask)
    BY <1>2 DEF CheckFullBuckets
  <2>2. minTimestamp # None
    BY <1>2 DEF CheckFullBuckets
  <2>3. QED
    BY <1>2, <2>1, <2>2 DEF CheckFullBuckets, AskFor, CheckerIdle
<1>3. CASE DatabaseReads
  <2>1. RowBefore \in Row \union {None}
    <3> DEFINE limited == checker.pc = "askBefore" /\ checker.min # 0
               known == {d \in Timestamps : rows[d] # None /\ (limited => d <= checker.min)}
               latest == CHOOSE d \in known : \A e \in known : e <= d
    <3>1. RowBefore = IF known = {} THEN None ELSE rows[latest]
      BY DEF RowBefore
    <3>2. CASE known = {}
      BY <3>1, <3>2
    <3>3. CASE known # {}
      <4>1. known \in (SUBSET Timestamps) \ {{}}
        BY <3>3
      <4>2. \E d \in known : \A e \in known : e <= d
        BY <4>1, BucketAssumption
      <4>3. latest \in known
        BY <4>2
      <4>4. QED
        BY <3>1, <3>3, <4>3
    <3>4. QED
      BY <3>2, <3>3
  <2>2. checker' = [checker EXCEPT !.reply = RowBefore,
                        !.pc = IF checker.pc = "askLatest" THEN "latestRead" ELSE "beforeRead"]
    BY <1>3 DEF DatabaseReads
  <2>3. checker.min # None
    BY <1>3 DEF DatabaseReads
  <2> HIDE DEF RowBefore
  <2>4. QED
    BY <1>3, <2>1, <2>2, <2>3 DEF DatabaseReads
<1>4. CASE LatestBucketRead
  <2>1. UNCHANGED <<rows, storer, counted, faults>> /\ minTimestamp' = None /\ checker.min # None
    BY <1>4 DEF LatestBucketRead
  <2>2. CASE Loaded /\ ~checker.insert /\ buckets' = WithLoaded /\ UNCHANGED ids
             /\ (EndRound \/ checker' = [AskFor(checker.min, FALSE, "askBefore")
                                            EXCEPT !.loaded = checker.reply.id])
    <3>1. checker.reply.id \in BucketId /\ DOMAIN buckets' \subseteq BucketId
          /\ \A b \in DOMAIN buckets' : buckets'[b] \in [records : Nat, stored : BOOLEAN]
      BY <2>2, LoadKeeps
    <3>2. CASE EndRound
      BY <1>1, <2>1, <2>2, <3>1, <3>2 DEF EndRound, CheckerIdle
    <3>3. CASE checker' = [AskFor(checker.min, FALSE, "askBefore") EXCEPT !.loaded = checker.reply.id]
      <4>1. checker' = [pc |-> "askBefore", min |-> checker.min, insert |-> FALSE,
                        reply |-> None, loaded |-> checker.reply.id]
        BY <3>3 DEF AskFor, CheckerIdle
      <4>2. QED
        BY <2>1, <2>2, <3>1, <4>1
    <3>4. QED
      BY <2>2, <3>2, <3>3
  <2>3. CASE CreateIn(WithLoaded) /\ Loaded /\ EndRound
    <3>1. /\ DOMAIN buckets' \subseteq BucketId
          /\ \A b \in DOMAIN buckets' : buckets'[b] \in [records : Nat, stored : BOOLEAN]
          /\ ids' \subseteq BucketId /\ IsFiniteSet(ids')
      BY <2>1, <2>3, LoadKeeps, CreateKeeps
    <3>2. QED
      BY <1>1, <2>1, <2>3, <3>1 DEF EndRound, CheckerIdle
  <2>4. CASE CreateIn(buckets) /\ EndRound
    <3>1. /\ DOMAIN buckets' \subseteq BucketId
          /\ \A b \in DOMAIN buckets' : buckets'[b] \in [records : Nat, stored : BOOLEAN]
          /\ ids' \subseteq BucketId /\ IsFiniteSet(ids')
      BY <2>1, <2>4, CreateKeeps
    <3>2. QED
      BY <1>1, <2>1, <2>4, <3>1 DEF EndRound, CheckerIdle
  <2>5. QED
    BY <1>4, <2>2, <2>3, <2>4 DEF LatestBucketRead
<1>5. CASE BucketBeforeRead
  <2>1. UNCHANGED <<rows, storer, counted, faults>> /\ minTimestamp' = None /\ checker.min # None /\ EndRound
    BY <1>5 DEF BucketBeforeRead
  <2>2. /\ DOMAIN buckets' \subseteq BucketId
        /\ \A b \in DOMAIN buckets' : buckets'[b] \in [records : Nat, stored : BOOLEAN]
        /\ ids' \subseteq BucketId /\ IsFiniteSet(ids')
    <3>1. CASE Loaded
      BY <1>5, <3>1, LoadKeeps DEF BucketBeforeRead
    <3>2. CASE ~Loaded
      BY <1>5, <2>1, <3>2, CreateKeeps DEF BucketBeforeRead
    <3>3. QED
      BY <3>1, <3>2
  <2>3. QED
    BY <1>1, <2>1, <2>2 DEF EndRound, CheckerIdle
<1>6. CASE CheckFails
  <2>1. checker' = [pc |-> "dead", min |-> None, insert |-> FALSE, reply |-> None, loaded |-> None]
    BY <1>6 DEF CheckFails, CheckerIdle
  <2>2. faults' \in Nat /\ UNCHANGED <<buckets, minTimestamp, rows, storer, ids, counted>>
    BY <1>6 DEF CheckFails
  <2>3. QED
    BY <2>1, <2>2
<1>7. QED
  BY <1>2, <1>3, <1>4, <1>5, <1>6
LEMMA StorerKeeps ==
    ASSUME BucketInv, NEW b, NEW gone \in SUBSET DOMAIN buckets,
           StoreBuckets \/ WriteRow(b) \/ WriteFails(b) \/ StoreSettled(gone) \/ NothingToStore(gone)
    PROVE  BucketInv'
<1> USE DEF BucketInv, BucketTypeOK, StorerTyped, RoundsAsk
<1>1. StorerIdle = [pc |-> "timer", captured |-> <<>>, written |-> {}, failed |-> {}, afterRead |-> FALSE]
  BY DEF StorerIdle
<1>2. CASE StoreBuckets
  <2> DEFINE cap == [c \in Unstored |-> buckets[c].records]
  <2>1. storer' = [pc |-> "writing", captured |-> cap, written |-> {}, failed |-> {}, afterRead |-> FALSE]
    BY <1>1, <1>2 DEF StoreBuckets
  <2>2. DOMAIN cap = Unstored /\ Unstored \subseteq DOMAIN buckets
    BY DEF Unstored
  <2>3. \A c \in Unstored : cap[c] \in Nat
    BY <2>2
  <2> HIDE DEF cap
  <2>4. StorerTyped'
    BY <2>1, <2>2, <2>3
  <2>5. UNCHANGED <<buckets, minTimestamp, rows, checker, ids, counted, faults>>
    BY <1>2 DEF StoreBuckets
  <2>6. QED
    BY <2>1, <2>4, <2>5
<1>3. ASSUME b \in Unsettled PROVE Written(b) \in [Timestamps -> Row \union {None}]
  <2>1. b \in DOMAIN storer.captured /\ b.date \in Timestamps
    BY <1>3 DEF Unsettled, BucketId
  <2>2. [id |-> b, records |-> storer.captured[b]] \in Row
    BY <2>1 DEF Row
  <2>3. QED
    BY <2>2 DEF Written
<1>4. CASE WriteRow(b)
  <2>1. b \in DOMAIN storer.captured /\ rows' \in [Timestamps -> Row \union {None}]
    BY <1>3, <1>4 DEF WriteRow, Unsettled
  <2>2. storer' = [storer EXCEPT !.written = @ \union {b}, !.afterRead = @ \/ Reading]
    BY <1>4 DEF WriteRow
  <2>3. StorerTyped'
    BY <2>1, <2>2 DEF Reading
  <2>4. UNCHANGED <<buckets, minTimestamp, checker, ids, counted, faults>>
    BY <1>4 DEF WriteRow
  <2>5. QED
    BY <2>1, <2>3, <2>4
<1>5. CASE WriteFails(b)
  <2>1. b \in DOMAIN storer.captured /\ rows' \in [Timestamps -> Row \union {None}]
    BY <1>3, <1>5 DEF WriteFails, Unsettled
  <2>2. storer' = [storer EXCEPT !.failed = @ \union {b}, !.afterRead = @ \/ Reading]
    BY <1>5 DEF WriteFails
  <2>3. StorerTyped'
    BY <2>1, <2>2 DEF Reading
  <2>4. UNCHANGED <<buckets, minTimestamp, checker, ids, counted>> /\ faults' \in Nat
    BY <1>5 DEF WriteFails
  <2>5. QED
    BY <2>1, <2>3, <2>4
<1>6. CASE StoreSettled(gone)
  <2>1. \A c \in DOMAIN SettledBuckets : c \in DOMAIN buckets
            /\ SettledBuckets[c] \in [records : Nat, stored : BOOLEAN]
    BY DEF SettledBuckets
  <2>2. DOMAIN buckets' \subseteq BucketId
        /\ \A c \in DOMAIN buckets' : buckets'[c] \in [records : Nat, stored : BOOLEAN]
    BY <1>6, <2>1 DEF StoreSettled, Without
  <2>3. UNCHANGED <<minTimestamp, rows, checker, ids, counted, faults>> /\ storer' = StorerIdle
    BY <1>6 DEF StoreSettled
  <2>4. QED
    BY <1>1, <2>2, <2>3
<1>7. CASE NothingToStore(gone)
  <2>1. DOMAIN buckets' \subseteq BucketId
        /\ \A c \in DOMAIN buckets' : buckets'[c] \in [records : Nat, stored : BOOLEAN]
    BY <1>7 DEF NothingToStore, Without
  <2>2. UNCHANGED <<minTimestamp, rows, checker, storer, ids, counted, faults>>
    BY <1>7 DEF NothingToStore
  <2>3. QED
    BY <2>1, <2>2
<1>8. QED
  BY <1>2, <1>4, <1>5, <1>6, <1>7

LEMMA BucketingKeeps == ASSUME BucketInv, BucketStep PROVE BucketInv'
<1>1. CASE CheckFullBuckets \/ DatabaseReads \/ LatestBucketRead \/ BucketBeforeRead \/ CheckFails
  BY <1>1, CheckerKeeps
<1>2. CASE StoreBuckets
  BY <1>2, StorerKeeps
<1>3. ASSUME NEW b \in BucketId, WriteRow(b) \/ WriteFails(b) PROVE BucketInv'
  BY <1>3, StorerKeeps
<1>4. ASSUME NEW gone \in SUBSET DOMAIN buckets, StoreSettled(gone) \/ NothingToStore(gone)
      PROVE  BucketInv'
  BY <1>4, StorerKeeps
<1>5. QED
  BY <1>1, <1>2, <1>3, <1>4 DEF BucketStep

-----------------------------------------------------------------------------
(* No count is lost.                                                       *)

LEMMA FreshIsUnknown ==
    ASSUME BucketInv, CountInv, NEW mem, CreateIn(mem), checker.min # None
    PROVE  \E b \in BucketId \ ids :
              /\ buckets' = With(mem, b, NewBucket(0)) /\ ids' = ids \union {b}
              /\ \A c \in ids' : c.serial <= Cardinality(ids')
<1> DEFINE b == [date |-> checker.min, serial |-> Cardinality(ids) + 1]
<1>1. Cardinality(ids) \in Nat /\ Cardinality(ids) < MaxBuckets /\ MaxBuckets \in Nat
  BY FS_CardinalityType, BucketAssumption DEF BucketInv, CreateIn
<1>2. b \in BucketId /\ b.serial = Cardinality(ids) + 1
  BY <1>1 DEF BucketId, BucketInv, BucketTypeOK
<1>3. buckets' = With(mem, b, NewBucket(0)) /\ ids' = ids \union {b}
  BY DEF CreateIn
<1> HIDE DEF b
<1>4. \A c \in ids : c.serial \in Nat /\ c.serial <= Cardinality(ids)
  BY DEF CountInv, NamesAreKnown, BucketInv, BucketTypeOK, BucketId
<1>5. b \notin ids
  BY <1>1, <1>2, <1>4
<1>6. Cardinality(ids') = Cardinality(ids) + 1
  BY <1>3, <1>5, FS_AddElement DEF BucketInv
<1>7. \A c \in ids' : c.serial <= Cardinality(ids')
  BY <1>1, <1>2, <1>3, <1>4, <1>6
<1>8. QED
  BY <1>2, <1>3, <1>5, <1>7

LEMMA LoadCounts ==
    ASSUME BucketInv, CountInv, Loaded, Reading
    PROVE  /\ checker.reply.id \in ids \ DOMAIN buckets
           /\ ~Shared(checker.reply.id) => checker.reply.records = counted[checker.reply.id]
<1> DEFINE c == checker.reply.id
<1>1. checker.reply # None /\ c \notin DOMAIN buckets /\ c \in ids
  BY DEF Loaded, CountInv
<1>2. ASSUME ~Shared(c) PROVE checker.reply.records = counted[c]
  <2>1. c \notin DOMAIN storer.captured
    BY <1>1 DEF CountInv, BeingWritten
  <2>2. rows[c.date] = checker.reply
    BY <1>1, <1>2, <2>1 DEF CountInv, ReplyIsTheRow
  <2>3. CountIsKnown(c)
    BY <1>1, <1>2 DEF CountInv
  <2>4. QED
    BY <1>1, <2>2, <2>3 DEF CountIsKnown
<1>3. QED
  BY <1>1, <1>2

\* What is in memory after a round of the checker: the same, a loaded bucket, and
\* a new one.
LEMMA MemoryGrows ==
    ASSUME BucketInv, CountInv, UNCHANGED <<rows, storer, counted>>,
           NEW loaded \in SUBSET {checker.reply.id}, NEW made \in SUBSET (BucketId \ ids),
           loaded # {} => Loaded /\ Reading,
           DOMAIN buckets' = DOMAIN buckets \union loaded \union made,
           ids' = ids \union made,
           \A b \in DOMAIN buckets : buckets'[b] = buckets[b],
           \A b \in loaded : buckets'[b] = NewBucket(checker.reply.records),
           \A b \in made : buckets'[b] = NewBucket(0),
           \A b \in ids' : b.serial <= Cardinality(ids'),
           checker'.reply = None
    PROVE  CountInv'
<1>1. loaded \subseteq ids \ DOMAIN buckets
      /\ \A b \in loaded : ~Shared(b) => checker.reply.records = counted[b]
  BY LoadCounts
<1>2. DOMAIN buckets \subseteq ids /\ ids \subseteq BucketId
  BY DEF CountInv, NamesAreKnown, BucketInv, BucketTypeOK
<1>3. \A b \in made : b \notin DOMAIN buckets /\ b \notin loaded /\ counted[b] = 0
  BY <1>1, <1>2 DEF CountInv, NamesAreKnown
<1>4. NamesAreKnown'
  <2>1. DOMAIN buckets' \subseteq ids'
    BY <1>1, <1>2
  <2>2. \A d \in Timestamps : rows'[d] # None => rows'[d].id \in ids' /\ rows'[d].id.date = d
    BY DEF CountInv, NamesAreKnown
  <2>3. \A b \in BucketId \ ids' : counted'[b] = 0
    BY DEF CountInv, NamesAreKnown
  <2>4. QED
    BY <2>1, <2>2, <2>3 DEF NamesAreKnown
<1>5. ASSUME NEW b, ~Shared(b)' PROVE ~Shared(b)
  BY <1>5 DEF Shared
<1>6. BeingWritten'
  BY <1>5 DEF CountInv, BeingWritten
<1>7. ASSUME NEW b \in ids', ~Shared(b)' PROVE CountIsKnown(b)'
  <2>1. CASE b \in DOMAIN buckets
    BY <1>2, <1>5, <1>7, <2>1 DEF CountInv, CountIsKnown
  <2>2. CASE b \in loaded
    <3>1. buckets'[b].records = counted[b] /\ ~buckets'[b].stored
      BY <1>1, <1>5, <1>7, <2>2 DEF NewBucket
    <3>2. QED
      BY <2>2, <3>1 DEF CountIsKnown
  <2>3. CASE b \in made
    <3>1. buckets'[b].records = 0 /\ ~buckets'[b].stored
      BY <2>3 DEF NewBucket
    <3>2. QED
      BY <1>3, <2>3, <3>1 DEF CountIsKnown
  <2>4. CASE b \notin DOMAIN buckets'
    BY <1>5, <1>7, <2>4 DEF CountInv, CountIsKnown
  <2>5. QED
    BY <2>1, <2>2, <2>3, <2>4
<1>8. QED
  BY <1>4, <1>6, <1>7 DEF CountInv, ReplyIsTheRow

LEMMA CheckerCounts ==
    ASSUME BucketInv, CountInv,
           CheckFullBuckets \/ DatabaseReads \/ LatestBucketRead \/ BucketBeforeRead \/ CheckFails
    PROVE  CountInv'
<1>1. ASSUME UNCHANGED <<buckets, rows, storer, ids, counted>>, checker'.reply = None PROVE CountInv'
  <2> DEFINE none == {}
  <2>1. none \in SUBSET {checker.reply.id} /\ none \in SUBSET (BucketId \ ids)
    OBVIOUS
  <2>2. /\ DOMAIN buckets' = DOMAIN buckets \union none \union none /\ ids' = ids \union none
        /\ \A b \in DOMAIN buckets : buckets'[b] = buckets[b]
        /\ \A b \in none : buckets'[b] = NewBucket(checker.reply.records)
        /\ \A b \in none : buckets'[b] = NewBucket(0)
    BY <1>1
  <2>3. (\A b \in ids' : b.serial <= Cardinality(ids')) /\ ~(none # {})
    BY <1>1 DEF CountInv, NamesAreKnown
  <2> HIDE DEF none
  <2>4. QED
    BY <1>1, <2>1, <2>2, <2>3, MemoryGrows
<1>2. CheckerIdle.reply = None
  BY DEF CheckerIdle
<1>3. \A m, insert, ask : AskFor(m, insert, ask).reply = None
  BY DEF AskFor, CheckerIdle
<1>4. CASE CheckFullBuckets
  <2>1. checker'.reply = None
    BY <1>3, <1>4 DEF CheckFullBuckets
  <2>2. QED
    BY <1>1, <1>4, <2>1 DEF CheckFullBuckets
<1>5. CASE CheckFails
  <2>1. checker'.reply = None
    BY <1>5 DEF CheckFails, CheckerIdle
  <2>2. QED
    BY <1>1, <1>5, <2>1 DEF CheckFails
<1>6. CASE DatabaseReads
  <2>1. UNCHANGED <<buckets, rows, storer, ids, counted>>
    BY <1>6 DEF DatabaseReads
  <2>2. checker'.reply = RowBefore
    BY <1>6 DEF DatabaseReads, BucketInv, BucketTypeOK
  <2>3. RowBefore # None => \E d \in Timestamps : rows[d] # None /\ RowBefore = rows[d]
    <3> DEFINE limited == checker.pc = "askBefore" /\ checker.min # 0
               known == {d \in Timestamps : rows[d] # None /\ (limited => d <= checker.min)}
               latest == CHOOSE d \in known : \A e \in known : e <= d
    <3>1. RowBefore = IF known = {} THEN None ELSE rows[latest]
      BY DEF RowBefore
    <3>2. ASSUME known # {} PROVE latest \in known
      <4>1. known \in (SUBSET Timestamps) \ {{}}
        BY <3>2
      <4>2. \E d \in known : \A e \in known : e <= d
        BY <4>1, BucketAssumption
      <4>3. QED
        BY <4>2
    <3>3. QED
      BY <3>1, <3>2
  <2>4. RowBefore # None => RowBefore.id \in ids /\ rows[RowBefore.id.date] = RowBefore
    BY <2>3 DEF CountInv, NamesAreKnown
  <2> HIDE DEF RowBefore
  <2>5. NamesAreKnown' /\ BeingWritten'
    BY <2>1 DEF CountInv, NamesAreKnown, BeingWritten, Shared
  <2>6. ReplyIsTheRow' /\ (checker'.reply # None => checker'.reply.id \in ids')
    BY <2>1, <2>2, <2>4 DEF ReplyIsTheRow
  <2>7. \A b \in ids' : ~Shared(b)' => CountIsKnown(b)'
    BY <2>1 DEF CountInv, CountIsKnown, Shared
  <2>8. QED
    BY <2>5, <2>6, <2>7 DEF CountInv
<1>7. ASSUME LatestBucketRead \/ BucketBeforeRead
      PROVE  /\ UNCHANGED <<rows, storer, counted>> /\ checker'.reply = None /\ Reading
             /\ checker.min # None
             /\ \/ Loaded /\ buckets' = WithLoaded /\ ids' = ids
                \/ Loaded /\ CreateIn(WithLoaded)
                \/ CreateIn(buckets)
  <2>1. CASE LatestBucketRead
    <3>1. EndRound \/ checker' = [AskFor(checker.min, FALSE, "askBefore") EXCEPT !.loaded = checker.reply.id]
      BY <2>1 DEF LatestBucketRead
    <3>2. checker'.reply = None
      <4>1. CASE EndRound
        BY <1>2, <4>1 DEF EndRound
      <4>2. CASE checker' = [AskFor(checker.min, FALSE, "askBefore") EXCEPT !.loaded = checker.reply.id]
        <5>1. checker' = [pc |-> "askBefore", min |-> checker.min, insert |-> FALSE,
                          reply |-> None, loaded |-> checker.reply.id]
          BY <4>2 DEF AskFor, CheckerIdle
        <5>2. QED
          BY <5>1
      <4>3. QED
        BY <3>1, <4>1, <4>2
    <3>3. QED
      BY <2>1, <3>2 DEF LatestBucketRead, Reading, BucketInv, RoundsAsk
  <2>2. CASE BucketBeforeRead
    BY <1>2, <2>2 DEF BucketBeforeRead, EndRound, Reading, BucketInv, RoundsAsk
  <2>3. QED
    BY <1>7, <2>1, <2>2
<1> DEFINE c == checker.reply.id
<1>8. CASE (LatestBucketRead \/ BucketBeforeRead) /\ Loaded /\ buckets' = WithLoaded /\ ids' = ids
  <2>1. /\ DOMAIN buckets' = DOMAIN buckets \union {c} /\ c \notin DOMAIN buckets
        /\ \A b \in DOMAIN buckets : buckets'[b] = buckets[b]
        /\ buckets'[c] = NewBucket(checker.reply.records)
    BY <1>8 DEF WithLoaded, With, Loaded
  <2>2. \A b \in ids' : b.serial <= Cardinality(ids')
    BY <1>8 DEF CountInv, NamesAreKnown
  <2>3. ids' = ids \union {} /\ DOMAIN buckets' = DOMAIN buckets \union {c} \union {}
    BY <1>8, <2>1
  <2> DEFINE loaded == {c}  made == {}
  <2>4. loaded \in SUBSET {checker.reply.id} /\ made \in SUBSET (BucketId \ ids)
    BY <2>1
  <2>5. /\ DOMAIN buckets' = DOMAIN buckets \union loaded \union made /\ ids' = ids \union made
        /\ \A b \in loaded : buckets'[b] = NewBucket(checker.reply.records)
        /\ \A b \in made : buckets'[b] = NewBucket(0)
        /\ loaded # {} => Loaded /\ Reading
    BY <1>7, <1>8, <2>1, <2>2, <2>3
  <2>6. \A b \in DOMAIN buckets : buckets'[b] = buckets[b]
    BY <2>1
  <2> HIDE DEF loaded, made
  <2>7. QED
    BY <1>7, <1>8, <2>2, <2>4, <2>5, <2>6, MemoryGrows
<1>9. CASE (LatestBucketRead \/ BucketBeforeRead) /\ Loaded /\ CreateIn(WithLoaded)
  <2>1. PICK n \in BucketId \ ids :
              /\ buckets' = With(WithLoaded, n, NewBucket(0)) /\ ids' = ids \union {n}
              /\ \A b \in ids' : b.serial <= Cardinality(ids')
    BY <1>7, <1>9, FreshIsUnknown
  <2>2. c \in ids \ DOMAIN buckets /\ DOMAIN buckets \subseteq ids
    BY <1>7, <1>9, LoadCounts DEF CountInv, NamesAreKnown
  <2>3. /\ DOMAIN buckets' = DOMAIN buckets \union {c} \union {n}
        /\ \A b \in DOMAIN buckets : buckets'[b] = buckets[b]
        /\ buckets'[c] = NewBucket(checker.reply.records) /\ buckets'[n] = NewBucket(0)
    BY <2>1, <2>2 DEF WithLoaded, With
  <2> DEFINE loaded == {c}  made == {n}
  <2>4. loaded \in SUBSET {checker.reply.id} /\ made \in SUBSET (BucketId \ ids)
    BY <2>1
  <2>5. /\ DOMAIN buckets' = DOMAIN buckets \union loaded \union made /\ ids' = ids \union made
        /\ \A b \in loaded : buckets'[b] = NewBucket(checker.reply.records)
        /\ \A b \in made : buckets'[b] = NewBucket(0)
        /\ loaded # {} => Loaded /\ Reading
    BY <1>7, <1>9, <2>1, <2>3
  <2>6. \A b \in DOMAIN buckets : buckets'[b] = buckets[b]
    BY <2>3
  <2> HIDE DEF loaded, made
  <2>7. QED
    BY <1>7, <1>9, <2>1, <2>4, <2>5, <2>6, MemoryGrows
<1>10. CASE (LatestBucketRead \/ BucketBeforeRead) /\ CreateIn(buckets)
  <2>1. PICK n \in BucketId \ ids :
              /\ buckets' = With(buckets, n, NewBucket(0)) /\ ids' = ids \union {n}
              /\ \A b \in ids' : b.serial <= Cardinality(ids')
    BY <1>7, <1>10, FreshIsUnknown
  <2>2. DOMAIN buckets \subseteq ids
    BY DEF CountInv, NamesAreKnown
  <2>3. /\ DOMAIN buckets' = DOMAIN buckets \union {} \union {n}
        /\ \A b \in DOMAIN buckets : buckets'[b] = buckets[b]
        /\ buckets'[n] = NewBucket(0)
    BY <2>1, <2>2 DEF With
  <2> DEFINE loaded == {}  made == {n}
  <2>4. loaded \in SUBSET {checker.reply.id} /\ made \in SUBSET (BucketId \ ids)
    BY <2>1
  <2>5. /\ DOMAIN buckets' = DOMAIN buckets \union loaded \union made /\ ids' = ids \union made
        /\ \A b \in loaded : buckets'[b] = NewBucket(checker.reply.records)
        /\ \A b \in made : buckets'[b] = NewBucket(0)
        /\ loaded # {} => Loaded /\ Reading
    BY <1>7, <1>10, <2>1, <2>3
  <2>6. \A b \in DOMAIN buckets : buckets'[b] = buckets[b]
    BY <2>3
  <2> HIDE DEF loaded, made
  <2>7. QED
    BY <1>7, <1>10, <2>1, <2>4, <2>5, <2>6, MemoryGrows
<1>11. QED
  BY <1>4, <1>5, <1>6, <1>7, <1>8, <1>9, <1>10

\* A bucket that is stored is in the table, so it may leave memory.
LEMMA RemovalCounts ==
    ASSUME BucketInv, CountInv, UNCHANGED <<rows, checker, ids, counted>>,
           \/ UNCHANGED storer /\ storer.pc = "timer"
           \/ storer' = StorerIdle /\ (storer.afterRead => ~Reading),
           DOMAIN buckets' \subseteq DOMAIN buckets,
           \A b \in DOMAIN buckets' : buckets'[b].records = buckets[b].records,
           NEW settled, DOMAIN settled = DOMAIN buckets,
           \A b \in DOMAIN buckets' : buckets'[b] = settled[b],
           \A b \in DOMAIN buckets \ DOMAIN buckets' : settled[b].stored,
           \A b \in DOMAIN buckets : settled[b].stored =>
               buckets[b].stored \/ (b \in storer.written /\ buckets[b].records = storer.captured[b])
    PROVE  CountInv'
<1>1. DOMAIN storer'.captured = {} /\ storer'.written = {} /\ \A b : Shared(b)' <=> Shared(b)
  BY DEF StorerIdle, CountInv, BeingWritten, BucketInv, StorerTyped, Shared
<1>2. NamesAreKnown' /\ BeingWritten'
  BY <1>1 DEF CountInv, NamesAreKnown, BeingWritten
<1>3. ASSUME NEW b \in DOMAIN buckets, ~Shared(b), settled[b].stored
      PROVE  rows[b.date] = [id |-> b, records |-> counted[b]]
  <2>1. CountIsKnown(b)
    BY <1>3 DEF CountInv, NamesAreKnown
  <2>2. CASE buckets[b].stored
    BY <2>1, <2>2 DEF CountIsKnown
  <2>3. CASE b \in storer.written /\ buckets[b].records = storer.captured[b]
    BY <1>3, <2>1, <2>3 DEF CountIsKnown, CountInv, BeingWritten
  <2>4. QED
    BY <1>3, <2>2, <2>3
<1>4. ASSUME NEW b \in ids, ~Shared(b) PROVE CountIsKnown(b)'
  <2>1. CountIsKnown(b)
    BY <1>4 DEF CountInv
  <2>2. CASE b \in DOMAIN buckets'
    BY <1>3, <1>4, <2>1, <2>2 DEF CountIsKnown
  <2>3. CASE b \in DOMAIN buckets \ DOMAIN buckets'
    <3>1. rows[b.date] = [id |-> b, records |-> counted[b]] /\ b.date \in Timestamps
      BY <1>3, <1>4, <2>3 DEF BucketInv, BucketTypeOK, BucketId
    <3>2. rows[b.date].records = counted[b]
      BY <3>1
    <3>3. rows[b.date] # None
      <4>1. [id |-> b, records |-> counted[b]] \in [id : BucketId, records : Nat]
        BY <1>4 DEF BucketInv, BucketTypeOK
      <4>2. QED
        BY <3>1, <4>1, BucketAssumption DEF BucketId
    <3>4. QED
      BY <2>3, <3>2, <3>3 DEF CountIsKnown
  <2>4. CASE b \notin DOMAIN buckets
    BY <2>1, <2>4 DEF CountIsKnown
  <2>5. QED
    BY <2>2, <2>3, <2>4
<1>5. ReplyIsTheRow'
  <2> SUFFICES ASSUME Reading', checker'.reply # None, ~Shared(checker.reply.id)'
               PROVE  rows'[checker'.reply.id.date] = checker'.reply
    BY DEF ReplyIsTheRow
  <2>1. Reading /\ checker.reply # None /\ ~Shared(checker.reply.id)
    BY <1>1 DEF Reading
  <2>2. rows[checker.reply.id.date] = checker.reply
    BY <2>1 DEF CountInv, ReplyIsTheRow, BeingWritten
  <2>3. QED
    BY <2>2
<1>6. QED
  BY <1>1, <1>2, <1>4, <1>5 DEF CountInv, Reading

LEMMA StorerCounts ==
    ASSUME BucketInv, CountInv, NEW b, NEW gone \in SUBSET DOMAIN buckets,
           StoreBuckets \/ WriteRow(b) \/ WriteFails(b) \/ StoreSettled(gone) \/ NothingToStore(gone)
    PROVE  CountInv'
<1>1. CASE StoreBuckets
  <2> DEFINE cap == [c \in Unstored |-> buckets[c].records]
  <2>1. UNCHANGED <<buckets, rows, checker, ids, counted>> /\ \A c : Shared(c)' <=> Shared(c)
    BY <1>1 DEF StoreBuckets, Shared
  <2>2. storer' = [pc |-> "writing", captured |-> cap, written |-> {}, failed |-> {}, afterRead |-> FALSE]
    BY <1>1 DEF StoreBuckets, StorerIdle
  <2>3. DOMAIN cap = Unstored
    OBVIOUS
  <2> HIDE DEF cap
  <2>4. BeingWritten'
    BY <2>1, <2>2, <2>3 DEF BeingWritten, Unstored
  <2>5. ReplyIsTheRow'
    <3>1. DOMAIN storer.captured = {}
      BY <1>1 DEF StoreBuckets, CountInv, BeingWritten
    <3>2. QED
      BY <2>1, <3>1 DEF CountInv, ReplyIsTheRow, Reading
  <2>6. NamesAreKnown' /\ (\A c \in ids' : ~Shared(c)' => CountIsKnown(c)')
    BY <2>1 DEF CountInv, NamesAreKnown, CountIsKnown
  <2>7. QED
    BY <2>1, <2>4, <2>5, <2>6 DEF CountInv, Reading
<1>2. ASSUME WriteRow(b) \/ WriteFails(b) PROVE CountInv'
  <2> DEFINE r == [id |-> b, records |-> storer.captured[b]]
  <2>1. /\ UNCHANGED <<buckets, checker, ids, counted>> /\ \A c : Shared(c)' <=> Shared(c)
        /\ b \in Unsettled /\ rows' \in {rows, Written(b)}
    BY <1>2 DEF WriteRow, WriteFails, Shared
  <2>2. /\ storer'.captured = storer.captured /\ storer'.pc = storer.pc
        /\ storer'.afterRead = (storer.afterRead \/ Reading)
        /\ storer'.written \in {storer.written, storer.written \union {b}}
        /\ storer'.written = storer.written \/ rows' = Written(b)
    <3>1. CASE WriteRow(b)
      <4>1. storer' = [storer EXCEPT !.written = @ \union {b}, !.afterRead = @ \/ Reading]
        BY <3>1 DEF WriteRow
      <4>2. QED
        BY <3>1, <4>1 DEF WriteRow, BucketInv, StorerTyped
    <3>2. CASE WriteFails(b)
      <4>1. storer' = [storer EXCEPT !.failed = @ \union {b}, !.afterRead = @ \/ Reading]
        BY <3>2 DEF WriteFails
      <4>2. QED
        BY <4>1 DEF BucketInv, StorerTyped
    <3>3. QED
      BY <1>2, <3>1, <3>2
  <2>3. /\ b \in DOMAIN storer.captured /\ b \in DOMAIN buckets /\ ~buckets[b].stored
        /\ b \in ids /\ b.date \in Timestamps
    BY <2>1 DEF Unsettled, CountInv, BeingWritten, NamesAreKnown, BucketInv, BucketTypeOK, BucketId
  <2>4. /\ Written(b)[b.date] = r
        /\ \A d \in Timestamps \ {b.date} : Written(b)[d] = rows[d]
    BY <2>3 DEF Written, BucketInv, BucketTypeOK
  <2>5. r.id = b
    OBVIOUS
  <2> HIDE DEF r
  <2>6. ASSUME NEW c \in ids, ~Shared(c), c # b PROVE rows'[c.date] = rows[c.date]
    <3>1. c.date # b.date /\ c.date \in Timestamps
      BY <2>3, <2>6 DEF Shared, BucketInv, BucketTypeOK, BucketId
    <3>2. QED
      BY <2>1, <2>4, <3>1
  <2>7. NamesAreKnown'
    <3>1. \A d \in Timestamps : rows'[d] # None => rows'[d].id \in ids /\ rows'[d].id.date = d
      BY <2>1, <2>3, <2>4, <2>5 DEF CountInv, NamesAreKnown
    <3>2. QED
      BY <2>1, <3>1 DEF CountInv, NamesAreKnown
  <2>8. BeingWritten'
    <3>1. ASSUME NEW c \in storer'.written, ~Shared(c)'
          PROVE  rows'[c.date] = [id |-> c, records |-> storer'.captured[c]]
      <4>1. CASE c = b /\ rows' = Written(b)
        BY <2>2, <2>4, <4>1 DEF r
      <4>2. CASE c = b /\ rows' # Written(b)
        BY <2>1, <2>2, <3>1, <4>2 DEF CountInv, BeingWritten
      <4>3. CASE c # b
        <5>1. c \in storer.written /\ c \in ids /\ ~Shared(c)
          BY <2>1, <2>2, <3>1, <4>3 DEF CountInv, BeingWritten, NamesAreKnown, BucketInv, BucketTypeOK
        <5>2. QED
          BY <2>2, <2>6, <4>3, <5>1 DEF CountInv, BeingWritten
      <4>4. QED
        BY <4>1, <4>2, <4>3
    <3>2. QED
      BY <2>1, <2>2, <3>1 DEF CountInv, BeingWritten
  <2>9. ReplyIsTheRow'
    <3> SUFFICES ASSUME Reading', checker'.reply # None, ~Shared(checker.reply.id)'
                 PROVE  \/ rows'[checker'.reply.id.date] = checker'.reply
                        \/ storer'.afterRead /\ checker'.reply.id \in DOMAIN storer'.captured
      BY DEF ReplyIsTheRow
    <3>1. Reading /\ checker.reply # None /\ ~Shared(checker.reply.id) /\ checker.reply.id \in ids
      BY <2>1 DEF Reading, CountInv
    <3>2. CASE checker.reply.id = b
      BY <2>1, <2>2, <2>3, <3>1, <3>2
    <3>3. CASE checker.reply.id # b
      BY <2>1, <2>2, <2>6, <3>1, <3>3 DEF CountInv, ReplyIsTheRow
    <3>4. QED
      BY <3>2, <3>3
  <2>10. ASSUME NEW c \in ids, ~Shared(c) PROVE CountIsKnown(c)'
    <3>1. CountIsKnown(c)
      BY <2>10 DEF CountInv
    <3>2. CASE c = b
      BY <2>1, <2>3, <3>1, <3>2 DEF CountIsKnown
    <3>3. CASE c # b
      BY <2>1, <2>6, <2>10, <3>1, <3>3 DEF CountIsKnown
    <3>4. QED
      BY <3>2, <3>3
  <2>11. QED
    BY <2>1, <2>7, <2>8, <2>9, <2>10 DEF CountInv, Reading
<1>3. CASE StoreSettled(gone)
  <2> DEFINE settled == SettledBuckets
  <2>1. /\ DOMAIN settled = DOMAIN buckets
        /\ \A c \in DOMAIN buckets : settled[c].records = buckets[c].records
        /\ \A c \in DOMAIN buckets : settled[c].stored =>
               buckets[c].stored \/ (c \in storer.written /\ buckets[c].records = storer.captured[c])
    BY DEF SettledBuckets, BucketInv, BucketTypeOK
  <2>2. /\ buckets' = Without(settled, gone) /\ gone \subseteq Removable(settled)
        /\ UNCHANGED <<rows, checker, ids, counted>>
        /\ storer' = StorerIdle /\ (storer.afterRead => ~Reading)
    BY <1>3 DEF StoreSettled
  <2> HIDE DEF settled
  <2>3. /\ DOMAIN buckets' = DOMAIN buckets \ gone
        /\ \A c \in DOMAIN buckets' : buckets'[c] = settled[c]
        /\ \A c \in gone : settled[c].stored
    BY <2>1, <2>2 DEF Without, Removable
  <2>4. QED
    BY <2>1, <2>2, <2>3, RemovalCounts
<1>4. CASE NothingToStore(gone)
  <2>1. /\ buckets' = Without(buckets, gone) /\ gone \subseteq Removable(buckets)
        /\ UNCHANGED <<rows, checker, storer, ids, counted>> /\ storer.pc = "timer"
    BY <1>4 DEF NothingToStore
  <2>2. /\ DOMAIN buckets' = DOMAIN buckets \ gone
        /\ \A c \in DOMAIN buckets' : buckets'[c] = buckets[c]
        /\ \A c \in gone : buckets[c].stored
    BY <2>1 DEF Without, Removable
  <2>3. QED
    BY <2>1, <2>2, RemovalCounts
<1>5. QED
  BY <1>1, <1>2, <1>3, <1>4

LEMMA BucketingCounts == ASSUME BucketInv, CountInv, BucketStep PROVE CountInv'
<1>1. CASE CheckFullBuckets \/ DatabaseReads \/ LatestBucketRead \/ BucketBeforeRead \/ CheckFails
  BY <1>1, CheckerCounts
<1>2. CASE StoreBuckets
  BY <1>2, StorerCounts
<1>3. ASSUME NEW b \in BucketId, WriteRow(b) \/ WriteFails(b) PROVE CountInv'
  BY <1>3, StorerCounts
<1>4. ASSUME NEW gone \in SUBSET DOMAIN buckets, StoreSettled(gone) \/ NothingToStore(gone)
      PROVE  CountInv'
  BY <1>4, StorerCounts
<1>5. QED
  BY <1>1, <1>2, <1>3, <1>4 DEF BucketStep

LEMMA CountingCounts ==
    ASSUME BucketInv, CountInv, NEW ts,
           NoteMissing(ts) \/ \E b \in DOMAIN buckets : CountIn(b)
    PROVE  CountInv'
<1>1. CASE NoteMissing(ts)
  <2>1. UNCHANGED <<buckets, rows, checker, storer, ids, counted>>
    BY <1>1 DEF NoteMissing
  <2>2. QED
    BY <2>1 DEF CountInv, NamesAreKnown, BeingWritten, ReplyIsTheRow, CountIsKnown, Shared, Reading
<1>2. ASSUME NEW b \in DOMAIN buckets, CountIn(b) PROVE CountInv'
  <2>1. UNCHANGED <<rows, checker, storer, ids>> /\ (\A c : Shared(c)' <=> Shared(c))
    BY <1>2 DEF CountIn, Shared
  <2>2. /\ DOMAIN buckets' = DOMAIN buckets
        /\ buckets'[b].records = buckets[b].records + 1 /\ ~buckets'[b].stored
        /\ \A c \in DOMAIN buckets \ {b} : buckets'[c] = buckets[c]
    BY <1>2 DEF CountIn, NewBucket
  <2>3. b \in ids /\ ids \subseteq BucketId
    BY DEF CountInv, NamesAreKnown, BucketInv, BucketTypeOK
  <2>4. counted'[b] = counted[b] + 1 /\ \A c \in BucketId \ {b} : counted'[c] = counted[c]
    BY <1>2, <2>3 DEF CountIn, BucketInv, BucketTypeOK
  <2>5. NamesAreKnown' /\ BeingWritten' /\ ReplyIsTheRow'
    BY <2>1, <2>2, <2>3, <2>4 DEF CountInv, NamesAreKnown, BeingWritten, ReplyIsTheRow, Reading
  <2>6. ASSUME NEW c \in ids, ~Shared(c) PROVE CountIsKnown(c)'
    <3>1. CountIsKnown(c)
      BY <2>6 DEF CountInv
    <3>2. CASE c = b
      BY <2>1, <2>2, <2>3, <2>4, <3>1, <3>2 DEF CountIsKnown
    <3>3. CASE c # b
      BY <2>1, <2>2, <2>3, <2>4, <3>1, <3>3 DEF CountIsKnown
    <3>4. QED
      BY <3>2, <3>3
  <2>7. QED
    BY <2>1, <2>5, <2>6 DEF CountInv, Reading
<1>3. QED
  BY <1>1, <1>2

LEMMA RestartCounts == ASSUME BucketInv, CountInv, BucketsRestart PROVE CountInv'
<1>1. /\ buckets' = <<>> /\ DOMAIN buckets' = {} /\ UNCHANGED <<rows, ids>> /\ checker'.pc = "timer"
      /\ DOMAIN storer'.captured = {} /\ storer'.written = {}
      /\ \A c : Shared(c)' <=> Shared(c)
  BY DEF BucketsRestart, CheckerIdle, StorerIdle, Shared
<1>2. \A b \in BucketId : counted'[b] =
          IF rows[b.date] # None /\ rows[b.date].id = b THEN rows[b.date].records ELSE 0
  BY DEF BucketsRestart
<1>3. ids \subseteq BucketId /\ \A b \in BucketId : b.date \in Timestamps
  BY DEF BucketInv, BucketTypeOK, BucketId
<1>4. NamesAreKnown'
  BY <1>1, <1>2, <1>3 DEF CountInv, NamesAreKnown
<1>5. BeingWritten' /\ ReplyIsTheRow' /\ ~Reading'
  BY <1>1 DEF BeingWritten, ReplyIsTheRow, Reading
<1>6. ASSUME NEW b \in ids, ~Shared(b) PROVE CountIsKnown(b)'
  <2>1. rows[b.date] # None => rows[b.date].id = b
    BY <1>3, <1>6 DEF CountInv, NamesAreKnown, Shared
  <2>2. QED
    BY <1>1, <1>2, <1>3, <2>1 DEF CountIsKnown
<1>7. QED
  BY <1>1, <1>4, <1>5, <1>6 DEF CountInv

LEMMA CountingKeeps ==
    ASSUME BucketInv, NEW ts \in Timestamps, UNCHANGED faults,
           NoteMissing(ts) \/ \E b \in DOMAIN buckets : CountIn(b)
    PROVE  BucketInv'
<1> USE DEF BucketInv, BucketTypeOK, StorerTyped, RoundsAsk
<1>1. CASE NoteMissing(ts)
  BY <1>1 DEF NoteMissing
<1>2. ASSUME NEW b \in DOMAIN buckets, CountIn(b) PROVE BucketInv'
  <2>1. DOMAIN buckets' = DOMAIN buckets
        /\ \A c \in DOMAIN buckets : buckets'[c] \in [records : Nat, stored : BOOLEAN]
    BY <1>2 DEF CountIn, NewBucket
  <2>2. counted' \in [BucketId -> Nat] /\ UNCHANGED <<minTimestamp, rows, checker, storer, ids>>
    BY <1>2 DEF CountIn
  <2>3. QED
    BY <2>1, <2>2
<1>3. QED
  BY <1>1, <1>2

LEMMA BucketsRestartKeeps ==
    ASSUME BucketInv, BucketsRestart, faults' \in Nat
    PROVE  BucketInv'
<1> USE DEF BucketInv, BucketTypeOK, StorerTyped, RoundsAsk
<1>1. /\ checker' = [pc |-> "timer", min |-> None, insert |-> FALSE, reply |-> None, loaded |-> None]
      /\ storer' = [pc |-> "timer", captured |-> <<>>, written |-> {}, failed |-> {}, afterRead |-> FALSE]
  BY DEF BucketsRestart, CheckerIdle, StorerIdle
<1>2. counted' \in [BucketId -> Nat]
  <2>1. ASSUME NEW b \in BucketId, rows[b.date] # None PROVE rows[b.date].records \in Nat
    BY <2>1 DEF BucketId, Row
  <2>2. QED
    BY <2>1 DEF BucketsRestart
<1>3. buckets' = <<>> /\ minTimestamp' = None /\ UNCHANGED <<rows, ids>>
  BY DEF BucketsRestart
<1>4. QED
  BY <1>1, <1>2, <1>3
-----------------------------------------------------------------------------
(* The batches.                                                            *)

\* The bucket that is found for a message begins before it.
LEMMA LookupFits ==
    ASSUME NEW ts, NEW b \in Lookup(buckets, ts) \ {None}
    PROVE  b \in DOMAIN buckets /\ b.date <= ts
<1>1. PICK l \in Latests(buckets) : b \in AnswerWith(buckets, l, ts)
  BY DEF Lookup
<1>2. l \in DOMAIN buckets
  BY DEF Latests
<1>3. QED
  BY <1>1, <1>2 DEF AnswerWith

LEMMA LockedIsABatch ==
    ASSUME BatchInv, NEW b \in BucketId, open[b] # {}
    PROVE  /\ Batches!Locked(b) \in Batches!Batch
           /\ Batches!Locked(b).bucket = b /\ Batches!Locked(b).messages = open[b]
BY StorageAssumption DEF Batches!Locked, Batches!Batch, BatchInv

LEMMA LockKeeps ==
    ASSUME BatchInv, NEW b \in BucketId, LockBatch(b)
    PROVE  BatchInv'
<1> USE DEF BatchInv
<1> DEFINE y == Batches!Locked(b)
<1>1. /\ open[b] # {} /\ pending' = pending \union {y}
      /\ open' = [open EXCEPT ![b] = {}] /\ UNCHANGED <<data, status>>
  BY DEF LockBatch, Batches!LockTimeout
<1>2. y \in Batches!Batch /\ y.bucket = b /\ y.messages = open[b]
  BY <1>1, LockedIsABatch
<1> HIDE DEF y
<1>3. /\ open' \in [BucketId -> SUBSET Messages] /\ pending' \subseteq Batches!Batch
      /\ open'[b] = {} /\ \A c \in BucketId \ {b} : open'[c] = open[c]
  BY <1>1, <1>2
<1>4. InOneBatch'
  <2> SUFFICES ASSUME NEW m \in Messages
               PROVE  /\ status[m] = "batched" <=>
                           (\E c \in BucketId : m \in open'[c]) \/ (\E x \in pending' : m \in x.messages)
                      /\ \A c, d \in BucketId : m \in open'[c] /\ m \in open'[d] => c = d
                      /\ \A x, z \in pending' : m \in x.messages /\ m \in z.messages => x = z
                      /\ \A c \in BucketId, x \in pending' : ~(m \in open'[c] /\ m \in x.messages)
    BY <1>1 DEF InOneBatch
  <2>1. CASE m \in open[b]
    <3>1. \A x \in pending : m \notin x.messages
      BY <2>1 DEF InOneBatch
    <3>2. \A c \in BucketId \ {b} : m \notin open[c]
      BY <2>1 DEF InOneBatch
    <3>3. status[m] = "batched"
      BY <2>1 DEF InOneBatch
    <3>4. QED
      BY <2>1, <3>1, <3>2, <3>3, <1>1, <1>2, <1>3
  <2>2. CASE m \notin open[b]
    <3>1. m \notin y.messages
      BY <1>2, <2>2
    <3>2. \A c \in BucketId : m \in open'[c] <=> m \in open[c]
      BY <1>3, <2>2
    <3>3. QED
      BY <1>1, <3>1, <3>2 DEF InOneBatch
  <2>3. QED
    BY <2>1, <2>2
<1>5. ResolvedIsWritten'
  BY <1>1 DEF ResolvedIsWritten
<1>6. WithinItsBucket'
  BY <1>1, <1>2, <1>3 DEF WithinItsBucket
<1>7. QED
  BY <1>1, <1>3, <1>4, <1>5, <1>6

LEMMA PushKeeps ==
    ASSUME BatchInv, NEW m \in Messages, NEW b \in BucketId, b.date <= TimestampOf[m],
           status[m] # "batched", Batches!PushToBatch(b, m),
           status' = [status EXCEPT ![m] = "batched"]
    PROVE  BatchInv'
<1> USE DEF BatchInv
<1>1. /\ \A c \in BucketId : m \notin open[c]
      /\ \A x \in pending : m \notin x.messages
  BY DEF InOneBatch
<1>2. /\ status' \in [Messages -> Statuses] /\ status'[m] = "batched" /\ data' = data
      /\ \A n \in Messages \ {m} : status'[n] = status[n]
  BY DEF Statuses, Batches!PushToBatch
<1>3. ResolvedIsWritten'
  BY <1>2 DEF ResolvedIsWritten
<1>4. CASE ~Batches!IsFull(b)
  <2>1. open' = [open EXCEPT ![b] = @ \union {m}] /\ pending' = pending
    BY <1>4 DEF Batches!PushToBatch
  <2>2. /\ open' \in [BucketId -> SUBSET Messages] /\ open'[b] = open[b] \union {m}
        /\ \A c \in BucketId \ {b} : open'[c] = open[c]
    BY <2>1
  <2>3. InOneBatch'
    <3>1. ASSUME NEW n \in Messages
          PROVE  /\ status'[n] = "batched" <=>
                      (\E c \in BucketId : n \in open'[c]) \/ (\E x \in pending' : n \in x.messages)
                 /\ \A c, d \in BucketId : n \in open'[c] /\ n \in open'[d] => c = d
                 /\ \A x, z \in pending' : n \in x.messages /\ n \in z.messages => x = z
                 /\ \A c \in BucketId, x \in pending' : ~(n \in open'[c] /\ n \in x.messages)
      <4>1. CASE n = m
        BY <1>1, <1>2, <2>1, <2>2, <4>1
      <4>2. CASE n # m
        <5>1. \A c \in BucketId : n \in open'[c] <=> n \in open[c]
          BY <2>2, <4>2
        <5>2. QED
          BY <1>2, <2>1, <4>2, <5>1 DEF InOneBatch
      <4>3. QED
        BY <4>1, <4>2
    <3>2. QED
      BY <3>1 DEF InOneBatch
  <2>4. WithinItsBucket'
    BY <1>2, <2>1, <2>2 DEF WithinItsBucket
  <2>5. QED
    BY <1>2, <1>3, <2>1, <2>2, <2>3, <2>4
<1>5. CASE Batches!IsFull(b)
  <2> DEFINE y == Batches!Locked(b)
  <2>1. pending' = pending \union {y} /\ open' = [open EXCEPT ![b] = {m}]
    BY <1>5 DEF Batches!PushToBatch
  <2>2. y \in Batches!Batch /\ y.bucket = b /\ y.messages = open[b]
    BY <1>5, LockedIsABatch DEF Batches!IsFull
  <2> HIDE DEF y
  <2>3. /\ open' \in [BucketId -> SUBSET Messages] /\ pending' \subseteq Batches!Batch
        /\ open'[b] = {m} /\ \A c \in BucketId \ {b} : open'[c] = open[c]
    BY <2>1, <2>2
  <2>4. InOneBatch'
    <3>1. ASSUME NEW n \in Messages
          PROVE  /\ status'[n] = "batched" <=>
                      (\E c \in BucketId : n \in open'[c]) \/ (\E x \in pending' : n \in x.messages)
                 /\ \A c, d \in BucketId : n \in open'[c] /\ n \in open'[d] => c = d
                 /\ \A x, z \in pending' : n \in x.messages /\ n \in z.messages => x = z
                 /\ \A c \in BucketId, x \in pending' : ~(n \in open'[c] /\ n \in x.messages)
      <4>1. CASE n = m
        BY <1>1, <1>2, <2>1, <2>2, <2>3, <4>1
      <4>2. CASE n # m /\ n \in open[b]
        <5>1. /\ \A x \in pending : n \notin x.messages
              /\ \A c \in BucketId \ {b} : n \notin open[c]
              /\ status[n] = "batched"
          BY <4>2 DEF InOneBatch
        <5>2. QED
          BY <1>2, <2>1, <2>2, <2>3, <4>2, <5>1
      <4>3. CASE n # m /\ n \notin open[b]
        <5>1. /\ n \notin y.messages
              /\ \A c \in BucketId : n \in open'[c] <=> n \in open[c]
          BY <2>2, <2>3, <4>3
        <5>2. QED
          BY <1>2, <2>1, <4>3, <5>1 DEF InOneBatch
      <4>4. QED
        BY <4>1, <4>2, <4>3
    <3>2. QED
      BY <3>1 DEF InOneBatch
  <2>5. WithinItsBucket'
    BY <1>2, <2>1, <2>2, <2>3 DEF WithinItsBucket
  <2>6. QED
    BY <1>2, <1>3, <2>3, <2>4, <2>5
<1>6. QED
  BY <1>4, <1>5
\* A batch changes its state and nothing else.
LEMMA RelabelKeeps ==
    ASSUME BatchInv, NEW x \in pending, NEW y \in Batches!Batch,
           y.bucket = x.bucket, y.messages = x.messages,
           pending' = (pending \ {x}) \union {y}, UNCHANGED <<open, status>>,
           data' \in {data, data \union Batches!Stored(x)}
    PROVE  BatchInv'
<1> USE DEF BatchInv
<1>1. x \in Batches!Batch /\ x.bucket \in BucketId /\ x.messages \subseteq Messages
  BY DEF Batches!Batch
<1>2. data' \subseteq BucketId \X Messages /\ data \subseteq data'
  BY <1>1 DEF Batches!Stored
<1>3. InOneBatch'
  <2>1. ASSUME NEW m \in Messages
        PROVE  (\E z \in pending' : m \in z.messages) <=> (\E z \in pending : m \in z.messages)
    OBVIOUS
  <2>2. ASSUME NEW m \in Messages, NEW z \in pending', NEW w \in pending',
               m \in z.messages, m \in w.messages
        PROVE  z = w
    BY <2>2 DEF InOneBatch
  <2>3. ASSUME NEW m \in Messages, NEW c \in BucketId, NEW z \in pending'
        PROVE  ~(m \in open[c] /\ m \in z.messages)
    BY DEF InOneBatch
  <2>4. QED
    BY <2>1, <2>2, <2>3 DEF InOneBatch
<1>4. ResolvedIsWritten'
  BY <1>2 DEF ResolvedIsWritten
<1>5. WithinItsBucket'
  BY <1>1 DEF WithinItsBucket, Batches!Stored
<1>6. QED
  BY <1>2, <1>3, <1>4, <1>5

\* A batch leaves: its messages are resolved, and then written, or dropped.
LEMMA LeavingKeeps ==
    ASSUME BatchInv, NEW x \in pending, NEW as \in {"resolved", "dropped"},
           pending' = pending \ {x}, UNCHANGED open, status' = Settle(x, as),
           data' \in {data, data \union Batches!Stored(x)},
           as = "resolved" => data' = data \union Batches!Stored(x)
    PROVE  BatchInv'
<1> USE DEF BatchInv
<1>1. x \in Batches!Batch /\ x.bucket \in BucketId /\ x.messages \subseteq Messages
  BY DEF Batches!Batch
<1>2. data' \subseteq BucketId \X Messages /\ data \subseteq data'
  BY <1>1 DEF Batches!Stored
<1>3. /\ status' \in [Messages -> Statuses]
      /\ \A m \in Messages : status'[m] = IF m \in x.messages THEN as ELSE status[m]
  BY DEF Settle, Statuses
<1>4. InOneBatch'
  <2>1. ASSUME NEW m \in Messages
        PROVE  status'[m] = "batched" <=>
                   (\E c \in BucketId : m \in open[c]) \/ (\E z \in pending' : m \in z.messages)
    <3>1. CASE m \in x.messages
      BY <1>3, <3>1 DEF InOneBatch
    <3>2. CASE m \notin x.messages
      BY <1>3, <3>2 DEF InOneBatch
    <3>3. QED
      BY <3>1, <3>2
  <2>2. QED
    BY <2>1 DEF InOneBatch
<1>5. ResolvedIsWritten'
  <2>1. ASSUME NEW m \in Messages, status'[m] = "resolved"
        PROVE  \E c \in BucketId : <<c, m>> \in data'
    <3>1. CASE m \in x.messages
      BY <1>1, <1>3, <2>1, <3>1 DEF Batches!Stored
    <3>2. CASE m \notin x.messages
      BY <1>2, <1>3, <2>1, <3>2 DEF ResolvedIsWritten
    <3>3. QED
      BY <3>1, <3>2
  <2>2. QED
    BY <2>1 DEF ResolvedIsWritten
<1>6. WithinItsBucket'
  BY <1>1 DEF WithinItsBucket, Batches!Stored
<1>7. QED
  BY <1>2, <1>3, <1>4, <1>5, <1>6

LEMMA BatchStepKeeps ==
    ASSUME BatchInv, NEW x \in pending,
           SendBatch(x) \/ BatchInserted(x) \/ BatchFailed(x)
    PROVE  BatchInv'
<1>1. x \in Batches!Batch
  BY DEF BatchInv
<1>2. CASE SendBatch(x)
  <2> DEFINE more == IF x.retries < BatchMaxRetries THEN x.retries + 1 ELSE x.retries
             y == [x EXCEPT !.state = "pending", !.retries = more]
  <2>1. y \in Batches!Batch /\ y.bucket = x.bucket /\ y.messages = x.messages
    <3>1. more \in 0..BatchMaxRetries
      BY <1>1, StorageAssumption DEF Batches!Batch
    <3> HIDE DEF more
    <3>2. QED
      BY <1>1, <3>1 DEF Batches!Batch
  <2>2. pending' = (pending \ {x}) \union {y} /\ UNCHANGED <<open, data, status>>
    BY <1>2 DEF SendBatch, Batches!SendBatch
  <2> HIDE DEF y
  <2>3. QED
    BY <2>1, <2>2, RelabelKeeps
<1>3. CASE BatchInserted(x)
  <2>1. /\ pending' = pending \ {x} /\ UNCHANGED open /\ status' = Settle(x, "resolved")
        /\ data' = data \union Batches!Stored(x)
    BY <1>3 DEF BatchInserted, Batches!Inserted
  <2>2. QED
    BY <2>1, LeavingKeeps
<1>4. CASE BatchFailed(x) /\ Batches!ReachedMaxRetries(x)
  <2>1. /\ pending' = pending \ {x} /\ UNCHANGED open /\ status' = Settle(x, "dropped")
        /\ data' \in {data, data \union Batches!Stored(x)}
    BY <1>4 DEF BatchFailed, Batches!InsertFailed
  <2>2. QED
    BY <2>1, LeavingKeeps
<1>5. CASE BatchFailed(x) /\ ~Batches!ReachedMaxRetries(x)
  <2> DEFINE y == [x EXCEPT !.state = "locked"]
  <2>1. y \in Batches!Batch /\ y.bucket = x.bucket /\ y.messages = x.messages
    BY <1>1 DEF Batches!Batch
  <2>2. /\ pending' = (pending \ {x}) \union {y} /\ UNCHANGED <<open, status>>
        /\ data' \in {data, data \union Batches!Stored(x)}
    BY <1>5 DEF BatchFailed, Batches!InsertFailed
  <2> HIDE DEF y
  <2>3. QED
    BY <2>1, <2>2, RelabelKeeps
<1>6. QED
  BY <1>2, <1>3, <1>4, <1>5

-----------------------------------------------------------------------------
(* The whole.                                                              *)

LEMMA StoreKeeps ==
    ASSUME IInv, NEW m \in Messages, StoreMessage(m)
    PROVE  IInv'
<1> USE DEF IInv
<1>1. TimestampOf[m] \in Timestamps
  BY StorageAssumption
<1>2. CASE StoreFound(m)
  <2>1. PICK b \in Lookup(buckets, TimestampOf[m]) \ {None} :
            CountIn(b) /\ Batches!PushToBatch(b, m)
    BY <1>2 DEF StoreFound
  <2>2. b \in DOMAIN buckets /\ b.date <= TimestampOf[m]
    BY <2>1, LookupFits
  <2>3. b \in BucketId
    BY <2>2 DEF BucketInv, BucketTypeOK
  <2>4. BucketInv'
    BY <1>1, <2>1, <2>2, CountingKeeps DEF StoreMessage
  <2>5. BatchInv'
    BY <1>2, <2>1, <2>2, <2>3, PushKeeps DEF StoreMessage, StoreFound
  <2>6. CountInv'
    BY <2>1, <2>2, CountingCounts
  <2>7. QED
    BY <2>4, <2>5, <2>6
<1>3. CASE StoreMissing(m)
  <2>1. BucketInv'
    BY <1>1, <1>3, CountingKeeps DEF StoreMessage, StoreMissing
  <2>2. /\ status[m] \in {"new", "waiting"} /\ status' = [status EXCEPT ![m] = "waiting"]
        /\ UNCHANGED <<open, pending, data>>
    BY <1>3 DEF StoreMessage, StoreMissing
  <2>3. /\ status' \in [Messages -> Statuses]
        /\ \A n \in Messages : status'[n] \in {"batched", "resolved"} <=> status[n] \in {"batched", "resolved"}
        /\ \A n \in Messages : status'[n] \in {"batched", "resolved"} => status'[n] = status[n]
    BY <2>2 DEF BatchInv, Statuses
  <2>4. InOneBatch'
    <3>1. \A n \in Messages : status'[n] = "batched" <=> status[n] = "batched"
      BY <2>3
    <3>2. QED
      BY <2>2, <3>1 DEF BatchInv, InOneBatch
  <2>5. ResolvedIsWritten' /\ WithinItsBucket'
    BY <2>2, <2>3 DEF BatchInv, ResolvedIsWritten, WithinItsBucket
  <2>6. BatchInv'
    BY <2>2, <2>3, <2>4, <2>5 DEF BatchInv
  <2>7. CountInv'
    BY <1>3, CountingCounts DEF StoreMissing
  <2>8. QED
    BY <2>1, <2>6, <2>7
<1>4. QED
  BY <1>2, <1>3 DEF StoreMessage

LEMMA RestartKeeps == ASSUME IInv, Restart PROVE IInv'
<1> USE DEF IInv
<1>1. BucketInv'
  BY BucketsRestartKeeps DEF Restart, BucketInv, BucketTypeOK
<1>2. /\ open' = [b \in BucketId |-> {}] /\ pending' = {} /\ UNCHANGED data
      /\ status' = [m \in Messages |->
                       IF status[m] \in {"waiting", "batched"} THEN "lost" ELSE status[m]]
  BY DEF Restart, Batches!BatchesRestart
<1>3. /\ status' \in [Messages -> Statuses]
      /\ \A m \in Messages : status'[m] # "batched" /\ (status'[m] = "resolved" => status[m] = "resolved")
  BY <1>2 DEF BatchInv, Statuses
<1>4. BatchInv'
  BY <1>2, <1>3 DEF BatchInv, InOneBatch, ResolvedIsWritten, WithinItsBucket
<1>5. CountInv'
  BY RestartCounts DEF Restart
<1>6. QED
  BY <1>1, <1>4, <1>5

LEMMA InitHolds == Init => IInv
<1> SUFFICES ASSUME Init PROVE IInv
  OBVIOUS
<1>1. PICK earlier \in {None} \union {r \in [id : BucketId, records : EarlierRecords] : r.id.serial = 1} :
          /\ rows = [d \in Timestamps |->
                        IF \E b \in BucketId : b.date = d /\ earlier # None /\ earlier.id = b
                        THEN earlier ELSE None]
          /\ ids = {b \in BucketId : earlier # None /\ earlier.id = b}
          /\ counted = [b \in BucketId |-> IF earlier # None /\ earlier.id = b THEN earlier.records ELSE 0]
  BY DEF Init, BucketInit
<1>2. earlier # None => earlier \in Row
  BY <1>1, BucketAssumption DEF Row
<1>3. rows \in [Timestamps -> Row \union {None}] /\ ids \subseteq BucketId /\ counted \in [BucketId -> Nat]
  BY <1>1, <1>2 DEF Row
<1>4. IsFiniteSet(ids)
  <2>1. ids = {} \/ ids = {earlier.id}
    BY <1>1
  <2>2. QED
    BY <2>1, FS_EmptySet, FS_Singleton
<1>5. /\ checker = [pc |-> "timer", min |-> None, insert |-> FALSE, reply |-> None, loaded |-> None]
      /\ storer = [pc |-> "timer", captured |-> <<>>, written |-> {}, failed |-> {}, afterRead |-> FALSE]
      /\ buckets = <<>> /\ minTimestamp = None /\ faults = 0
  BY DEF Init, BucketInit, CheckerIdle, StorerIdle
<1>6. BucketInv
  BY <1>3, <1>4, <1>5 DEF BucketInv, BucketTypeOK, StorerTyped, RoundsAsk
<1>7. BatchInv
  BY DEF Init, Batches!BatchInit, BatchInv, Statuses, InOneBatch, ResolvedIsWritten, WithinItsBucket
<1>8. CountInv
  <2>1. \A b \in ids : b.serial = 1 /\ earlier # None /\ earlier.id = b /\ Cardinality(ids) = 1
    <3>1. ASSUME NEW b \in ids PROVE ids = {b} /\ earlier # None /\ earlier.id = b /\ b.serial = 1
      BY <1>1
    <3>2. QED
      BY <3>1, FS_Singleton
  <2>2. \A d \in Timestamps : rows[d] # None => rows[d] = earlier /\ earlier.id.date = d /\ earlier.id \in ids
    BY <1>1, <1>2 DEF Row
  <2>3. NamesAreKnown
    BY <1>1, <1>5, <2>1, <2>2 DEF NamesAreKnown
  <2>4. BeingWritten /\ ReplyIsTheRow /\ ~Reading
    BY <1>5 DEF BeingWritten, ReplyIsTheRow, Reading
  <2>5. ASSUME NEW b \in ids PROVE CountIsKnown(b)
    <3>1. b \in BucketId /\ b.date \in Timestamps /\ earlier # None /\ earlier.id = b
      BY <1>3, <2>1 DEF BucketId
    <3>2. rows[b.date] = earlier /\ counted[b] = earlier.records
      BY <1>1, <3>1
    <3>3. QED
      BY <1>5, <3>1, <3>2 DEF CountIsKnown
  <2>6. QED
    BY <2>3, <2>4, <2>5 DEF CountInv
<1>9. QED
  BY <1>6, <1>7, <1>8 DEF IInv

LEMMA StepHolds == IInv /\ [Next]_vars => IInv'
<1> SUFFICES ASSUME IInv, [Next]_vars PROVE IInv'
  OBVIOUS
<1> USE DEF IInv
<1>1. CASE Bucketing
  <2>1. BucketInv'
    BY <1>1, BucketingKeeps DEF Bucketing
  <2>2. BatchInv'
    BY <1>1 DEF Bucketing, Apart, BatchInv, InOneBatch, ResolvedIsWritten, WithinItsBucket
  <2>3. CountInv'
    BY <1>1, BucketingCounts DEF Bucketing
  <2>4. QED
    BY <2>1, <2>2, <2>3
<1>2. ASSUME UNCHANGED <<bucketVars, faults>> PROVE BucketInv' /\ CountInv'
  <2>1. BucketInv'
    BY <1>2 DEF bucketVars, BucketInv, BucketTypeOK, StorerTyped, RoundsAsk
  <2>2. CountInv'
    BY <1>2 DEF bucketVars, CountInv, NamesAreKnown, BeingWritten, ReplyIsTheRow, CountIsKnown, Shared, Reading
  <2>3. QED
    BY <2>1, <2>2
<1>3. ASSUME NEW m \in Messages, StoreMessage(m) PROVE IInv'
  BY <1>3, StoreKeeps
<1>4. ASSUME NEW b \in BucketId, LockBatch(b) PROVE IInv'
  BY <1>2, <1>4, LockKeeps DEF LockBatch
<1>5. ASSUME NEW x \in pending, SendBatch(x) \/ BatchInserted(x) \/ BatchFailed(x) PROVE IInv'
  <2>1. UNCHANGED <<bucketVars, faults>>
    BY <1>5 DEF SendBatch, BatchInserted, BatchFailed
  <2>2. QED
    BY <1>2, <1>5, <2>1, BatchStepKeeps
<1>6. CASE Restart
  BY <1>6, RestartKeeps
<1>7. CASE UNCHANGED vars
  <2>1. BatchInv'
    BY <1>7 DEF vars, BatchInv, InOneBatch, ResolvedIsWritten, WithinItsBucket
  <2>2. QED
    BY <1>2, <1>7, <2>1 DEF vars
<1>8. QED
  BY <1>1, <1>3, <1>4, <1>5, <1>6, <1>7 DEF Next

LEMMA AlwaysIInv == Spec => []IInv
<1>1. QED
  BY InitHolds, StepHolds, PTL DEF Spec

\* No variable leaves its type, whatever fails and however often the broker
\* restarts.
THEOREM TypeCorrect == Spec => []TypeOK
<1>1. IInv => TypeOK
  BY DEF IInv, BucketInv, BatchInv, TypeOK, Batches!BatchTypeOK, Statuses
<1>2. QED
  BY <1>1, AlwaysIInv, PTL

\* Whatever buckets are found, read, made, removed and forgotten, a message is
\* never put into one that begins after it (getBucketId and BatchManager.store).
THEOREM StoredWhereItIsFound == Spec => []WithinItsBucket
<1>1. IInv => WithinItsBucket
  BY DEF IInv, BatchInv
<1>2. QED
  BY <1>1, AlwaysIInv, PTL

\* An open promise belongs to a message of exactly one batch and a resolved one
\* to a message in the table, for any sizes of batches, retries and faults.
THEOREM NoPromiseIsForgotten == Spec => []PromisesAreKept
<1>1. ASSUME IInv PROVE PromisesAreKept
  <2> SUFFICES ASSUME NEW m \in Messages
               PROVE  /\ Cardinality(OpenBatchesOf(m)) + Cardinality(PendingBatchesOf(m)) =
                             IF status[m] = "batched" THEN 1 ELSE 0
                      /\ status[m] = "resolved" => \E b \in BucketId : <<b, m>> \in data
    BY DEF PromisesAreKept
  <2>1. status[m] = "resolved" => \E b \in BucketId : <<b, m>> \in data
    BY <1>1 DEF IInv, BatchInv, ResolvedIsWritten
  <2>2. Cardinality({}) = 0 /\ \A x : Cardinality({x}) = 1
    BY FS_EmptySet, FS_Singleton
  <2>3. CASE \E b \in BucketId : m \in open[b]
    <3>1. PICK b \in BucketId : m \in open[b]
      BY <2>3
    <3>2. OpenBatchesOf(m) = {b} /\ PendingBatchesOf(m) = {} /\ status[m] = "batched"
      BY <1>1, <3>1 DEF IInv, BatchInv, InOneBatch, OpenBatchesOf, PendingBatchesOf
    <3>3. Cardinality(OpenBatchesOf(m)) = 1 /\ Cardinality(PendingBatchesOf(m)) = 0
      BY <2>2, <3>2
    <3>4. QED
      BY <2>1, <3>2, <3>3
  <2>4. CASE \E x \in pending : m \in x.messages
    <3>1. PICK x \in pending : m \in x.messages
      BY <2>4
    <3>2. OpenBatchesOf(m) = {} /\ PendingBatchesOf(m) = {x} /\ status[m] = "batched"
      BY <1>1, <3>1 DEF IInv, BatchInv, InOneBatch, OpenBatchesOf, PendingBatchesOf
    <3>3. Cardinality(OpenBatchesOf(m)) = 0 /\ Cardinality(PendingBatchesOf(m)) = 1
      BY <2>2, <3>2
    <3>4. QED
      BY <2>1, <3>2, <3>3
  <2>5. CASE ~(\E b \in BucketId : m \in open[b]) /\ ~(\E x \in pending : m \in x.messages)
    <3>1. OpenBatchesOf(m) = {} /\ PendingBatchesOf(m) = {} /\ status[m] # "batched"
      BY <1>1, <2>5 DEF IInv, BatchInv, InOneBatch, OpenBatchesOf, PendingBatchesOf
    <3>2. QED
      BY <2>1, <2>2, <3>1
  <2>6. QED
    BY <2>3, <2>4, <2>5
<1>2. QED
  BY <1>1, AlwaysIInv, PTL

\* What a bucket has counted is in memory or in the table (_storeBuckets,
\* _checkFullBuckets), and what has been taken in is findable and answered for.
THEOREM RecordsStay == Spec => []RecordsAreKept
<1>1. ASSUME IInv PROVE NoCountIsLost
  <2> SUFFICES ASSUME NEW b \in ids, ~Shared(b)
               PROVE  IF b \in DOMAIN buckets THEN buckets[b].records = counted[b]
                      ELSE \/ counted[b] = 0
                           \/ rows[b.date] = [id |-> b, records |-> counted[b]]
    BY DEF NoCountIsLost
  <2>1. CountIsKnown(b) /\ b \in BucketId /\ b.date \in Timestamps
    BY <1>1 DEF IInv, CountInv, BucketInv, BucketTypeOK, BucketId
  <2>2. rows[b.date] # None => rows[b.date] \in Row /\ rows[b.date].id = b
    BY <1>1, <2>1 DEF IInv, CountInv, NamesAreKnown, Shared, BucketInv, BucketTypeOK
  <2>3. QED
    BY <2>1, <2>2 DEF CountIsKnown, Row
<1>2. IInv => BucketsAreKept
  BY <1>1 DEF IInv, BatchInv, BucketsAreKept
<1>3. Spec => []BucketsAreKept
  BY <1>2, AlwaysIInv, PTL
<1>4. BucketsAreKept /\ PromisesAreKept => RecordsAreKept
  BY DEF RecordsAreKept
<1>5. QED
  BY <1>3, <1>4, NoPromiseIsForgotten, PTL
-----------------------------------------------------------------------------
(* The queries. Messages come in the order of time, and a new bucket begins *)
(* after every message of the older ones.                                   *)
InUse == table \union ({current} \ {None})
MessagesFit ==
    /\ IsFiniteSet(stored)
    /\ \A b \in InUse : b <= clock /\ (current # None => b <= current)
    /\ \A m \in stored : m.bucket \in table /\ m.bucket <= m.ts /\ m.ts <= clock
    /\ \A m \in stored, b \in InUse : b > m.bucket => b > m.ts
    /\ \A m, n \in stored : m.ts = n.ts /\ m.seq = n.seq => m = n
QuerySet ==
    [kind : {"last", "from", "fromPublisher", "range", "rangePublisher"},
     from : Queries!Ref \union {None}, to : Queries!Ref \union {None},
     publisher : Publishers \union {None}, limit : Limits \union {None},
     phase : {"buckets", "count", "data", "end"}, read : SUBSET {"first", "rest"},
     buckets : SUBSET Queries!Times, total : Nat, parts : SUBSET (1..3),
     result : SUBSET Queries!Message, twice : BOOLEAN, deleted : BOOLEAN]
\* What is given depends on the kind.
AsksProperly(q) ==
    /\ q \in QuerySet
    /\ q.kind = "last" => q.limit \in Limits
    /\ q.kind # "last" => q.from \in Queries!Ref
    /\ q.kind \in {"range", "rangePublisher"} => q.to \in Queries!Ref
    /\ q.kind \in {"last", "from", "fromPublisher"} => q.to = None
    /\ q.kind = "last" => q.from = None /\ q.publisher = None
    /\ q.kind \in {"from", "range"} => q.publisher = None
    /\ q.kind \in {"fromPublisher", "rangePublisher"} => q.publisher # None

\* A query for a range has the buckets of what it has been asked for, and from
\* them what its parts have selected.
Wanted(m) == query.publisher # None => m.publisher = query.publisher
PastTo == query.kind = "rangePublisher" /\ query.from.ts >= query.to.ts
RangeFound ==
    /\ query.phase # "count"
    /\ \A m \in kept : Queries!Asked(m) =>
          /\ m.bucket <= query.from.ts /\ "first" \in query.read => m.bucket \in query.buckets
          /\ m.bucket > query.from.ts /\ "rest" \in query.read => m.bucket \in query.buckets
    /\ query.phase \in {"data", "end"} => query.read = {"first", "rest"}
    /\ query.phase = "end" => query.buckets = {} \/ query.parts = Queries!Parts[query.kind]
    /\ query.parts \subseteq Queries!Parts[query.kind]
    /\ \A m \in kept, p \in query.parts : Queries!Asked(m) /\ Queries!Selects(p, m) => m \in query.result
    /\ \A m \in query.result : \E p \in query.parts : Wanted(m) /\ Queries!Selects(p, m)
    /\ query.twice => PastTo
\* A query for the last messages has the latest buckets, and as many messages in
\* them as it has counted.
CountedBuckets == IF query.phase = "count" THEN query.buckets \ {Queries!Min(query.buckets)} ELSE query.buckets
InBuckets(some) == {m \in stored : m.bucket \in some}
LastFound ==
    /\ query.parts \subseteq {1} /\ (query.parts = {} => query.result = {})
    /\ query.phase = "count" => query.buckets # {}
    /\ \A m \in kept : m.bucket \notin query.buckets => \A b \in query.buckets : m.bucket < b
    /\ ~query.deleted => query.total <= Cardinality(InBuckets(CountedBuckets))
    /\ query.phase = "data" =>
          query.total >= query.limit \/ \A m \in kept : m.bucket \in query.buckets
    /\ query.phase = "end" => Queries!LastAreFound
QuerySound ==
    /\ kept \subseteq stored
    /\ query # None =>
          /\ AsksProperly(query)
          /\ query.kind = "last" => LastFound
          /\ query.kind # "last" => RangeFound
\* What the deleter has found expired is, but for what came afterwards.
DeleterSound ==
    deleter # None =>
        /\ deleter \in [potential : SUBSET Queries!Times, expired : SUBSET Queries!Times]
        /\ \A m \in stored : m.bucket \in deleter.expired => Queries!Expired(m.ts) \/ m \in raced
QueriesInv == Queries!TypeOK /\ MessagesFit /\ QuerySound /\ DeleterSound

AboveIn(S, R, x) == {y \in S : <<x, y>> \in R}
TopOf(S, R, limit) == {x \in S : Cardinality(AboveIn(S, R, x)) < limit}
\* Of a finite set in which any two elements compare, as many elements as one
\* likes have fewer than that above them.
LEMMA Ranks ==
    ASSUME NEW S, IsFiniteSet(S), NEW R,
           \A x \in S : <<x, x>> \notin R,
           \A x, y, z \in S : <<x, y>> \in R /\ <<y, z>> \in R => <<x, z>> \in R,
           \A x, y \in S : x # y => <<x, y>> \in R \/ <<y, x>> \in R,
           NEW limit \in 0..Cardinality(S)
    PROVE  Cardinality(TopOf(S, R, limit)) = limit
<1> DEFINE Above(x) == {y \in S : <<x, y>> \in R}
           N == Cardinality(S)
           f == [x \in S |-> Cardinality(Above(x))]
           Top == {x \in S : Cardinality(Above(x)) < limit}
           g == [x \in Top |-> f[x]]
<1>1. N \in Nat /\ limit \in Nat /\ limit <= N
  BY FS_CardinalityType
<1>2. \A x \in S : IsFiniteSet(Above(x)) /\ Cardinality(Above(x)) \in Nat
  BY FS_Subset, FS_CardinalityType
<1>3. ASSUME NEW x \in S, NEW y \in S, <<x, y>> \in R
      PROVE  Cardinality(Above(y)) < Cardinality(Above(x))
  <2>1. Above(y) \subseteq Above(x) /\ y \in Above(x) /\ y \notin Above(y)
    BY <1>3
  <2>2. /\ Cardinality(Above(y)) <= Cardinality(Above(x))
        /\ Cardinality(Above(x)) = Cardinality(Above(y)) => Above(x) = Above(y)
    BY <1>2, <2>1, FS_Subset
  <2>3. QED
    BY <1>2, <2>1, <2>2
<1>4. ASSUME NEW x \in S PROVE Cardinality(Above(x)) < N
  <2>1. Above(x) \subseteq S /\ x \notin Above(x)
    OBVIOUS
  <2>2. Cardinality(Above(x)) <= N /\ (N = Cardinality(Above(x)) => S = Above(x))
    BY <2>1, FS_Subset
  <2>3. QED
    BY <1>1, <1>2, <2>1, <2>2
<1> HIDE DEF Above
<1>5. f \in [S -> 0..(N - 1)]
  BY <1>1, <1>2, <1>4
<1>6. \A x, y \in S : f[x] = f[y] => x = y
  <2> SUFFICES ASSUME NEW x \in S, NEW y \in S, x # y PROVE f[x] # f[y]
    OBVIOUS
  <2>1. f[x] = Cardinality(Above(x)) /\ f[y] = Cardinality(Above(y))
    OBVIOUS
  <2>2. <<x, y>> \in R \/ <<y, x>> \in R
    OBVIOUS
  <2>3. Cardinality(Above(x)) \in Nat /\ Cardinality(Above(y)) \in Nat
    BY <1>2
  <2> HIDE DEF f
  <2>4. QED
    BY <1>3, <2>1, <2>2, <2>3
<1>7. f \in Surjection(S, 0..(N - 1))
  <2>1. f \in Injection(S, 0..(N - 1))
    BY <1>5, <1>6, Fun_IsInj
  <2>2. IsFiniteSet(0..(N - 1)) /\ Cardinality(0..(N - 1)) = N
    <3>1. 0 \in Int /\ N - 1 \in Int
      BY <1>1
    <3> HIDE DEF N
    <3>2. IsFiniteSet(0..(N - 1)) /\ Cardinality(0..(N - 1)) = IF 0 > N - 1 THEN 0 ELSE N - 1 - 0 + 1
      BY <3>1, FS_Interval
    <3>3. QED
      BY <1>1, <3>2
  <2> HIDE DEF f
  <2>3. QED
    BY <2>1, <2>2, FS_Injection
<1>8. g \in Bijection(Top, 0..(limit - 1))
  <2>1. g \in [Top -> 0..(limit - 1)]
    BY <1>1, <1>2
  <2>2. \A t \in 0..(limit - 1) : \E x \in Top : g[x] = t
    <3>1. ASSUME NEW t \in 0..(limit - 1) PROVE \E x \in Top : g[x] = t
      <4>1. t \in 0..(N - 1)
        BY <1>1
      <4>2. PICK x \in S : f[x] = t
        <5> HIDE DEF f, N
        <5>1. QED
          BY <1>7, <4>1 DEF Surjection
      <4>3. Cardinality(Above(x)) = t
        BY <4>2
      <4>4. x \in Top
        BY <1>1, <4>3
      <4>5. QED
        BY <4>2, <4>4
    <3>2. QED
      BY <3>1
  <2>3. \A x, y \in Top : g[x] = g[y] => x = y
    BY <1>6
  <2>4. QED
    BY <2>1, <2>2, <2>3, Fun_IsBij
<1>9. IsFiniteSet(Top) /\ IsFiniteSet(0..(limit - 1)) /\ Cardinality(0..(limit - 1)) = limit
  <2>1. 0 \in Int /\ limit - 1 \in Int
    BY <1>1
  <2>2. IsFiniteSet(0..(limit - 1)) /\ Cardinality(0..(limit - 1)) = IF 0 > limit - 1 THEN 0 ELSE limit - 1 - 0 + 1
    BY <2>1, FS_Interval
  <2>3. Top \subseteq S
    OBVIOUS
  <2> HIDE DEF Top
  <2>4. QED
    BY <1>1, <2>2, <2>3, FS_Subset
<1>10. Cardinality(0..(limit - 1)) = Cardinality(Top)
  <2>1. ExistsBijection(Top, 0..(limit - 1))
    BY <1>8 DEF ExistsBijection
  <2>2. QED
    BY <1>9, <2>1, FS_Bijection
<1>11. QED
  BY <1>9, <1>10 DEF Above, TopOf, AboveIn

LEMMA QueriesBegin == Queries!Init => QueriesInv
<1>1. QueriesAssumption
  BY QueriesAssumption
<1>2. QED
  BY FS_EmptySet, QueriesAssumption
  DEF Queries!Init, QueriesInv, Queries!TypeOK, MessagesFit, InUse, QuerySound, DeleterSound, Queries!Times

\* While messages are added, no query loses anything.
LEMMA AddingKeepsQueries ==
    ASSUME QuerySound, IsFiniteSet(stored'), stored \subseteq stored', UNCHANGED <<query, kept>>
    PROVE  QuerySound'
<1>1. CASE query # None /\ query.kind = "last"
  <2>1. InBuckets(CountedBuckets) \subseteq InBuckets(CountedBuckets)' /\ IsFiniteSet(InBuckets(CountedBuckets)')
    <3>1. InBuckets(CountedBuckets)' \subseteq stored'
      BY DEF InBuckets
    <3>2. InBuckets(CountedBuckets) \subseteq InBuckets(CountedBuckets)'
      BY DEF InBuckets, CountedBuckets
    <3>3. QED
      BY <3>1, <3>2, FS_Subset
  <2>2. Cardinality(InBuckets(CountedBuckets)) <= Cardinality(InBuckets(CountedBuckets)')
        /\ Cardinality(InBuckets(CountedBuckets)) \in Nat /\ Cardinality(InBuckets(CountedBuckets)') \in Nat
    BY <2>1, FS_Subset, FS_CardinalityType
  <2>3. query.total \in Nat
    BY <1>1 DEF QuerySound, AsksProperly, QuerySet
  <2>4. ~query'.deleted => query'.total <= Cardinality(InBuckets(CountedBuckets)')
    BY <1>1, <2>2, <2>3 DEF QuerySound, LastFound
  <2>5. Queries!LastAreFound' <=> Queries!LastAreFound
    BY DEF Queries!LastAreFound
  <2>6. LastFound'
    BY <1>1, <2>4, <2>5 DEF QuerySound, LastFound, CountedBuckets
  <2>7. QED
    BY <1>1, <2>6 DEF QuerySound
<1>2. CASE query # None /\ query.kind # "last"
  BY <1>2 DEF QuerySound, RangeFound, Wanted, PastTo, Queries!Asked, Queries!Selects
<1>3. CASE query = None
  BY <1>3 DEF QuerySound
<1>4. QED
  BY <1>1, <1>2, <1>3

LEMMA ClockAndCacheKeep ==
    ASSUME QueriesInv, Queries!Tick \/ Queries!Forget
    PROVE  QueriesInv'
<1> USE DEF QueriesInv, Queries!Times
<1>1. /\ UNCHANGED <<table, stored, query, kept, deleter, raced>>
      /\ clock \in Nat /\ clock' \in 0..LastTime /\ clock <= clock' /\ LastTime \in Nat /\ StorageTime \in Nat
      /\ current' \in {current, None}
  BY QueriesAssumption
  DEF Queries!Tick, Queries!Forget, Queries!TypeOK, Queries!queryVars, Queries!deleterVars
<1>2. Queries!TypeOK'
  BY <1>1 DEF Queries!TypeOK
<1>3. \A m \in stored : m.ts \in Nat /\ m.bucket \in Nat
  BY QueriesAssumption DEF Queries!TypeOK, Queries!Message
<1>4. InUse \subseteq Nat
  <2>1. table \subseteq 0..LastTime /\ current \in (0..LastTime) \union {None}
    BY DEF Queries!TypeOK
  <2>2. QED
    <3>1. 0..LastTime \subseteq Nat
      BY <1>1
    <3>2. QED
      BY <2>1, <3>1 DEF InUse
<1>5. MessagesFit'
  <2>1. InUse' \subseteq InUse
    BY <1>1 DEF InUse
  <2>2. \A b \in InUse' : b <= clock' /\ (current' # None => b <= current')
    BY <1>1, <1>4, <2>1 DEF MessagesFit
  <2>3. \A m \in stored' : m.bucket \in table' /\ m.bucket <= m.ts /\ m.ts <= clock'
    BY <1>1, <1>3 DEF MessagesFit
  <2>4. \A m \in stored', b \in InUse' : b > m.bucket => b > m.ts
    BY <1>1, <2>1 DEF MessagesFit
  <2>5. QED
    BY <1>1, <2>2, <2>3, <2>4 DEF MessagesFit
<1>6. QuerySound'
  BY <1>1, AddingKeepsQueries DEF MessagesFit
<1>7. DeleterSound'
  BY <1>1, <1>3 DEF DeleterSound, Queries!Expired
<1>8. QED
  BY <1>2, <1>5, <1>6, <1>7

LEMMA StoringKeeps ==
    ASSUME QueriesInv, NEW seq \in 0..MaxSequenceNumber, NEW publisher \in Publishers,
           Queries!Store(seq, publisher)
    PROVE  QueriesInv'
<1> USE DEF QueriesInv, Queries!Times
<1>1. PICK bucket \in {b \in Queries!Fitting : Queries!HasRoom(b)} \cup
                  (IF \E b \in Queries!Fitting : Queries!HasRoom(b) \/ \E m \in Queries!In(b) : m.ts = clock
                   THEN {} ELSE {clock}) :
        LET m == [ts |-> clock, seq |-> seq, publisher |-> publisher, bucket |-> bucket]
        IN  /\ \A n \in stored : n.ts = clock => n.seq < seq
            /\ stored' = stored \cup {m} /\ table' = table \cup {bucket} /\ current' = bucket
            /\ raced' = IF deleter # None /\ bucket \in deleter.expired THEN raced \cup {m} ELSE raced
            /\ UNCHANGED <<clock, Queries!queryVars, deleter>>
  BY DEF Queries!Store
<1> DEFINE m == [ts |-> clock, seq |-> seq, publisher |-> publisher, bucket |-> bucket]
<1>2. /\ \A n \in stored : n.ts = clock => n.seq < seq
      /\ stored' = stored \cup {m} /\ table' = table \cup {bucket} /\ current' = bucket
      /\ raced' = IF deleter # None /\ bucket \in deleter.expired THEN raced \cup {m} ELSE raced
      /\ UNCHANGED <<clock, query, kept, deleter>>
  BY <1>1 DEF Queries!queryVars
<1>3. /\ clock \in 0..LastTime /\ LastTime \in Nat /\ None \notin 0..LastTime /\ table \subseteq 0..LastTime
      /\ current \in (0..LastTime) \union {None}
  BY QueriesAssumption DEF Queries!TypeOK
<1>4. \A n \in stored : n.ts \in 0..LastTime /\ n.bucket \in 0..LastTime /\ n.seq \in 0..MaxSequenceNumber
  BY DEF Queries!TypeOK, Queries!Message
\* The bucket is the newest one, old or new, and a new one begins after every message.
<1>5. ASSUME NEW b \in Queries!Fitting
      PROVE  b \in InUse /\ \A c \in InUse : c <= b
  BY <1>3 DEF Queries!Fitting, InUse, MessagesFit
<1>6. /\ bucket \in 0..LastTime /\ bucket <= clock
      /\ \A c \in InUse : c <= bucket
      /\ bucket \in InUse \/ \A n \in stored : n.ts < bucket \/ n.bucket = bucket
  <2>1. CASE bucket \in Queries!Fitting
    BY <1>3, <1>5, <2>1 DEF InUse, MessagesFit
  <2>2. CASE /\ bucket = clock
             /\ ~\E b \in Queries!Fitting : Queries!HasRoom(b) \/ \E n \in Queries!In(b) : n.ts = clock
    <3>1. ASSUME NEW n \in stored, n.ts = clock PROVE n.bucket \in Queries!Fitting
      <4>1. \A c \in InUse : c <= n.bucket
        BY <1>3, <1>4, <3>1 DEF MessagesFit, InUse
      <4>2. n.bucket \in table /\ n.bucket \in Nat
        BY <1>4 DEF MessagesFit
      <4>3. CASE current # None
        <5>1. current \in InUse /\ n.bucket \in InUse /\ current \in Nat
          BY <1>3, <4>2, <4>3 DEF InUse
        <5>2. current = n.bucket
          BY <4>1, <4>2, <4>3, <5>1 DEF MessagesFit
        <5>3. QED
          BY <4>3, <5>2 DEF Queries!Fitting
      <4>4. CASE current = None
        BY <4>1, <4>2, <4>4 DEF Queries!Fitting, InUse
      <4>5. QED
        BY <4>3, <4>4
    <3>2. \A n \in stored : n.ts # clock
      BY <2>2, <3>1 DEF Queries!In
    <3>3. \A n \in stored : n.ts < clock
      BY <1>3, <1>4, <3>2 DEF MessagesFit
    <3>4. \A c \in InUse : c <= clock
      BY DEF MessagesFit
    <3>5. QED
      BY <1>3, <2>2, <3>3, <3>4
  <2>3. QED
    BY <1>1, <2>1, <2>2
<1>7. m \in Queries!Message /\ m.ts = clock /\ m.seq = seq /\ m.bucket = bucket
  BY <1>3, <1>6 DEF Queries!Message
<1> HIDE DEF m
<1>8. Queries!TypeOK'
  BY <1>2, <1>3, <1>6, <1>7 DEF Queries!TypeOK
<1>9. InUse' = table \union {bucket} /\ InUse' \subseteq 0..LastTime
  BY <1>2, <1>3, <1>6 DEF InUse
<1>10. MessagesFit'
  <2>1. IsFiniteSet(stored')
    BY <1>2, FS_AddElement DEF MessagesFit
  <2>2. \A b \in InUse' : b <= bucket /\ b <= clock
    BY <1>3, <1>6, <1>9 DEF InUse
  <2>3. \A n \in stored' : n.bucket \in table' /\ n.bucket <= n.ts /\ n.ts <= clock'
    BY <1>2, <1>3, <1>6, <1>7 DEF MessagesFit
  <2>4. ASSUME NEW n \in stored', NEW b \in InUse', b > n.bucket PROVE b > n.ts
    <3>1. CASE n = m
      BY <1>3, <1>6, <1>7, <1>9, <2>2, <2>4, <3>1
    <3>2. CASE n # m /\ b \in InUse
      BY <1>2, <2>4, <3>2 DEF MessagesFit
    <3>3. CASE n # m /\ b \notin InUse
      <4>1. n \in stored /\ b = bucket
        BY <1>2, <1>9, <3>3 DEF InUse
      <4>2. QED
        BY <1>3, <1>4, <1>6, <1>9, <2>4, <3>3, <4>1
    <3>4. QED
      BY <3>1, <3>2, <3>3
  <2>5. \A k, n \in stored' : k.ts = n.ts /\ k.seq = n.seq => k = n
    <3>1. \A n \in stored : n.ts = clock => n.seq # seq
      BY <1>2, <1>4
    <3>2. QED
      BY <1>2, <1>7, <3>1 DEF MessagesFit
  <2>6. QED
    BY <1>2, <2>1, <2>2, <2>3, <2>4, <2>5 DEF MessagesFit
<1>11. QuerySound'
  BY <1>2, <1>10, AddingKeepsQueries DEF MessagesFit
<1>12. DeleterSound'
  BY <1>2, <1>7 DEF DeleterSound, Queries!Expired
<1>13. QED
  BY <1>8, <1>10, <1>11, <1>12

LEMMA DeleterKeeps ==
    ASSUME QueriesInv, NEW b, Queries!FindPotential \/ Queries!FilterExpired(b) \/ Queries!DeleterEnds
    PROVE  QueriesInv'
<1> USE DEF QueriesInv
<1>1. UNCHANGED <<clock, table, stored, current, query, kept>>
  BY DEF Queries!FindPotential, Queries!FilterExpired, Queries!DeleterEnds, Queries!tables, Queries!queryVars
<1>2. raced' \in {raced, {}}
  BY DEF Queries!FindPotential, Queries!FilterExpired, Queries!DeleterEnds
<1>3. Queries!TypeOK' /\ MessagesFit'
  BY <1>1, <1>2 DEF Queries!TypeOK, MessagesFit, InUse
<1>4. QuerySound'
  BY <1>1, AddingKeepsQueries DEF MessagesFit
<1>5. DeleterSound'
  <2>1. CASE Queries!FindPotential
    <3>1. PICK some \in SUBSET table : deleter' = [potential |-> some, expired |-> {}]
      BY <2>1 DEF Queries!FindPotential
    <3>2. QED
      BY <3>1 DEF DeleterSound, Queries!TypeOK
  <2>2. CASE Queries!FilterExpired(b)
    <3>1. /\ deleter # None /\ b \in deleter.potential /\ UNCHANGED raced
          /\ \/ deleter' = [potential |-> deleter.potential \ {b}, expired |-> deleter.expired]
             \/ /\ deleter' = [potential |-> deleter.potential \ {b}, expired |-> deleter.expired \cup {b}]
                /\ \A m \in Queries!In(b) : Queries!Expired(m.ts)
      BY <2>2 DEF Queries!FilterExpired, Queries!FoundExpired
    <3>2. QED
      BY <1>1, <3>1 DEF DeleterSound, Queries!Expired, Queries!In
  <2>3. CASE Queries!DeleterEnds
    BY <2>3 DEF Queries!DeleterEnds, DeleterSound
  <2>4. QED
    BY <2>1, <2>2, <2>3
<1>6. QED
  BY <1>3, <1>4, <1>5

LEMMA DeletingKeeps ==
    ASSUME QueriesInv, NEW b, Queries!DeleteExpired(b)
    PROVE  QueriesInv'
<1> USE DEF QueriesInv
<1>1. /\ table' = table \ {b} /\ stored' = stored \ Queries!In(b)
      /\ kept' = kept \cap stored' /\ raced' = raced \cap stored'
      /\ deleter # None /\ deleter' = [deleter EXCEPT !.expired = @ \ {b}]
      /\ query' = IF query = None THEN None ELSE [query EXCEPT !.deleted = TRUE]
      /\ UNCHANGED <<clock, current>>
  BY DEF Queries!DeleteExpired
<1>2. Queries!TypeOK'
  BY <1>1 DEF Queries!TypeOK
<1>3. MessagesFit'
  <2>1. IsFiniteSet(stored') /\ stored' \subseteq stored /\ InUse' \subseteq InUse
    BY <1>1, FS_Subset DEF MessagesFit, InUse
  <2>2. \A m \in stored' : m.bucket \in table'
    BY <1>1 DEF MessagesFit, Queries!In
  <2>3. QED
    BY <1>1, <2>1, <2>2 DEF MessagesFit
<1>4. DeleterSound'
  <2>1. deleter' \in [potential : SUBSET Queries!Times, expired : SUBSET Queries!Times]
        /\ deleter'.expired \subseteq deleter.expired
    BY <1>1 DEF DeleterSound
  <2>2. QED
    BY <1>1, <2>1 DEF DeleterSound, Queries!Expired
<1>5. QuerySound'
  <2>1. kept' \subseteq stored' /\ kept' \subseteq kept
    BY <1>1
  <2>2. CASE query = None
    BY <1>1, <2>1, <2>2 DEF QuerySound
  <2>3. CASE query # None
    <3>1. /\ query' \in QuerySet /\ query'.deleted
          /\ query'.kind = query.kind /\ query'.from = query.from /\ query'.to = query.to
          /\ query'.publisher = query.publisher /\ query'.limit = query.limit
          /\ query'.phase = query.phase /\ query'.read = query.read /\ query'.buckets = query.buckets
          /\ query'.total = query.total /\ query'.parts = query.parts
          /\ query'.result = query.result /\ query'.twice = query.twice
      BY <1>1, <2>3 DEF QuerySound, AsksProperly, QuerySet
    <3>2. AsksProperly(query')
      BY <2>3, <3>1 DEF QuerySound, AsksProperly
    <3>3. ASSUME query.kind = "last" PROVE LastFound'
      <4>1. LastFound
        BY <2>3, <3>3 DEF QuerySound
      <4>2. Queries!LastAreFound'
        BY <3>1 DEF Queries!LastAreFound
      <4>3. QED
        BY <2>1, <3>1, <4>1, <4>2 DEF LastFound
    <3>4. ASSUME query.kind # "last" PROVE RangeFound'
      <4>1. \A m : (Queries!Asked(m)' <=> Queries!Asked(m)) /\ (Wanted(m)' <=> Wanted(m))
            /\ \A p : (Queries!Selects(p, m)' <=> Queries!Selects(p, m))
        BY <3>1 DEF Queries!Asked, Wanted, Queries!Selects
      <4>2. PastTo' <=> PastTo
        BY <3>1 DEF PastTo
      <4>3. RangeFound
        BY <2>3, <3>4 DEF QuerySound
      <4>4. RangeFound'
        BY <2>1, <3>1, <4>1, <4>2, <4>3 DEF RangeFound
      <4>5. QED
        BY <4>4
    <3>5. QED
      BY <2>1, <3>1, <3>2, <3>3, <3>4 DEF QuerySound
  <2>4. QED
    BY <2>2, <2>3
<1>6. QED
  BY <1>2, <1>3, <1>4, <1>5

\* A step of a query leaves the tables and the deleter alone.
LEMMA ReadingKeeps ==
    ASSUME QueriesInv, UNCHANGED <<Queries!tables, Queries!deleterVars>>,
           kept' \subseteq stored,
           query' # None =>
               /\ AsksProperly(query')
               /\ query'.kind = "last" => LastFound'
               /\ query'.kind # "last" => RangeFound'
    PROVE  QueriesInv'
<1>1. UNCHANGED <<clock, table, stored, current, deleter, raced>>
  BY DEF Queries!tables, Queries!deleterVars
<1>2. Queries!TypeOK' /\ MessagesFit' /\ DeleterSound'
  BY <1>1 DEF QueriesInv, Queries!TypeOK, MessagesFit, InUse, DeleterSound, Queries!Expired
<1>3. QED
  BY <1>1, <1>2 DEF QueriesInv, QuerySound

ProperForm(k, f, t, a, l) ==
    \/ k = "last" /\ f = None /\ t = None /\ a = None /\ l \in Limits
    \/ k = "from" /\ f \in Queries!Ref /\ t = None /\ a = None /\ l = None
    \/ k = "fromPublisher" /\ f \in Queries!Ref /\ t = None /\ a \in Publishers /\ a # None /\ l = None
    \/ k = "range" /\ f \in Queries!Ref /\ t \in Queries!Ref /\ a = None /\ l = None
    \/ k = "rangePublisher" /\ f \in Queries!Ref /\ t \in Queries!Ref /\ a \in Publishers /\ a # None /\ l = None
LEMMA BeginningKeeps ==
    ASSUME QueriesInv, NEW k, NEW f, NEW t, NEW a, NEW l,
           ProperForm(k, f, t, a, l), Queries!Starts(k, f, t, a, l)
    PROVE  QueriesInv'
<1> DEFINE q == [kind |-> k, from |-> f, to |-> t, publisher |-> a, limit |-> l,
                 phase |-> "buckets", read |-> {}, buckets |-> {}, total |-> 0,
                 parts |-> {}, result |-> {}, twice |-> FALSE, deleted |-> FALSE]
<1>1. UNCHANGED <<Queries!tables, Queries!deleterVars>> /\ kept' = stored /\ query' = q
  BY DEF Queries!Starts
<1>4. /\ query'.kind = k /\ query'.from = f /\ query'.to = t /\ query'.publisher = a /\ query'.limit = l
      /\ query'.phase = "buckets" /\ query'.read = {} /\ query'.buckets = {} /\ query'.total = 0
      /\ query'.parts = {} /\ query'.result = {} /\ query'.twice = FALSE
  BY <1>1
<1>5. query' \in QuerySet
  BY <1>1 DEF QuerySet, ProperForm
<1>6. AsksProperly(query')
  BY <1>4, <1>5 DEF AsksProperly, ProperForm
<1> HIDE DEF q
<1>7. stored' = stored
  BY <1>1 DEF Queries!tables
<1>8. LastFound'
  <2>1. Cardinality(InBuckets(CountedBuckets))' \in Nat
    <3>1. InBuckets(CountedBuckets)' \subseteq stored
      BY <1>7 DEF InBuckets
    <3>2. QED
      BY <3>1, FS_Subset, FS_CardinalityType DEF QueriesInv, MessagesFit
  <2>2. QED
    BY <1>4, <2>1 DEF LastFound
<1>9. RangeFound'
  BY <1>4 DEF RangeFound
<1>10. QED
  BY <1>1, <1>6, <1>8, <1>9, ReadingKeeps

LEMMA LastBegins ==
    ASSUME QueriesInv, NEW limit \in Limits, Queries!RequestLast(limit)
    PROVE  QueriesInv'
<1>1. Queries!Starts("last", None, None, None, limit)
  BY DEF Queries!RequestLast
<1>2. ProperForm("last", None, None, None, limit)
  BY DEF ProperForm
<1>3. QED
  BY <1>1, <1>2, BeginningKeeps

LEMMA FromBegins ==
    ASSUME QueriesInv, NEW p \in Publishers \union {None}, NEW from \in AskedRefs,
           Queries!RequestFrom(from, p)
    PROVE  QueriesInv'
<1> DEFINE k == IF p = None THEN "from" ELSE "fromPublisher"
<1>1. Queries!Starts(k, from, None, p, None)
  BY DEF Queries!RequestFrom
<1>2. ProperForm(k, from, None, p, None)
  BY QueriesAssumption DEF ProperForm
<1> HIDE DEF k
<1>3. QED
  BY <1>1, <1>2, BeginningKeeps

LEMMA RangeBegins ==
    ASSUME QueriesInv, NEW p \in Publishers \union {None}, NEW from \in AskedRefs, NEW to \in AskedRefs,
           Queries!RequestRange(from, to, p)
    PROVE  QueriesInv'
<1> DEFINE k == IF p = None THEN "range" ELSE "rangePublisher"
           end == [to EXCEPT !.seq = Queries!OrElse(to.seq, MaxSequenceNumber)]
<1>1. Queries!Starts(k, from, end, p, None)
  BY DEF Queries!RequestRange
<1>2. end \in Queries!Ref
  BY QueriesAssumption DEF Queries!Ref, Queries!OrElse
<1> HIDE DEF end
<1>3. ProperForm(k, from, end, p, None)
  BY <1>2, QueriesAssumption DEF ProperForm
<1> HIDE DEF k
<1>4. QED
  BY <1>1, <1>3, BeginningKeeps

LEMMA DoneKeeps == ASSUME QueriesInv, Queries!Done PROVE QueriesInv'
  BY ReadingKeeps DEF Queries!Done

\* The buckets of a range hold what is asked for of what was there.
LEMMA ReadBucketsKeeps ==
    ASSUME QueriesInv, NEW which \in {"first", "rest"}, Queries!ReadBuckets(which)
    PROVE  QueriesInv'
<1> DEFINE found == query.buckets \cup (IF which = "first" THEN Queries!FirstBucket ELSE Queries!RestOfBuckets)
           read == query.read \cup {which}
           phase == IF read # {"first", "rest"} THEN "buckets" ELSE IF found = {} THEN "end" ELSE "data"
           g == [query EXCEPT !.read = read]
           h == [g EXCEPT !.buckets = found]
           q == [h EXCEPT !.phase = phase]
<1>1. /\ query # None /\ query.phase = "buckets" /\ query.kind # "last"
      /\ query' = q /\ UNCHANGED <<Queries!tables, kept, Queries!deleterVars>>
  BY DEF Queries!ReadBuckets, Queries!Advance
<1>2. query \in QuerySet /\ AsksProperly(query) /\ RangeFound
  BY <1>1 DEF QueriesInv, QuerySound, AsksProperly
<1>3. table \subseteq Queries!Times /\ stored \subseteq Queries!Message /\ kept \subseteq stored
  BY DEF QueriesInv, Queries!TypeOK, QuerySound
<1>4. found \subseteq Queries!Times /\ read \subseteq {"first", "rest"} /\ query.buckets \subseteq found
      /\ phase \in {"buckets", "data", "end"} /\ (phase \in {"data", "end"} <=> read = {"first", "rest"})
      /\ (phase = "end" => found = {})
  BY <1>2, <1>3 DEF QuerySet, Queries!FirstBucket, Queries!RestOfBuckets
<1>5. ASSUME NEW m \in kept, Queries!Asked(m)
      PROVE  /\ m.bucket <= query.from.ts /\ "first" \in read => m.bucket \in found
             /\ m.bucket > query.from.ts /\ "rest" \in read => m.bucket \in found
  <2>1. /\ m \in stored /\ m.bucket \in table /\ m.bucket \in Nat /\ m.ts \in Nat
        /\ m.bucket <= m.ts /\ \A b \in table : b > m.bucket => b > m.ts
        /\ table \subseteq Nat
    BY <1>3, QueriesAssumption DEF QueriesInv, MessagesFit, InUse, Queries!Message, Queries!Times
  <2>2. query.from \in Queries!Ref /\ query.from # None /\ query.from.ts \in Nat
        /\ query.from.ts <= m.ts
    BY <1>1, <1>2, <1>5, QueriesAssumption DEF AsksProperly, Queries!Asked, Queries!Ref, Queries!Times
  <2>3. query.to # None => query.to.ts \in Nat /\ m.ts <= query.to.ts
    BY <1>2, <1>5, QueriesAssumption DEF QuerySet, Queries!Asked, Queries!Ref, Queries!Times
  <2>4. CASE m.bucket <= query.from.ts /\ which = "first"
    <3>1. m.bucket \in Queries!FirstBucket
      <4>1. ASSUME NEW c \in table, c <= query.from.ts PROVE c <= m.bucket
        <5>1. c \in Nat /\ (c > m.bucket => c > m.ts)
          BY <2>1
        <5>2. QED
          BY <2>1, <2>2, <4>1, <5>1
      <4>2. QED
        BY <2>1, <2>4, <4>1 DEF Queries!FirstBucket
    <3>2. QED
      BY <2>1, <2>2, <2>4, <3>1
  <2>5. CASE m.bucket > query.from.ts /\ which = "rest"
    <3>1. m.bucket \in Queries!RestOfBuckets
      BY <2>1, <2>2, <2>3, <2>5 DEF Queries!RestOfBuckets
    <3>2. QED
      BY <2>1, <2>2, <2>5, <3>1
  <2>6. /\ m.bucket <= query.from.ts /\ "first" \in query.read => m.bucket \in query.buckets
        /\ m.bucket > query.from.ts /\ "rest" \in query.read => m.bucket \in query.buckets
    BY <1>2, <1>5 DEF RangeFound
  <2>7. QED
    BY <2>4, <2>5, <2>6
<1> HIDE DEF found, read, phase
<1>6. /\ query' \in QuerySet /\ query'.read = read /\ query'.buckets = found /\ query'.phase = phase
      /\ query'.kind = query.kind /\ query'.from = query.from /\ query'.to = query.to
      /\ query'.publisher = query.publisher /\ query'.limit = query.limit
      /\ query'.parts = query.parts /\ query'.result = query.result /\ query'.twice = query.twice
  <2>1. /\ g \in QuerySet /\ g.read = read /\ g.phase = query.phase
        /\ g.kind = query.kind /\ g.from = query.from /\ g.to = query.to
        /\ g.publisher = query.publisher /\ g.limit = query.limit
        /\ g.parts = query.parts /\ g.result = query.result /\ g.twice = query.twice
    BY <1>2, <1>4 DEF QuerySet
  <2> HIDE DEF g
  <2>2. /\ h \in QuerySet /\ h.read = read /\ h.buckets = found
        /\ h.kind = query.kind /\ h.from = query.from /\ h.to = query.to
        /\ h.publisher = query.publisher /\ h.limit = query.limit
        /\ h.parts = query.parts /\ h.result = query.result /\ h.twice = query.twice
    BY <1>4, <2>1 DEF QuerySet
  <2> HIDE DEF h
  <2>3. QED
    BY <1>1, <1>4, <2>2 DEF QuerySet
<1> HIDE DEF q
<1>7. AsksProperly(query')
  BY <1>2, <1>6 DEF AsksProperly
<1>8. RangeFound'
  <2>1. \A m : (Queries!Asked(m)' <=> Queries!Asked(m)) /\ (Wanted(m)' <=> Wanted(m))
        /\ \A p : (Queries!Selects(p, m)' <=> Queries!Selects(p, m))
    BY <1>6 DEF Queries!Asked, Wanted, Queries!Selects
  <2>2. PastTo' <=> PastTo
    BY <1>6 DEF PastTo
  <2>3. kept' = kept
    BY <1>1
  <2>4. query'.phase # "count"
        /\ (query'.phase \in {"data", "end"} => query'.read = {"first", "rest"})
        /\ (query'.phase = "end" => query'.buckets = {})
    BY <1>4, <1>6
  <2>5. \A m \in kept' : Queries!Asked(m)' =>
          /\ m.bucket <= query'.from.ts /\ "first" \in query'.read => m.bucket \in query'.buckets
          /\ m.bucket > query'.from.ts /\ "rest" \in query'.read => m.bucket \in query'.buckets
    BY <1>5, <1>6, <2>1, <2>3
  <2>6. QED
    BY <1>2, <1>6, <2>1, <2>2, <2>3, <2>4, <2>5 DEF RangeFound
<1>9. kept' \subseteq stored
  BY <1>1, <1>3
<1>10. QED
  BY <1>1, <1>6, <1>7, <1>8, <1>9, ReadingKeeps

LEMMA SameCardinality == ASSUME NEW S PROVE Queries!Cardinality(S) = Cardinality(S)
  BY DEF Queries!Cardinality, Cardinality

LEMMA Extremes ==
    ASSUME NEW S \in SUBSET Nat, IsFiniteSet(S), S # {}
    PROVE  /\ Queries!Max(S) \in S /\ \A y \in S : y <= Queries!Max(S)
           /\ Queries!Min(S) \in S /\ \A y \in S : Queries!Min(S) <= y
<1>1. Cardinality(S) \in Nat /\ Cardinality(S) # 0
  BY FS_CardinalityType, FS_EmptySet
<1>2. ASSUME NEW R,
             \A x \in S : <<x, x>> \notin R,
             \A x, y, z \in S : <<x, y>> \in R /\ <<y, z>> \in R => <<x, z>> \in R,
             \A x, y \in S : x # y => <<x, y>> \in R \/ <<y, x>> \in R
      PROVE  \E x \in S : \A y \in S : <<x, y>> \notin R
  <2> DEFINE Top == TopOf(S, R, 1)
  <2>1. Cardinality(Top) = 1
    <3>1. 1 \in 0..Cardinality(S)
      BY <1>1
    <3>2. QED
      BY <1>2, <3>1, Ranks
  <2>2. Top # {}
    <3> HIDE DEF Top
    <3>1. QED
      BY <2>1, FS_EmptySet
  <2>3. PICK x \in S : Cardinality(AboveIn(S, R, x)) < 1
    BY <2>2 DEF TopOf
  <2>4. AboveIn(S, R, x) = {}
    <3> DEFINE above == AboveIn(S, R, x)
    <3>1. IsFiniteSet(above) /\ Cardinality(above) \in Nat
      BY FS_Subset, FS_CardinalityType DEF AboveIn
    <3>2. Cardinality(above) < 1
      BY <2>3
    <3> HIDE DEF above
    <3>3. above = {}
      BY <3>1, <3>2, FS_EmptySet
    <3>4. QED
      BY <3>3 DEF above
  <2>5. QED
    BY <2>4 DEF AboveIn
<1>3. \E x \in S : \A y \in S : y <= x
  <2> DEFINE R == {p \in S \X S : p[1] < p[2]}
  <2>1. /\ \A x \in S : <<x, x>> \notin R
        /\ \A x, y, z \in S : <<x, y>> \in R /\ <<y, z>> \in R => <<x, z>> \in R
        /\ \A x, y \in S : x # y => <<x, y>> \in R \/ <<y, x>> \in R
        /\ \A x, y \in S : <<x, y>> \notin R => y <= x
    OBVIOUS
  <2> HIDE DEF R
  <2>2. PICK x \in S : \A y \in S : <<x, y>> \notin R
    BY <1>2, <2>1
  <2>3. QED
    BY <2>1, <2>2
<1>4. \E x \in S : \A y \in S : x <= y
  <2> DEFINE R == {p \in S \X S : p[2] < p[1]}
  <2>1. /\ \A x \in S : <<x, x>> \notin R
        /\ \A x, y, z \in S : <<x, y>> \in R /\ <<y, z>> \in R => <<x, z>> \in R
        /\ \A x, y \in S : x # y => <<x, y>> \in R \/ <<y, x>> \in R
        /\ \A x, y \in S : <<x, y>> \notin R => x <= y
    OBVIOUS
  <2> HIDE DEF R
  <2>2. PICK x \in S : \A y \in S : <<x, y>> \notin R
    BY <1>2, <2>1
  <2>3. QED
    BY <2>1, <2>2
<1>5. \A x, y \in S : y <= x <=> x >= y
  OBVIOUS
<1>6. Queries!Max(S) \in S /\ \A y \in S : Queries!Max(S) >= y
  <2>1. \E x \in S : \A y \in S : x >= y
    BY <1>3, <1>5
  <2>2. QED
    BY <2>1 DEF Queries!Max
<1>7. Queries!Min(S) \in S /\ \A y \in S : Queries!Min(S) <= y
  BY <1>4 DEF Queries!Min
<1>8. QED
  BY <1>5, <1>6, <1>7

\* The last messages of a set: as many as asked for, and no later ones left out.
LEMMA LatestAreThere ==
    ASSUME QueriesInv, NEW S \in SUBSET stored, NEW limit \in Nat
    PROVE  /\ limit <= Cardinality(S) => Cardinality(Queries!LatestOf(S, limit)) = limit
           /\ \A m \in S \ Queries!LatestOf(S, limit) :
                 /\ limit <= Cardinality(S)
                 /\ \A n \in Queries!LatestOf(S, limit) : Queries!Earlier(m, n)
<1> DEFINE R == {p \in S \X S : Queries!Earlier(p[1], p[2])}
           Above(m) == AboveIn(S, R, m)
<1>1. /\ IsFiniteSet(S) /\ Cardinality(S) \in Nat
      /\ \A m \in S : m.ts \in Nat /\ m.seq \in Nat
      /\ \A m, n \in S : m.ts = n.ts /\ m.seq = n.seq => m = n
  <2>1. S \subseteq Queries!Message
    BY DEF QueriesInv, Queries!TypeOK
  <2>2. \A m \in S : m.ts \in Nat /\ m.seq \in Nat
    BY <2>1, QueriesAssumption DEF Queries!Message, Queries!Times
  <2>3. QED
    BY <2>2, FS_Subset, FS_CardinalityType DEF QueriesInv, MessagesFit
<1>2. /\ \A m \in S : ~Queries!Earlier(m, m)
      /\ \A k, m, n \in S : Queries!Earlier(k, m) /\ Queries!Earlier(m, n) => Queries!Earlier(k, n)
      /\ \A m, n \in S : m # n => Queries!Earlier(m, n) \/ Queries!Earlier(n, m)
  BY <1>1 DEF Queries!Earlier
<1>3. \A m \in S : Above(m) = Queries!LaterIn(S, m)
  BY DEF AboveIn, Queries!LaterIn
<1>4. Queries!LatestOf(S, limit) = TopOf(S, R, limit)
        /\ \A m \in S : m \in Queries!LatestOf(S, limit) <=> Cardinality(Above(m)) < limit
  <2>1. ASSUME NEW m \in S PROVE m \in Queries!LatestOf(S, limit) <=> Cardinality(Above(m)) < limit
    <3>1. Above(m) = Queries!LaterIn(S, m)
      BY <1>3
    <3> HIDE DEF Above
    <3>2. m \in Queries!LatestOf(S, limit) <=> Cardinality(Queries!LaterIn(S, m)) < limit
      BY SameCardinality DEF Queries!LatestOf
    <3>3. QED
      BY <3>1, <3>2
  <2>2. Queries!LatestOf(S, limit) \subseteq S
    BY DEF Queries!LatestOf
  <2>3. Queries!LatestOf(S, limit) = TopOf(S, R, limit)
    <3> HIDE DEF R
    <3>1. QED
      BY <2>1, <2>2 DEF TopOf
  <2>4. QED
    BY <2>1, <2>3
<1>5. limit <= Cardinality(S) => Cardinality(Queries!LatestOf(S, limit)) = limit
  <2>1. /\ \A x \in S : <<x, x>> \notin R
        /\ \A x, y, z \in S : <<x, y>> \in R /\ <<y, z>> \in R => <<x, z>> \in R
        /\ \A x, y \in S : x # y => <<x, y>> \in R \/ <<y, x>> \in R
    BY <1>2
  <2>3. limit <= Cardinality(S) => limit \in 0..Cardinality(S)
    BY <1>1
  <2> HIDE DEF R, Above
  <2>4. QED
    BY <1>1, <1>4, <2>1, <2>3, Ranks
<1>6. \A m \in S : IsFiniteSet(Above(m)) /\ Cardinality(Above(m)) \in Nat /\ Cardinality(Above(m)) <= Cardinality(S)
  <2> SUFFICES ASSUME NEW m \in S
               PROVE  IsFiniteSet(Above(m)) /\ Cardinality(Above(m)) \in Nat /\ Cardinality(Above(m)) <= Cardinality(S)
    OBVIOUS
  <2>1. Above(m) \in SUBSET S
    BY DEF AboveIn
  <2> HIDE DEF Above
  <2>2. QED
    BY <1>1, <2>1, FS_Subset, FS_CardinalityType
<1>7. ASSUME NEW m \in S, NEW n \in S, ~(Cardinality(Above(m)) < limit), Cardinality(Above(n)) < limit
      PROVE  Queries!Earlier(m, n)
  <2>1. ASSUME Queries!Earlier(n, m) \/ m = n PROVE FALSE
    <3>1. Above(m) \subseteq Above(n)
      BY <1>2, <1>3, <2>1 DEF Queries!LaterIn
    <3>2. IsFiniteSet(Above(n)) /\ Above(m) \in SUBSET Above(n)
      BY <1>6, <3>1
    <3>3. Cardinality(Above(m)) \in Nat /\ Cardinality(Above(n)) \in Nat
      BY <1>6
    <3> HIDE DEF Above
    <3>4. Cardinality(Above(m)) <= Cardinality(Above(n))
      BY <3>2, FS_Subset
    <3>5. QED
      BY <1>7, <3>3, <3>4
  <2>2. QED
    BY <1>2, <2>1
<1> HIDE DEF R, Above
<1>8. QED
  <2>1. ASSUME NEW m \in S \ Queries!LatestOf(S, limit)
        PROVE  limit <= Cardinality(S) /\ \A n \in Queries!LatestOf(S, limit) : Queries!Earlier(m, n)
    <3>1. ~(Cardinality(Above(m)) < limit)
      BY <1>4, <2>1
    <3>2. limit <= Cardinality(S)
      BY <1>1, <1>6, <2>1, <3>1
    <3>3. Queries!LatestOf(S, limit) \subseteq S
      BY DEF Queries!LatestOf
    <3>4. QED
      BY <1>4, <1>7, <2>1, <3>1, <3>2, <3>3
  <2>2. QED
    BY <1>5, <2>1

\* A page: the latest of the older buckets, or none.
LEMMA ReadPageKeeps == ASSUME QueriesInv, Queries!ReadPage PROVE QueriesInv'
<1>1. /\ query # None /\ query.phase = "buckets" /\ query.kind = "last" /\ query \in QuerySet
      /\ AsksProperly(query) /\ LastFound /\ UNCHANGED <<Queries!tables, kept, Queries!deleterVars>>
  BY DEF Queries!ReadPage, Queries!Advance, QueriesInv, QuerySound, AsksProperly
<1>2. /\ table \subseteq 0..LastTime /\ LastTime \in Nat /\ table \subseteq Nat /\ kept \subseteq stored
      /\ \A m \in stored : m.bucket \in table
  BY QueriesAssumption DEF QueriesInv, Queries!TypeOK, Queries!Times, QuerySound, MessagesFit
<1>3. kept' = kept /\ stored' = stored
  BY <1>1 DEF Queries!tables
<1>4. CASE Queries!Older # {}
  <2> DEFINE x == Queries!Max(Queries!Older)
             more == query.buckets \cup {x}
             g == [query EXCEPT !.buckets = more]
             q == [g EXCEPT !.phase = "count"]
  <2>1. query' = q
    BY <1>4 DEF Queries!ReadPage, Queries!Advance
  <2>2. x \in Queries!Older /\ (\A b \in Queries!Older : b <= x)
    <3>1. IsFiniteSet(Queries!Older) /\ Queries!Older \in SUBSET Nat
      <4>1. IsFiniteSet(0..LastTime)
        BY <1>2, FS_Interval
      <4>2. Queries!Older \subseteq table
        BY DEF Queries!Older
      <4>3. QED
        BY <1>2, <4>1, <4>2, FS_Subset
    <3>2. QED
      BY <1>4, <3>1, Extremes
  <2>3. x \in table /\ x \in Nat /\ \A c \in query.buckets : x < c
    BY <1>2, <2>2 DEF Queries!Older
  <2>4. query.buckets \subseteq Nat
    BY <1>1, QueriesAssumption DEF QuerySet, Queries!Times
  <2> HIDE DEF x
  <2>5. more \subseteq Nat /\ x \in more /\ (\A c \in more : x <= c)
    BY <2>3, <2>4
  <2>6. Queries!Min(more) = x /\ more \ {x} = query.buckets
    <3>1. x \in more /\ (\A c \in more : x <= c) /\ (\A y \in more : (\A c \in more : y <= c) => y = x)
      BY <2>5
    <3>2. Queries!Min(more) = x
      <4> HIDE DEF more
      <4>1. QED
        BY <3>1 DEF Queries!Min
    <3>3. QED
      BY <2>3, <2>4, <3>2
  <2>7. \A m \in kept : m.bucket \notin more => \A b \in more : m.bucket < b
    <3> SUFFICES ASSUME NEW m \in kept, m.bucket \notin more PROVE \A b \in more : m.bucket < b
      OBVIOUS
    <3>1. m.bucket \in table /\ \A b \in query.buckets : m.bucket < b
      BY <1>1, <1>2 DEF LastFound
    <3>2. m.bucket \in Queries!Older
      BY <3>1 DEF Queries!Older
    <3>3. m.bucket <= x /\ m.bucket # x /\ m.bucket \in Nat
      BY <1>2, <2>2, <3>1, <3>2
    <3>4. m.bucket < x
      BY <2>3, <3>3
    <3>5. QED
      BY <3>1, <3>4
  <2>8. more \subseteq Queries!Times
    BY <1>1, <1>2, <2>3 DEF QuerySet, Queries!Times
  <2> HIDE DEF more
  <2>9. /\ query' \in QuerySet /\ query'.buckets = more /\ query'.phase = "count"
        /\ query'.kind = query.kind /\ query'.from = query.from /\ query'.to = query.to
        /\ query'.publisher = query.publisher /\ query'.limit = query.limit
        /\ query'.total = query.total /\ query'.deleted = query.deleted
        /\ query'.parts = query.parts /\ query'.result = query.result
    <3>1. /\ g \in QuerySet /\ g.buckets = more
          /\ g.kind = query.kind /\ g.from = query.from /\ g.to = query.to
          /\ g.publisher = query.publisher /\ g.limit = query.limit
          /\ g.total = query.total /\ g.deleted = query.deleted
          /\ g.parts = query.parts /\ g.result = query.result
      BY <1>1, <2>8 DEF QuerySet
    <3> HIDE DEF g
    <3>2. QED
      BY <2>1, <3>1 DEF QuerySet
  <2> HIDE DEF g, q
  <2>10. AsksProperly(query')
    BY <1>1, <2>9 DEF AsksProperly
  <2>11. CountedBuckets = query.buckets
    BY <1>1 DEF CountedBuckets
  <2>12. CountedBuckets' = query.buckets
    BY <2>6, <2>9 DEF CountedBuckets
  <2>13. InBuckets(CountedBuckets)' = InBuckets(CountedBuckets)
    BY <1>3, <2>11, <2>12 DEF InBuckets
  <2>14. LastFound'
    <3>1. ~query'.deleted => query'.total <= Cardinality(InBuckets(CountedBuckets))'
      BY <1>1, <2>9, <2>13 DEF LastFound
    <3>2. query'.buckets # {}
      BY <2>5, <2>9
    <3>3. QED
      BY <1>1, <1>3, <2>7, <2>9, <3>1, <3>2 DEF LastFound
  <2>15. QED
    BY <1>1, <1>2, <1>3, <2>9, <2>10, <2>14, ReadingKeeps
<1>5. CASE Queries!Older = {}
  <2> DEFINE phase == IF query.buckets = {} THEN "end" ELSE "data"
             q == [query EXCEPT !.phase = phase]
  <2>1. query' = q
    BY <1>5 DEF Queries!ReadPage, Queries!Advance
  <2>2. \A m \in kept : m.bucket \in query.buckets
    <3>1. ASSUME NEW m \in kept, m.bucket \notin query.buckets PROVE FALSE
      <4>1. m.bucket \in Queries!Older
        BY <1>1, <1>2, <3>1 DEF LastFound, Queries!Older
      <4>2. QED
        BY <1>5, <4>1
    <3>2. QED
      BY <3>1
  <2>3. phase \in {"data", "end"} /\ (phase = "end" => query.buckets = {})
    OBVIOUS
  <2> HIDE DEF phase
  <2>4. /\ query' \in QuerySet /\ query'.buckets = query.buckets /\ query'.phase = phase
        /\ query'.kind = query.kind /\ query'.from = query.from /\ query'.to = query.to
        /\ query'.publisher = query.publisher /\ query'.limit = query.limit
        /\ query'.total = query.total /\ query'.deleted = query.deleted
        /\ query'.parts = query.parts /\ query'.result = query.result
    BY <1>1, <2>1, <2>3 DEF QuerySet
  <2> HIDE DEF q
  <2>5. AsksProperly(query')
    BY <1>1, <2>4 DEF AsksProperly
  <2>6. CountedBuckets' = CountedBuckets
    BY <1>1, <2>3, <2>4 DEF CountedBuckets
  <2>7. InBuckets(CountedBuckets)' = InBuckets(CountedBuckets)
    BY <1>3, <2>6 DEF InBuckets
  <2>8. LastFound'
    <3>1. ~query'.deleted => query'.total <= Cardinality(InBuckets(CountedBuckets))'
      BY <1>1, <2>4, <2>7 DEF LastFound
    <3>2. query'.phase = "end" => Queries!LastAreFound'
      BY <1>3, <2>2, <2>3, <2>4 DEF Queries!LastAreFound
    <3>3. query'.phase # "count"
      BY <2>3, <2>4
    <3>4. \A m \in kept' : m.bucket \in query'.buckets
      BY <1>3, <2>2, <2>4
    <3>5. query'.parts \subseteq {1} /\ (query'.parts = {} => query'.result = {})
      BY <1>1, <2>4 DEF LastFound
    <3>6. QED
      BY <3>1, <3>2, <3>3, <3>4, <3>5 DEF LastFound
  <2>9. QED
    BY <1>1, <1>2, <1>3, <2>4, <2>5, <2>8, ReadingKeeps
<1>6. QED
  BY <1>4, <1>5

\* The count of the oldest bucket read is added to that of the others.
LEMMA CountKeeps == ASSUME QueriesInv, Queries!CountMessages PROVE QueriesInv'
<1> DEFINE x == Queries!Min(query.buckets)
           total == query.total + Cardinality(Queries!In(x))
           phase == IF total < query.limit THEN "buckets" ELSE "data"
           g == [query EXCEPT !.total = total]
           q == [g EXCEPT !.phase = phase]
<1>1. /\ query # None /\ query.phase = "count" /\ query.kind = "last" /\ query \in QuerySet
      /\ AsksProperly(query) /\ LastFound /\ UNCHANGED <<Queries!tables, kept, Queries!deleterVars>>
  BY DEF Queries!CountMessages, Queries!Advance, QueriesInv, QuerySound, AsksProperly, RangeFound
<1>2. query' = q
  BY SameCardinality DEF Queries!CountMessages, Queries!Advance
<1>3. kept' = kept /\ stored' = stored /\ kept \subseteq stored /\ IsFiniteSet(stored)
  BY <1>1 DEF Queries!tables, QueriesInv, QuerySound, MessagesFit
<1>4. x \in query.buckets
  <2>1. LastTime \in Nat /\ query.buckets \subseteq 0..LastTime /\ query.buckets \in SUBSET Nat
    BY <1>1, QueriesAssumption DEF QuerySet, Queries!Times
  <2>2. IsFiniteSet(0..LastTime)
    BY <2>1, FS_Interval
  <2>3. IsFiniteSet(query.buckets) /\ query.buckets # {}
    BY <1>1, <2>1, <2>2, FS_Subset DEF LastFound
  <2>4. QED
    BY <2>1, <2>3, Extremes
<1>5. CountedBuckets = query.buckets \ {x}
  BY <1>1 DEF CountedBuckets
<1> HIDE DEF x
<1>6. /\ InBuckets(query.buckets) = InBuckets(CountedBuckets) \cup Queries!In(x)
      /\ InBuckets(CountedBuckets) \cap Queries!In(x) = {}
      /\ InBuckets(CountedBuckets) \subseteq stored /\ Queries!In(x) \subseteq stored
  BY <1>4, <1>5 DEF InBuckets, Queries!In
<1>7. /\ Cardinality(InBuckets(CountedBuckets)) \in Nat /\ Cardinality(Queries!In(x)) \in Nat
      /\ Cardinality(InBuckets(query.buckets)) =
             Cardinality(InBuckets(CountedBuckets)) + Cardinality(Queries!In(x))
  <2>1. IsFiniteSet(InBuckets(CountedBuckets)) /\ IsFiniteSet(Queries!In(x))
    BY <1>3, <1>6, FS_Subset
  <2> DEFINE A == InBuckets(CountedBuckets)  B == Queries!In(x)
  <2>2. Cardinality(A) \in Nat /\ Cardinality(B) \in Nat
    BY <2>1, FS_CardinalityType
  <2>3. Cardinality(A \cup B) = Cardinality(A) + Cardinality(B) - Cardinality(A \cap B)
    <3> HIDE DEF A, B
    <3>1. QED
      BY <2>1, FS_Union DEF A, B
  <2>4. A \cap B = {} /\ A \cup B = InBuckets(query.buckets) /\ Cardinality({}) = 0
    BY <1>6, FS_EmptySet
  <2> HIDE DEF A, B
  <2>7. Cardinality(A \cap B) = 0 /\ Cardinality(InBuckets(query.buckets)) = Cardinality(A \cup B)
    BY <2>4, Zenon
  <2>5. Cardinality(InBuckets(query.buckets)) = Cardinality(A) + Cardinality(B)
    BY <2>2, <2>3, <2>7
  <2>6. QED
    BY <2>2, <2>5 DEF A, B
<1>8. query.total \in Nat /\ query.limit \in Nat
  BY <1>1, QueriesAssumption DEF AsksProperly, QuerySet
<1>9. total \in Nat /\ (~query.deleted => total <= Cardinality(InBuckets(query.buckets)))
  BY <1>1, <1>7, <1>8 DEF LastFound
<1> HIDE DEF total
<1>10. phase \in {"buckets", "data"} /\ (phase = "data" => total >= query.limit)
  BY <1>8, <1>9
<1> HIDE DEF phase
<1>11. /\ query' \in QuerySet /\ query'.buckets = query.buckets /\ query'.phase = phase
       /\ query'.kind = query.kind /\ query'.from = query.from /\ query'.to = query.to
       /\ query'.publisher = query.publisher /\ query'.limit = query.limit
       /\ query'.total = total /\ query'.deleted = query.deleted
       /\ query'.parts = query.parts /\ query'.result = query.result
  <2>1. /\ g \in QuerySet /\ g.buckets = query.buckets
        /\ g.kind = query.kind /\ g.from = query.from /\ g.to = query.to
        /\ g.publisher = query.publisher /\ g.limit = query.limit
        /\ g.total = total /\ g.deleted = query.deleted
        /\ g.parts = query.parts /\ g.result = query.result
    BY <1>1, <1>9 DEF QuerySet
  <2> HIDE DEF g
  <2>2. QED
    BY <1>2, <1>10, <2>1 DEF QuerySet
<1> HIDE DEF g, q
<1>12. AsksProperly(query')
  BY <1>1, <1>11 DEF AsksProperly
<1>13. InBuckets(CountedBuckets)' = InBuckets(query.buckets)
  <2>1. CountedBuckets' = query.buckets
    BY <1>10, <1>11 DEF CountedBuckets
  <2>2. QED
    BY <1>3, <2>1 DEF InBuckets
<1>14. LastFound'
  <2>1. ~query'.deleted => query'.total <= Cardinality(InBuckets(CountedBuckets))'
    BY <1>9, <1>11, <1>13
  <2>2. query'.phase \in {"buckets", "data"} /\ (query'.phase = "data" => query'.total >= query'.limit)
    BY <1>10, <1>11
  <2>3. QED
    BY <1>1, <1>3, <1>11, <2>1, <2>2 DEF LastFound
<1>15. QED
  BY <1>1, <1>3, <1>11, <1>12, <1>14, ReadingKeeps

\* What is asked for is selected by a part of the query, and the parts select it
\* and nothing else, unless the end of a range is not after its beginning.
LEMMA PartsCover ==
    ASSUME query \in QuerySet, AsksProperly(query), query.kind # "last", NEW m \in Queries!Message
    PROVE  /\ Queries!Parts[query.kind] \subseteq 1..3
           /\ Queries!Asked(m) => Wanted(m) /\ \E p \in Queries!Parts[query.kind] : Queries!Selects(p, m)
           /\ ~PastTo => \A p, r \in Queries!Parts[query.kind] :
                  Wanted(m) /\ Queries!Selects(p, m) =>
                      Queries!Asked(m) /\ (Queries!Selects(r, m) => p = r)
<1>1. m.ts \in Nat /\ m.seq \in Nat
  BY QueriesAssumption DEF Queries!Message, Queries!Times
<1>2. query.from \in Queries!Ref /\ query.from # None /\ query.from.ts \in Nat /\ query.from.seq \in Nat
  BY QueriesAssumption DEF AsksProperly, Queries!Ref, Queries!Times
<1>3. query.to # None => query.to \in Queries!Ref /\ query.to.ts \in Nat /\ query.to.seq \in Nat
  BY QueriesAssumption DEF QuerySet, Queries!Ref, Queries!Times
<1>4. CASE query.kind = "from"
  <2>1. Queries!Parts[query.kind] = {1} /\ query.to = None
    BY <1>4 DEF Queries!Parts, AsksProperly
  <2>2. \A p : Queries!Selects(p, m) <=> m.ts >= query.from.ts
    BY <1>4 DEF Queries!Selects
  <2>3. Queries!Asked(m) <=> Wanted(m) /\ query.from.ts <= m.ts
    BY <1>2, <1>4, <2>1 DEF Queries!Asked, Wanted
  <2>4. QED
    BY <1>1, <1>2, <2>1, <2>2, <2>3
<1>5. CASE query.kind = "range"
  <2>1. Queries!Parts[query.kind] = {1} /\ query.to # None
    BY <1>5, QueriesAssumption DEF Queries!Parts, AsksProperly
  <2>2. \A p : Queries!Selects(p, m) <=> m.ts >= query.from.ts /\ m.ts <= query.to.ts
    BY <1>5 DEF Queries!Selects
  <2>3. Queries!Asked(m) <=> Wanted(m) /\ query.from.ts <= m.ts /\ m.ts <= query.to.ts
    BY <1>2, <1>5, <2>1 DEF Queries!Asked, Wanted
  <2>4. QED
    BY <1>1, <1>2, <1>3, <2>1, <2>2, <2>3
<1>6. CASE query.kind = "fromPublisher"
  <2>1. Queries!Parts[query.kind] = {1, 2} /\ query.to = None
    BY <1>6 DEF Queries!Parts, AsksProperly
  <2>2. /\ Queries!Selects(1, m) <=> m.ts = query.from.ts /\ m.seq >= query.from.seq
        /\ Queries!Selects(2, m) <=> m.ts > query.from.ts
    BY <1>6, <2>1 DEF Queries!Selects
  <2>3. Queries!Asked(m) <=> Wanted(m) /\ query.from.ts <= m.ts /\ ~Queries!Earlier(m, query.from)
    BY <1>2, <1>6, <2>1 DEF Queries!Asked, Wanted
  <2>4. QED
    BY <1>1, <1>2, <2>1, <2>2, <2>3 DEF Queries!Earlier
<1>7. CASE query.kind = "rangePublisher"
  <2>1. Queries!Parts[query.kind] = {1, 2, 3} /\ query.to # None
    BY <1>7, QueriesAssumption DEF Queries!Parts, AsksProperly
  <2>2. /\ Queries!Selects(1, m) <=> m.ts = query.from.ts /\ m.seq >= query.from.seq
        /\ Queries!Selects(2, m) <=> m.ts > query.from.ts /\ m.ts < query.to.ts
        /\ Queries!Selects(3, m) <=> m.ts = query.to.ts /\ m.seq <= query.to.seq
    BY <1>7, <2>1 DEF Queries!Selects
  <2>3. Queries!Asked(m) <=>
            /\ Wanted(m) /\ query.from.ts <= m.ts /\ ~Queries!Earlier(m, query.from)
            /\ m.ts <= query.to.ts /\ ~Queries!Earlier(query.to, m)
    BY <1>2, <1>7, <2>1 DEF Queries!Asked, Wanted
  <2>4. PastTo <=> query.from.ts >= query.to.ts
    BY <1>7 DEF PastTo
  <2>5. QED
    BY <1>1, <1>2, <1>3, <2>1, <2>2, <2>3, <2>4 DEF Queries!Earlier
<1>8. QED
  BY <1>4, <1>5, <1>6, <1>7 DEF QuerySet

LEMMA ReadMessagesKeeps ==
    ASSUME QueriesInv, NEW p \in 1..3, Queries!ReadMessages(p)
    PROVE  QueriesInv'
<1> DEFINE found == Queries!PartOf(p)
           read == query.parts \cup {p}
           result == query.result \cup found
           twice == query.twice \/ found \cap query.result # {}
           phase == IF read = Queries!Parts[query.kind] THEN "end" ELSE "data"
           g == [query EXCEPT !.parts = read]
           h == [g EXCEPT !.result = result]
           i == [h EXCEPT !.twice = twice]
           q == [i EXCEPT !.phase = phase]
<1>1. /\ query # None /\ query.phase = "data" /\ query \in QuerySet /\ AsksProperly(query)
      /\ p \in Queries!Parts[query.kind] \ query.parts
      /\ query.kind = "last" => LastFound
      /\ query.kind # "last" => RangeFound
      /\ query' = q /\ UNCHANGED <<Queries!tables, kept, Queries!deleterVars>>
  BY DEF Queries!ReadMessages, Queries!Advance, QueriesInv, QuerySound, AsksProperly
<1>2. kept' = kept /\ stored' = stored /\ kept \subseteq stored /\ stored \subseteq Queries!Message
  BY <1>1 DEF Queries!tables, QueriesInv, Queries!TypeOK, QuerySound
<1>3. found \subseteq stored
  BY DEF Queries!PartOf, Queries!LatestOf
<1>4. read \in SUBSET (1..3) /\ result \subseteq Queries!Message /\ twice \in BOOLEAN
      /\ phase \in {"data", "end"} /\ (phase = "end" <=> read = Queries!Parts[query.kind])
  BY <1>1, <1>2, <1>3 DEF QuerySet
<1> HIDE DEF found, read, result, twice, phase
<1>5. /\ query' \in QuerySet /\ query'.buckets = query.buckets /\ query'.phase = phase
      /\ query'.kind = query.kind /\ query'.from = query.from /\ query'.to = query.to
      /\ query'.publisher = query.publisher /\ query'.limit = query.limit
      /\ query'.total = query.total /\ query'.deleted = query.deleted /\ query'.read = query.read
      /\ query'.parts = read /\ query'.result = result /\ query'.twice = twice
  <2>1. /\ g \in QuerySet /\ g.buckets = query.buckets /\ g.parts = read
        /\ g.kind = query.kind /\ g.from = query.from /\ g.to = query.to
        /\ g.publisher = query.publisher /\ g.limit = query.limit
        /\ g.total = query.total /\ g.deleted = query.deleted /\ g.read = query.read
    BY <1>1, <1>4 DEF QuerySet
  <2> HIDE DEF g
  <2>2. /\ h \in QuerySet /\ h.buckets = query.buckets /\ h.parts = read /\ h.result = result
        /\ h.kind = query.kind /\ h.from = query.from /\ h.to = query.to
        /\ h.publisher = query.publisher /\ h.limit = query.limit
        /\ h.total = query.total /\ h.deleted = query.deleted /\ h.read = query.read
    BY <1>4, <2>1 DEF QuerySet
  <2> HIDE DEF h
  <2>3. /\ i \in QuerySet /\ i.buckets = query.buckets /\ i.parts = read /\ i.result = result
        /\ i.kind = query.kind /\ i.from = query.from /\ i.to = query.to
        /\ i.publisher = query.publisher /\ i.limit = query.limit
        /\ i.total = query.total /\ i.deleted = query.deleted /\ i.read = query.read
    BY <1>4, <2>2 DEF QuerySet
  <2>4. i.twice = twice
    BY <2>2, Zenon DEF QuerySet
  <2> HIDE DEF i
  <2>5. query'.twice = i.twice
    BY <1>1, <2>3, Zenon DEF QuerySet
  <2>6. QED
    BY <1>1, <1>4, <2>3, <2>4, <2>5 DEF QuerySet
<1> HIDE DEF g, h, i, q
<1>6. AsksProperly(query')
  BY <1>1, <1>5 DEF AsksProperly
<1>7. ASSUME query.kind = "last" PROVE LastFound'
  <2> DEFINE there == InBuckets(query.buckets)
  <2>1. Queries!Parts[query.kind] = {1} /\ query.parts = {} /\ p = 1 /\ query.result = {}
    BY <1>1, <1>7 DEF LastFound, Queries!Parts
  <2>2. phase = "end" /\ read = {1} /\ result = found /\ found = Queries!LatestOf(there, query.limit)
    BY <1>4, <1>7, <2>1 DEF read, result, found, Queries!PartOf, InBuckets
  <2>3. CountedBuckets = query.buckets /\ CountedBuckets' = query.buckets
    BY <1>1, <1>5, <2>2 DEF CountedBuckets
  <2>4. there \in SUBSET stored /\ query.limit \in Nat /\ query.total \in Nat /\ Cardinality(there) \in Nat
    <3>1. there \in SUBSET stored
      BY DEF InBuckets
    <3>2. Cardinality(there) \in Nat
      BY <3>1, FS_Subset, FS_CardinalityType DEF QueriesInv, MessagesFit
    <3>3. QED
      BY <1>1, <1>7, <3>1, <3>2, QueriesAssumption DEF AsksProperly, QuerySet
  <2>5. /\ query.limit <= Cardinality(there) => Cardinality(found) = query.limit
        /\ \A m \in there \ found : query.limit <= Cardinality(there) /\ \A n \in found : Queries!Earlier(m, n)
    BY <2>2, <2>4, LatestAreThere
  <2>6. ASSUME ~query.deleted, NEW m \in kept \ found
        PROVE  Cardinality(found) = query.limit /\ \A n \in found : Queries!Earlier(m, n)
    <3>1. CASE m \in there
      BY <2>5, <2>6, <3>1
    <3>2. CASE m \notin there
      <4>1. m.bucket \notin query.buckets /\ m \in stored
        BY <1>2, <2>6, <3>2 DEF InBuckets
      <4>2. query.total >= query.limit /\ query.total <= Cardinality(there)
        BY <1>1, <1>7, <2>3, <2>6, <4>1 DEF LastFound
      <4>3. Cardinality(found) = query.limit
        BY <2>4, <2>5, <4>2
      <4>4. ASSUME NEW n \in found PROVE Queries!Earlier(m, n)
        <5>1. n \in stored /\ n.bucket \in query.buckets
          BY <2>2, <4>4 DEF Queries!LatestOf, InBuckets
        <5>2. m.bucket < n.bucket
          BY <1>1, <1>7, <2>6, <4>1, <5>1 DEF LastFound
        <5>3. n.bucket \in InUse /\ n.bucket <= n.ts
          BY <5>1 DEF QueriesInv, MessagesFit, InUse
        <5>4. m.ts \in Nat /\ n.ts \in Nat /\ m.bucket \in Nat /\ n.bucket \in Nat
          BY <1>2, <4>1, <5>1, QueriesAssumption DEF Queries!Message, Queries!Times
        <5>5. n.bucket > m.ts
          BY <4>1, <5>2, <5>3, <5>4 DEF QueriesInv, MessagesFit
        <5>6. QED
          BY <5>3, <5>4, <5>5 DEF Queries!Earlier
      <4>5. QED
        BY <4>3, <4>4
    <3>3. QED
      BY <3>1, <3>2
  <2>7. Queries!LastAreFound'
    BY <1>2, <1>5, <2>2, <2>6, SameCardinality DEF Queries!LastAreFound
  <2>8. InBuckets(CountedBuckets)' = InBuckets(CountedBuckets)
    BY <1>2, <2>3 DEF InBuckets
  <2>9. QED
    BY <1>1, <1>2, <1>5, <1>7, <2>2, <2>7, <2>8 DEF LastFound
<1>8. ASSUME query.kind # "last" PROVE RangeFound'
  <2>1. \A m : (Queries!Asked(m)' <=> Queries!Asked(m)) /\ (Wanted(m)' <=> Wanted(m))
        /\ \A r : (Queries!Selects(r, m)' <=> Queries!Selects(r, m))
    BY <1>5 DEF Queries!Asked, Wanted, Queries!Selects
  <2>2. PastTo' <=> PastTo
    BY <1>5 DEF PastTo
  <2>3. RangeFound
    BY <1>1, <1>8
  <2>4. found = {m \in stored : m.bucket \in query.buckets /\ Wanted(m) /\ Queries!Selects(p, m)}
    BY <1>8 DEF found, Queries!PartOf, Wanted
  <2>5. ASSUME NEW m \in kept, Queries!Asked(m), Queries!Selects(p, m) PROVE m \in result
    <3>1. Wanted(m) /\ m \in stored
      BY <1>2, <2>5 DEF Queries!Asked, Wanted
    <3>2. m.bucket \in Nat /\ query.from.ts \in Nat
      BY <1>1, <1>2, <1>8, <3>1, QueriesAssumption DEF AsksProperly, Queries!Ref, Queries!Message, Queries!Times
    <3>3. m.bucket \in query.buckets
      BY <1>1, <2>3, <2>5, <3>2 DEF RangeFound
    <3>4. QED
      BY <2>4, <2>5, <3>1, <3>3 DEF result
  <2>6. \A m \in kept, r \in read : Queries!Asked(m) /\ Queries!Selects(r, m) => m \in result
    BY <2>3, <2>5 DEF RangeFound, read, result
  <2>7. \A m \in result : \E r \in read : Wanted(m) /\ Queries!Selects(r, m)
    BY <2>3, <2>4 DEF RangeFound, read, result
  <2>8. twice => PastTo
    <3>1. ASSUME ~PastTo, NEW m \in found \cap query.result PROVE FALSE
      <4>1. PICK r \in query.parts : Wanted(m) /\ Queries!Selects(r, m)
        BY <2>3, <3>1 DEF RangeFound
      <4>2. r \in Queries!Parts[query.kind] /\ Queries!Selects(p, m) /\ m \in Queries!Message
        BY <1>2, <2>3, <2>4, <3>1, <4>1 DEF RangeFound
      <4>3. r = p
        BY <1>1, <1>8, <3>1, <4>1, <4>2, PartsCover
      <4>4. QED
        BY <1>1, <4>1, <4>3
    <3>2. QED
      BY <2>3, <3>1 DEF RangeFound, twice
  <2>9. /\ query'.phase # "count" /\ query'.read = {"first", "rest"}
        /\ query'.phase = "end" => query'.parts = Queries!Parts[query'.kind]
        /\ query'.parts \subseteq Queries!Parts[query'.kind]
    BY <1>1, <1>4, <1>5, <2>3 DEF RangeFound, read
  <2>10. QED
    BY <1>2, <1>5, <2>1, <2>2, <2>3, <2>6, <2>7, <2>8, <2>9 DEF RangeFound
<1>9. QED
  BY <1>1, <1>2, <1>5, <1>6, <1>7, <1>8, ReadingKeeps

LEMMA QueriesStep == QueriesInv /\ [Queries!Next]_(Queries!storageVars) => QueriesInv'
<1> SUFFICES ASSUME QueriesInv, [Queries!Next]_(Queries!storageVars) PROVE QueriesInv'
  OBVIOUS
<1>1. CASE Queries!Tick \/ Queries!Forget
  BY <1>1, ClockAndCacheKeep
<1>2. ASSUME NEW seq \in 0..MaxSequenceNumber, NEW a \in Publishers, Queries!Store(seq, a)
      PROVE  QueriesInv'
  BY <1>2, StoringKeeps
<1>3. ASSUME NEW limit \in Limits, Queries!RequestLast(limit) PROVE QueriesInv'
  BY <1>3, LastBegins
<1>4. ASSUME NEW a \in Publishers \cup {None}, NEW from \in AskedRefs,
             Queries!RequestFrom(from, a) \/ \E to \in AskedRefs : Queries!RequestRange(from, to, a)
      PROVE  QueriesInv'
  BY <1>4, FromBegins, RangeBegins
<1>5. CASE Queries!Reads
  BY <1>5, ReadBucketsKeeps, ReadPageKeeps, CountKeeps, DoneKeeps, ReadMessagesKeeps DEF Queries!Reads
<1>6. CASE Queries!FindPotential \/ Queries!DeleterEnds
  BY <1>6, DeleterKeeps
<1>7. ASSUME NEW b \in Queries!Times, Queries!FilterExpired(b) \/ Queries!DeleteExpired(b)
      PROVE  QueriesInv'
  BY <1>7, DeleterKeeps, DeletingKeeps
<1>8. CASE UNCHANGED Queries!storageVars
  <2>1. UNCHANGED <<clock, table, stored, current, query, kept, deleter, raced>>
    BY <1>8 DEF Queries!storageVars, Queries!tables, Queries!queryVars, Queries!deleterVars
  <2>2. QuerySound'
    BY <2>1, AddingKeepsQueries DEF QueriesInv, MessagesFit
  <2>3. QED
    BY <2>1, <2>2 DEF QueriesInv, Queries!TypeOK, MessagesFit, InUse, DeleterSound, Queries!Expired
<1>9. QED
  BY <1>1, <1>2, <1>3, <1>4, <1>5, <1>6, <1>7, <1>8 DEF Queries!Next

\* A query finds what was there when it began, and nothing twice, whatever is
\* stored and deleted meanwhile (getBucketsByTimestamp, requestLast, requestFrom,
\* requestRange): for any times, limits and numbers of messages.
THEOREM QueriesFindWhatWasThere == Queries!Spec => []QueriesAreExact
<1>1. ASSUME QueriesInv PROVE Queries!QueriesAreExact
  <2> SUFFICES ASSUME query # None, query.phase = "end"
               PROVE  IF query.kind = "last" THEN Queries!LastAreFound
                      ELSE /\ {m \in kept : Queries!Asked(m)} \subseteq query.result
                           /\ \/ query.kind = "rangePublisher" /\ query.from.ts >= query.to.ts
                              \/ ~query.twice /\ \A m \in query.result : Queries!Asked(m)
    BY DEF Queries!QueriesAreExact
  <2>1. CASE query.kind = "last"
    BY <1>1, <2>1 DEF QueriesInv, QuerySound, LastFound
  <2>2. CASE query.kind # "last"
    <3>1. RangeFound /\ AsksProperly(query) /\ query \in QuerySet
          /\ kept \subseteq Queries!Message /\ query.result \subseteq Queries!Message
      BY <1>1, <2>2 DEF QueriesInv, QuerySound, Queries!TypeOK, AsksProperly, QuerySet
    <3>2. ASSUME NEW m \in kept, Queries!Asked(m) PROVE m \in query.result
      <4>1. /\ m \in stored /\ m.bucket \in Nat /\ query.from.ts \in Nat
            /\ query.read = {"first", "rest"}
        BY <1>1, <2>2, <3>1, <3>2, QueriesAssumption
        DEF QueriesInv, QuerySound, RangeFound, AsksProperly, Queries!Ref, Queries!Message, Queries!Times
      <4>2. m.bucket \in query.buckets
        BY <3>1, <3>2, <4>1 DEF RangeFound
      <4>3. query.parts = Queries!Parts[query.kind]
        BY <3>1, <4>2 DEF RangeFound
      <4>4. \E p \in query.parts : Queries!Selects(p, m)
        BY <2>2, <3>1, <3>2, <4>3, PartsCover
      <4>5. QED
        BY <3>1, <3>2, <4>4 DEF RangeFound
    <3>3. ASSUME ~PastTo, NEW m \in query.result PROVE Queries!Asked(m)
      <4>1. PICK p \in query.parts : Wanted(m) /\ Queries!Selects(p, m)
        BY <3>1, <3>3 DEF RangeFound
      <4>2. p \in Queries!Parts[query.kind] /\ m \in Queries!Message
        BY <3>1, <4>1 DEF RangeFound
      <4>3. QED
        BY <2>2, <3>1, <3>3, <4>1, <4>2, PartsCover
    <3>4. QED
      BY <2>2, <3>1, <3>2, <3>3 DEF RangeFound, PastTo
  <2>3. QED
    BY <2>1, <2>2
<1>2. QueriesInv => QueriesAreExact
  BY <1>1 DEF QueriesInv, QueriesAreExact
<1>3. QED
  BY <1>2, QueriesBegin, QueriesStep, PTL DEF Queries!Spec

\* Only what is too old is deleted, but for what came to a bucket that had been
\* found expired (_filterExpiredBuckets, _deleteExpired).
THEOREM DeletedIsExpired == Queries!Spec => OnlyExpiredIsDeleted
<1>1. ASSUME QueriesInv, [Queries!Next]_(Queries!storageVars)
      PROVE  [\A m \in stored \ stored' : Queries!Expired(m.ts) \/ m \in raced]_(Queries!storageVars)
  <2>1. ASSUME NEW b, Queries!DeleteExpired(b), NEW m \in stored \ stored'
        PROVE  Queries!Expired(m.ts) \/ m \in raced
    <3>1. deleter # None /\ m.bucket \in deleter.expired
      BY <2>1 DEF Queries!DeleteExpired, Queries!In
    <3>2. QED
      BY <1>1, <2>1, <3>1 DEF QueriesInv, DeleterSound
  <2>2. \/ stored \subseteq stored' \/ \E b : Queries!DeleteExpired(b)
    BY <1>1 DEF Queries!Next, Queries!Tick, Queries!Forget, Queries!Store, Queries!RequestLast,
           Queries!RequestFrom, Queries!RequestRange, Queries!Starts, Queries!Reads, Queries!ReadBuckets,
           Queries!ReadPage, Queries!CountMessages, Queries!ReadMessages, Queries!Advance, Queries!Done,
           Queries!FindPotential, Queries!DeleterEnds, Queries!FilterExpired, Queries!storageVars, Queries!tables
  <2>3. QED
    BY <2>1, <2>2
<1>2. QED
  BY <1>1, QueriesBegin, QueriesStep, PTL DEF Queries!Spec, OnlyExpiredIsDeleted, Queries!OnlyExpiredIsDeleted
=============================================================================
