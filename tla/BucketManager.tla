--------------------------- MODULE BucketManager ---------------------------
(***************************************************************************)
(* plugins/logStore/Bucket.ts, BucketManager.ts and the parts of           *)
(* database/CassandraDBAdapter.ts that use them: the messages of a stream  *)
(* part are divided into buckets, each known by its creation time, and a   *)
(* query looks only into the buckets its time range selects.               *)
(*                                                                         *)
(* One stream part.  The loop of checkFullBuckets takes the stream parts   *)
(* in turn and shares nothing between them.  A message that has no bucket  *)
(* yet waits in pendingStores and tries again; checkFullBuckets finds or   *)
(* creates a bucket for the earliest such message, with awaits on the      *)
(* database in between; storeBuckets writes the buckets to the table and   *)
(* drops from memory those that are written and have not been used lately. *)
(* Messages, timers and answers of the database come in any order.         *)
(***************************************************************************)
EXTENDS Integers, SequencesExt, FiniteSetsExt

CONSTANTS
    maxBucketSize, maxBucketRecords,
    Lengths,        \* the payload lengths there are
    MaxTimestamp,   \* bound: timestamps are 1..MaxTimestamp
    MaxMessages,    \* bound: messages to be stored
    MaxBuckets,     \* bound: buckets created
    MaxExpiries     \* bound: how often a bucket gets older than its keep-alive

ASSUME BucketAssumption ==
    /\ maxBucketSize \in Nat \ {0} /\ maxBucketRecords \in Nat \ {0}
    /\ Lengths \subseteq Nat \ {0}
    /\ {MaxTimestamp, MaxMessages, MaxBuckets, MaxExpiries} \subseteq Nat

VARIABLES
    messages,      \* every message given to store(), with its bucket
    minTimestamp,  \* of the stream part, or Undefined
    heap,          \* StreamPartState.buckets: bucket ids in the order of the heap's array
    buckets,       \* the buckets in memory, by id
    rows,          \* the table "bucket": its primary key is date_create
    check,         \* where checkFullBuckets is
    saving,        \* the upsertBucket calls of the running storeBuckets
    saver,         \* storeBuckets: its timer is set, it runs, or it was stopped
    created,       \* history: the dateCreate of every bucket, by id
    expiries,      \* number of expiries so far
    stopped,       \* stop() has been called
    exited         \* the process was ended by an unhandled rejection

vars == <<messages, minTimestamp, heap, buckets, rows, check, saving, saver, created,
          expiries, stopped, exited>>

Timestamps == 1..MaxTimestamp
Ids == 1..MaxBuckets
Undefined == 0
NoBucket == 0      \* the message waits in pendingStores
Dropped == -1      \* stop() has cleared its timer
NoRow == [id |-> 0, size |-> 0, records |-> 0]
Row == [id : Ids, size : Nat, records : Nat]
Bucket == [dateCreate : Timestamps, size : Nat, records : Nat,
           stored : BOOLEAN, alive : BOOLEAN]

Idle == [step |-> "timer", query |-> "last", min |-> Undefined, insertNewBucket |-> FALSE,
         found |-> NoRow, date |-> Undefined]

Init ==
    /\ messages = <<>>
    /\ minTimestamp = Undefined
    /\ heap = <<>> /\ buckets = <<>>
    /\ rows = [date \in Timestamps |-> NoRow]
    /\ check = Idle
    /\ saving = {} /\ saver = "timer"
    /\ created = <<>>
    /\ expiries = 0
    /\ stopped = FALSE
    /\ exited = FALSE

----------------------------------------------------------------------------
\* Bucket.ts

NewBucket(date, size, records) ==
    [dateCreate |-> date, size |-> size, records |-> records,
     stored |-> FALSE, alive |-> TRUE]

isAlmostFull(bucket) ==
    \/ 100 * bucket.size >= maxBucketSize * (100 - 30)
    \/ 100 * bucket.records >= maxBucketRecords * (100 - 30)

incrementBucket(bucket, size) ==
    [bucket EXCEPT !.size = @ + size, !.records = @ + 1, !.stored = FALSE, !.alive = TRUE]

\* Mutant: the operands of the heap's comparison are swapped.
isOlder(bucket, other) == bucket.dateCreate < other.dateCreate

\* The comparison of instantiateNewHeap: the youngest bucket comes first.
isYounger(bucket, other) == bucket.dateCreate > other.dateCreate

\* The heap package: the place at the end is free; while the bucket comes before the
\* one above the free place, that one moves down.  siftUp(h, bs, id)[k] is the array if
\* place k is the free one.
siftUp(h, bs, id) ==
    LET up[k \in 1 .. Len(h) + 1] ==
          IF k > 1 /\ isYounger(bs[id], bs[h[k \div 2]])
          THEN [up[k \div 2] EXCEPT ![k] = h[k \div 2]]
          ELSE [Append(h, NoBucket) EXCEPT ![k] = id]
    IN  up

HeapPush(h, bs, id) == siftUp(h, bs, id)[Len(h) + 1]

----------------------------------------------------------------------------
\* The latest bucket if the timestamp is not before it and it has room; for a
\* timestamp in the past the first bucket of the heap's array that is old enough.
findBucketId(h, bs, timestamp) ==
    LET OldEnough(id) == bs[id].dateCreate <= timestamp
        past == SelectInSeq(Tail(h), OldEnough)
    IN  CASE h = <<>> -> NoBucket
          [] h # <<>> /\ OldEnough(h[1]) ->
                IF isAlmostFull(bs[h[1]]) THEN NoBucket ELSE h[1]
          [] OTHER -> IF past = 0 THEN NoBucket ELSE Tail(h)[past]

\* Mutant: only the first message of the stream part notes its timestamp.
noteFirstTimestamp(timestamp) ==
    minTimestamp' = IF heap = <<>> THEN timestamp ELSE minTimestamp

\* What getBucketId does if it finds no bucket.
noteTimestamp(timestamp) ==
    minTimestamp' = IF minTimestamp = Undefined THEN timestamp
                    ELSE Min({minTimestamp, timestamp})

\* store(), first called or called again by the timer of pendingStores, for message m.
\* The record goes to the BatchManager, or its timer is set.
StoreMessage(m, message) ==
    LET id == findBucketId(heap, buckets, message.timestamp)
    IN  /\ messages' = [k \in 1..Max({m, Len(messages)}) |->
                          IF k = m THEN [message EXCEPT !.bucket = id] ELSE messages[k]]
        /\ \/ /\ id # NoBucket
              /\ buckets' = [buckets EXCEPT ![id] = incrementBucket(@, message.length)]
              /\ UNCHANGED minTimestamp
           \/ /\ id = NoBucket
              /\ noteTimestamp(message.timestamp)
              /\ UNCHANGED buckets

store(timestamp, length) ==
    /\ ~exited /\ Len(messages) < MaxMessages
    /\ StoreMessage(Len(messages) + 1,
                    [timestamp |-> timestamp, length |-> length, bucket |-> NoBucket])
    /\ UNCHANGED <<heap, rows, check, saving, saver, created, expiries, stopped, exited>>

RetryStore(m) ==
    /\ ~exited /\ messages[m].bucket = NoBucket
    /\ StoreMessage(m, messages[m])
    /\ UNCHANGED <<heap, rows, check, saving, saver, created, expiries, stopped, exited>>

----------------------------------------------------------------------------
\* getLastBuckets with limit 1: the latest row, for "before" of those up to the
\* timestamp.
LastRow(query, timestamp) ==
    LET dates == {d \in Timestamps : rows[d] # NoRow
                                     /\ (query = "before" => d <= timestamp)}
    IN  IF dates = {} THEN Undefined ELSE Max(dates)

\* The timer of checkFullBuckets goes off; without a minTimestamp nothing happens.
checkFullBuckets ==
    /\ ~exited /\ check.step = "timer" /\ minTimestamp # Undefined
    /\ LET full == heap # <<>> /\ isAlmostFull(buckets[heap[1]])
       IN  \/ /\ heap = <<>> \/ full
              /\ check' = [Idle EXCEPT !.step = "asking", !.min = minTimestamp,
                                       !.insertNewBucket = full]
           \/ /\ heap # <<>> /\ ~full
              /\ findBucketId(heap, buckets, minTimestamp) = NoBucket
              /\ check' = [Idle EXCEPT !.step = "asking", !.query = "before",
                                       !.min = minTimestamp]
    /\ UNCHANGED <<messages, minTimestamp, heap, buckets, rows, saving, saver, created,
                   expiries, stopped, exited>>

\* The database looks the bucket up; its answer is on the way.
LookUp ==
    /\ ~exited /\ check.step = "asking"
    /\ LET date == LastRow(check.query, check.min)
       IN  check' = [check EXCEPT !.step = "answered", !.date = date,
                        !.found = IF date = Undefined THEN NoRow ELSE rows[date]]
    /\ UNCHANGED <<messages, minTimestamp, heap, buckets, rows, saving, saver, created,
                   expiries, stopped, exited>>

\* Nothing catches a failure: the process ends.
LookUpFailed ==
    /\ ~exited /\ check.step = "asking"
    /\ exited' = TRUE
    /\ UNCHANGED <<messages, minTimestamp, heap, buckets, rows, check, saving, saver,
                   created, expiries, stopped>>

\* this.buckets[id] = bucket
put(bs, id, bucket) == [other \in DOMAIN bs \cup {id} |-> IF other = id THEN bucket ELSE bs[other]]

\* checkFoundBuckets and what follows it, up to the next await or the next timer.
\* A bucket that is not in memory is taken; if there is none, or the latest bucket
\* is almost full, one is created at the timestamp that was read before the await.
Resume ==
    /\ ~exited /\ check.step = "answered"
    /\ minTimestamp' = Undefined
    /\ LET found   == check.found
           taken   == found # NoRow /\ found.id \notin DOMAIN buckets
           insert  == check.insertNewBucket \/ ~taken
           newId   == Len(created) + 1
           bs1 == IF taken
                  THEN put(buckets, found.id, NewBucket(check.date, found.size, found.records))
                  ELSE buckets
           h1  == IF taken THEN HeapPush(heap, bs1, found.id) ELSE heap
           bs2 == put(bs1, newId, NewBucket(check.min, 0, 0))
       IN  \/ /\ insert /\ newId <= MaxBuckets
              /\ buckets' = bs2
              /\ heap' = HeapPush(h1, bs2, newId)
              /\ created' = Append(created, check.min)
              /\ check' = Idle
           \/ /\ ~insert
              /\ buckets' = bs1 /\ heap' = h1
              /\ check' = IF check.query = "last"
                                /\ findBucketId(h1, bs1, check.min) = NoBucket
                          THEN [check EXCEPT !.step = "asking", !.query = "before",
                                             !.found = NoRow, !.date = Undefined]
                          ELSE Idle
              /\ UNCHANGED created
    /\ UNCHANGED <<messages, rows, saving, saver, expiries, stopped, exited>>

----------------------------------------------------------------------------
Calls == [id : Ids, dateCreate : Timestamps, size : Nat, records : Nat,
          outcome : {"sent", "fulfilled", "rejected"}]

\* The timer of storeBuckets goes off.
storeBuckets ==
    /\ ~exited /\ saver = "timer"
    /\ saver' = "running"
    /\ saving' = {[id |-> id, dateCreate |-> buckets[id].dateCreate,
                   size |-> buckets[id].size, records |-> buckets[id].records,
                   outcome |-> "sent"] : id \in {i \in DOMAIN buckets : ~buckets[i].stored}}
    /\ UNCHANGED <<messages, minTimestamp, heap, buckets, rows, check, created, expiries,
                   stopped, exited>>

\* upsertBucket: the row of this creation time, whichever bucket it belonged to.
UpsertRow(call) ==
    rows' = [rows EXCEPT ![call.dateCreate] =
                [id |-> call.id, size |-> call.size, records |-> call.records]]

Settle(call, outcome) ==
    /\ ~exited /\ call.outcome = "sent"
    /\ saving' = (saving \ {call}) \cup {[call EXCEPT !.outcome = outcome]}
    /\ UNCHANGED <<messages, minTimestamp, heap, buckets, check, saver, created, expiries,
                   stopped, exited>>

UpsertFulfilled(call) == UpsertRow(call) /\ Settle(call, "fulfilled")

\* It may have been written nevertheless.
UpsertRejected(call) ==
    /\ UpsertRow(call) \/ UNCHANGED rows
    /\ Settle(call, "rejected")

\* Mutant: whatever was added in the meantime.
markAllStored ==
    [id \in DOMAIN buckets |->
        IF \E call \in saving : call.id = id /\ call.outcome = "fulfilled"
        THEN [buckets[id] EXCEPT !.stored = TRUE] ELSE buckets[id]]

\* A bucket that was added to in the meantime is not stored.
markStored ==
    [id \in DOMAIN buckets |->
        IF \E call \in saving : /\ call.id = id /\ call.outcome = "fulfilled"
                                /\ call.records = buckets[id].records
        THEN [buckets[id] EXCEPT !.stored = TRUE] ELSE buckets[id]]

\* Mutant: the heap is left as it is.
removeFromIndex(h, bs, id) == h

\* The heap that is put together again, in the order of its array, without the bucket:
\* rebuild(h, bs, id)[n] after n elements.
rebuild(h, bs, id) ==
    LET rebuilt[n \in 0 .. Len(h)] ==
          IF n = 0 THEN <<>>
          ELSE IF h[n] = id THEN rebuilt[n - 1]
               ELSE HeapPush(rebuilt[n - 1], bs, h[n])
    IN  rebuilt

removeBucket(h, bs, id) == rebuild(h, bs, id)[Len(h)]

\* bucketsToRemove.forEach: the heap after n removals.
removeBuckets(h, bs, order) ==
    LET removed[n \in 0 .. Len(order)] ==
          IF n = 0 THEN h ELSE removeBucket(removed[n - 1], bs, order[n])
    IN  removed

\* Mutant: what is not written goes too.
isUnused(bucket) == ~bucket.alive

isRemovable(bucket) == bucket.stored /\ ~bucket.alive

\* All calls have settled; the order of removal is that of the objects' keys.
StoreBucketsSettled ==
    /\ ~exited /\ saver = "running"
    /\ \A call \in saving : call.outcome # "sent"
    /\ LET bs   == markStored
           gone == {id \in DOMAIN bs : isRemovable(bs[id])}
       IN  /\ \E order \in SetToSeqs(gone) :
                heap' = removeBuckets(heap, bs, order)[Len(order)]
           /\ buckets' = [id \in DOMAIN bs \ gone |-> bs[id]]
    /\ saving' = {}
    /\ saver' = "timer"
    /\ UNCHANGED <<messages, minTimestamp, rows, check, created, expiries, stopped, exited>>

\* A bucket has not been used for bucketKeepAliveSeconds.
Expire(id) ==
    /\ ~exited /\ expiries < MaxExpiries
    /\ buckets[id].alive
    /\ buckets' = [buckets EXCEPT ![id].alive = FALSE]
    /\ expiries' = expiries + 1
    /\ UNCHANGED <<messages, minTimestamp, heap, rows, check, saving, saver, created,
                   stopped, exited>>

\* Timers that are set are cleared.  A loop that is waiting for the database at this
\* moment sets its timer again afterwards.
stop ==
    /\ ~exited /\ ~stopped
    /\ stopped' = TRUE
    /\ messages' = [m \in DOMAIN messages |->
                      IF messages[m].bucket = NoBucket
                      THEN [messages[m] EXCEPT !.bucket = Dropped] ELSE messages[m]]
    /\ check' = IF check.step = "timer" THEN [Idle EXCEPT !.step = "stopped"] ELSE check
    /\ saver' = IF saver = "timer" THEN "stopped" ELSE saver
    /\ UNCHANGED <<minTimestamp, heap, buckets, rows, saving, created, expiries, exited>>

----------------------------------------------------------------------------
Retries == \E m \in DOMAIN messages : RetryStore(m)
Checking == checkFullBuckets \/ LookUp \/ LookUpFailed \/ Resume
Upserts == \E call \in saving : UpsertFulfilled(call) \/ UpsertRejected(call)

Next ==
    \/ \E timestamp \in Timestamps, length \in Lengths : store(timestamp, length)
    \/ Retries
    \/ Checking
    \/ storeBuckets \/ Upserts \/ StoreBucketsSettled
    \/ \E id \in DOMAIN buckets : Expire(id)
    \/ stop

Spec == Init /\ [][Next]_vars

\* The timers of pendingStores and checkFullBuckets go off, and the driver answers
\* every look-up.
FairSpec == Spec /\ WF_vars(Retries) /\ WF_vars(Checking)

----------------------------------------------------------------------------
Bucketed == {m \in DOMAIN messages : messages[m].bucket \in Ids}

TypeOK ==
    /\ messages \in Seq([timestamp : Timestamps, length : Lengths,
                         bucket : Ids \cup {NoBucket, Dropped}])
    /\ minTimestamp \in Timestamps \cup {Undefined}
    /\ DOMAIN buckets \subseteq 1..Len(created)
    /\ \A id \in DOMAIN buckets : buckets[id] \in Bucket
    /\ heap \in Seq(DOMAIN buckets)
    /\ rows \in [Timestamps -> Row \cup {NoRow}]
    /\ check \in [step : {"timer", "asking", "answered", "stopped"}, query : {"last", "before"},
                  min : Timestamps \cup {Undefined}, insertNewBucket : BOOLEAN,
                  found : Row \cup {NoRow}, date : Timestamps \cup {Undefined}]
    /\ saving \subseteq Calls
    /\ saver \in {"timer", "running", "stopped"}
    /\ created \in Seq(Timestamps) /\ Len(created) <= MaxBuckets
    /\ expiries \in 0..MaxExpiries
    /\ stopped \in BOOLEAN /\ exited \in BOOLEAN

\* The heap and the index of buckets hold the same buckets, each once, and the heap's
\* first is a latest one, whatever is taken from the database, created or removed
\* around the awaits (BucketManager.ts 200-261, 322-347).
HeapMirrorsBuckets ==
    /\ ToSet(heap) = DOMAIN buckets
    /\ IsInjective(heap)
    /\ \A id \in DOMAIN buckets : buckets[id].dateCreate <= buckets[heap[1]].dateCreate

\* No other bucket was created at its time, to share its row.
NoTwin(id) == \A other \in DOMAIN created : created[other] = created[id] => other = id

NoTwins == \A id \in DOMAIN created : NoTwin(id)

\* A bucket marked stored is in the table as it is in memory, although messages are
\* added to it while it is being written (BucketManager.ts 280-307, Bucket.ts 83-107).
StoredMeansSaved ==
    \A id \in DOMAIN buckets :
        buckets[id].stored /\ NoTwin(id) =>
            rows[buckets[id].dateCreate] =
                [id |-> id, size |-> buckets[id].size, records |-> buckets[id].records]

\* getBucketsByTimestamp: the last bucket created up to the start of the range and
\* those created within it.
getBucketsByTimestamp(from, to) ==
    LET first == {d \in Timestamps : rows[d] # NoRow /\ d <= from}
        rest  == {d \in Timestamps : rows[d] # NoRow /\ from < d /\ d <= to}
    IN  {rows[d].id : d \in rest \cup (IF first = {} THEN {} ELSE {Max(first)})}

\* No message is put where a query of all the time up to it would not look: its
\* bucket is still in memory, to be written, or selected by every range that starts
\* no later than the bucket and ends no earlier than the message
\* (BucketManager.ts 144-181, 291-314, CassandraDBAdapter.ts 757-807).
MessagesAreFindable ==
    \A m \in Bucketed :
        LET id == messages[m].bucket
        IN  NoTwin(id) =>
              \/ id \in DOMAIN buckets
              \/ \A from \in 1..created[id], to \in messages[m].timestamp..MaxTimestamp :
                    id \in getBucketsByTimestamp(from, to)

\* Every message gets a bucket in the end: the timestamp it waits for is not lost when
\* others are noted or forgotten around the awaits (BucketManager.ts 91-123, 183-273,
\* CassandraDBAdapter.ts 132-178).  With two buckets of one creation time it may
\* not: the heap leaves the full one first, and a new one is created at every check.
EventuallyInBucket ==
    <>[](\/ \A m \in DOMAIN messages : messages[m].bucket # NoBucket
         \/ stopped \/ exited \/ ~NoTwins)

\* "if fromTimestamp is defined, the first data point are in a some earlier bucket
\* (bucket.dateCreated<=fromTimestamp as data within one millisecond won't be divided
\* to multiple buckets)" (CassandraDBAdapter.ts 764-765): once all buckets are written,
\* a range that contains a message selects its bucket.
RangesFindMessages ==
    NoTwins /\ (\A id \in DOMAIN buckets : buckets[id].stored) =>
        \A m \in Bucketed :
            \A from \in 1..messages[m].timestamp, to \in messages[m].timestamp..MaxTimestamp :
                messages[m].bucket \in getBucketsByTimestamp(from, to)
=============================================================================
