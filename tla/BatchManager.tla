---------------------------- MODULE BatchManager ----------------------------
(***************************************************************************)
(* plugins/logStore/BatchManager.ts: the records of each bucket are        *)
(* gathered in a batch, which is inserted into Cassandra when it is full   *)
(* or old enough, and tried again a bounded number of times if that fails. *)
(*                                                                         *)
(* Callbacks run to completion; timers, the answers of Cassandra, stores   *)
(* and stop() come in any order between them.  Each call of store brings a *)
(* record of its own, numbered by the calls.                               *)
(***************************************************************************)
EXTENDS Batch

CONSTANTS
    Buckets,
    Lengths,        \* the payload lengths there are
    MaxRecords      \* bound: calls of store

ASSUME BatchManagerAssumption ==
    /\ Lengths \subseteq Nat
    /\ MaxRecords \in Nat

VARIABLES
    accepted,        \* calls of store so far
    batch,           \* every batch there has been
    batches,         \* bucket -> its open batch, or None
    pendingBatches,  \* the batches on their way to the database
    inserting,       \* running cassandraClient.batch calls: batch and records
    stored,          \* the records in the database
    acknowledged,    \* the records whose doneCb has been called
    dropped,         \* the records given up, by max retries or by stop
    stopped,         \* stop() has been called
    exited           \* the process was ended by an unhandled error

vars == <<accepted, batch, batches, pendingBatches, inserting, stored, acknowledged,
          dropped, stopped, exited>>

Records == 1..MaxRecords
BatchIds == 1..MaxRecords   \* no batch is created without a record
None == 0

Init ==
    /\ accepted = 0
    /\ batch = [id \in BatchIds |-> Absent]
    /\ batches = [bucketId \in Buckets |-> None]
    /\ pendingBatches = {}
    /\ inserting = {}
    /\ stored = {} /\ acknowledged = {} /\ dropped = {}
    /\ stopped = FALSE
    /\ exited = FALSE

----------------------------------------------------------------------------
\* Mutant: the locked batch is still the one records are added to.
moveFullBatchLate(bucketId, id) ==
    /\ pendingBatches' = pendingBatches \cup {id}
    /\ UNCHANGED batches

\* The 'locked' listener, which lock() runs before it returns.
moveFullBatch(bucketId, id) ==
    /\ pendingBatches' = pendingBatches \cup {id}
    /\ batches' = [batches EXCEPT ![bucketId] = None]

\* A batch of its own is created for the record.
StoreInNewBatch(bucketId, record, length, before) ==
    \E id \in BatchIds :
        /\ before[id] = Absent
        /\ \A other \in BatchIds : other < id => before[other] # Absent
        /\ batch' = [before EXCEPT ![id] = push(NewBatch, record, length)]
        /\ batches' = [batches EXCEPT ![bucketId] = id]

store(bucketId, length) ==
    /\ ~exited /\ accepted < MaxRecords
    /\ accepted' = accepted + 1
    /\ LET id     == batches[bucketId]
           record == accepted + 1
       IN  \/ /\ id # None /\ ~isFull(batch[id])
              /\ batch' = [batch EXCEPT ![id] = push(@, record, length)]
              /\ UNCHANGED <<batches, pendingBatches>>
           \/ /\ id # None /\ isFull(batch[id])
              /\ pendingBatches' = pendingBatches \cup {id}
              /\ StoreInNewBatch(bucketId, record, length,
                    [batch EXCEPT ![id] = scheduleInsert(lock(@))])
           \/ /\ id = None
              /\ StoreInNewBatch(bucketId, record, length, batch)
              /\ UNCHANGED pendingBatches
    /\ UNCHANGED <<inserting, stored, acknowledged, dropped, stopped, exited>>

\* The batch is closeTimeout old.  Only an open batch has this timer: lock() and
\* clear() stop it.
CloseTimeout(bucketId) ==
    /\ ~exited
    /\ batches[bucketId] # None
    /\ LET id == batches[bucketId]
       IN  /\ batch[id].timeout = "close"
           /\ batch' = [batch EXCEPT ![id] = scheduleInsert(lock(@))]
           /\ moveFullBatch(bucketId, id)
    /\ UNCHANGED <<accepted, inserting, stored, acknowledged, dropped, stopped, exited>>

\* The batch becomes pending and insert() runs up to its await.  The batch is
\* looked up again: if the manager has been stopped it is gone, and the TypeError
\* leaves insert() through its own catch, as an unhandled rejection.
InsertTimeout(id) ==
    /\ ~exited
    /\ batch[id].timeout = "insert"
    /\ batch' = [batch EXCEPT ![id] = Pending(@)]
    /\ IF id \in pendingBatches
       THEN /\ inserting' = inserting \cup {[id |-> id, records |-> batch[id].records]}
            /\ UNCHANGED exited
       ELSE exited' = TRUE /\ UNCHANGED inserting
    /\ UNCHANGED <<accepted, batches, pendingBatches, stored, acknowledged, dropped,
                   stopped>>

InsertSucceeded(call) ==
    /\ ~exited /\ call \in inserting
    /\ inserting' = inserting \ {call}
    /\ stored' = stored \cup call.records
    /\ acknowledged' = acknowledged \cup batch[call.id].doneCbs
    /\ batch' = [batch EXCEPT ![call.id] = clear(done(@))]
    /\ pendingBatches' = pendingBatches \ {call.id}
    /\ UNCHANGED <<accepted, batches, dropped, stopped, exited>>

\* What the catch of insert() does: try again later, or give up.
RetryOrDrop(call) ==
    \/ /\ ~reachedMaxRetries(batch[call.id])
       /\ batch' = [batch EXCEPT ![call.id] = scheduleInsert(@)]
       /\ UNCHANGED <<pendingBatches, dropped>>
    \/ /\ reachedMaxRetries(batch[call.id])
       /\ dropped' = dropped \cup batch[call.id].records
       /\ batch' = [batch EXCEPT ![call.id] = clear(@)]
       /\ pendingBatches' = pendingBatches \ {call.id}

\* Mutant: the callbacks are called however the last attempt ends.
InsertFailedDone(call) ==
    /\ ~exited /\ call \in inserting
    /\ inserting' = inserting \ {call}
    /\ acknowledged' = IF reachedMaxRetries(batch[call.id])
                       THEN acknowledged \cup batch[call.id].doneCbs ELSE acknowledged
    /\ RetryOrDrop(call)
    /\ UNCHANGED <<accepted, batches, stored, stopped, exited>>

\* The call fails; the database may still have taken the records (a timeout).
InsertFailed(call) ==
    /\ ~exited /\ call \in inserting
    /\ inserting' = inserting \ {call}
    /\ stored' \in {stored, stored \cup call.records}
    /\ RetryOrDrop(call)
    /\ UNCHANGED <<accepted, batches, acknowledged, stopped, exited>>

\* The batches stop() clears.
Live == pendingBatches \cup ({batches[bucketId] : bucketId \in Buckets} \ {None})

stop ==
    /\ ~exited /\ ~stopped
    /\ stopped' = TRUE
    /\ dropped' = dropped \cup UNION {batch[id].records : id \in Live}
    /\ batch' = [id \in BatchIds |-> IF id \in Live THEN clear(batch[id]) ELSE batch[id]]
    /\ batches' = [bucketId \in Buckets |-> None]
    /\ pendingBatches' = {}
    /\ UNCHANGED <<accepted, inserting, stored, acknowledged, exited>>

----------------------------------------------------------------------------
Answered == \E call \in inserting : InsertSucceeded(call) \/ InsertFailed(call)

Timers ==
    \/ \E bucketId \in Buckets : CloseTimeout(bucketId)
    \/ \E id \in BatchIds : InsertTimeout(id)

Next ==
    \/ \E bucketId \in Buckets, length \in Lengths : store(bucketId, length)
    \/ Timers
    \/ Answered
    \/ stop

Spec == Init /\ [][Next]_vars

\* Timers go off, and the driver answers every call, with a result or an error.
FairSpec == Spec /\ WF_vars(Timers) /\ WF_vars(Answered)

----------------------------------------------------------------------------
TypeOK ==
    /\ accepted \in 0..MaxRecords
    /\ batch \in [BatchIds -> Batches(Records)]
    /\ batches \in [Buckets -> BatchIds \cup {None}]
    /\ pendingBatches \subseteq BatchIds
    /\ inserting \subseteq [id : BatchIds, records : SUBSET Records]
    /\ stored \subseteq Records
    /\ acknowledged \subseteq Records
    /\ dropped \subseteq Records
    /\ stopped \in BOOLEAN
    /\ exited \in BOOLEAN

\* A batch that will go on by itself: its timer runs or its insert is under way.
Underway(id) ==
    \/ batch[id].timeout # "none"
    \/ \E call \in inserting : call.id = id

\* No record is lost on the way, while stores, timers, answers and stop()
\* interleave: each one is in the database, or given up, or in a batch the
\* manager still knows and that will go on by itself (BatchManager.ts 67-108,
\* 135-157).
NothingLost ==
    \A r \in 1..accepted :
        \/ r \in stored \/ r \in dropped
        \/ \E id \in Live : r \in batch[id].records /\ Underway(id)

\* A doneCb is called only for a record that is in the database: the promise of
\* store resolves for nothing that can still be lost, stop() or not
\* (BatchManager.ts 130-136).
AcknowledgedIsStored == acknowledged \subseteq stored

\* A batch goes to the database with at most maxRecordCount records, and is over
\* maxSize by less than the longest record there is (Batch.ts 150-154, BatchManager.ts 70-91).
BatchesAreBounded ==
    \A id \in BatchIds :
        /\ Cardinality(batch[id].records) <= maxRecordCount
        /\ \E length \in Lengths \cup {0} : batch[id].size < maxSize + length

\* A record is in one batch only, and a batch in one insert at a time: no record
\* is sent twice but by a retry.
OneWayToTheDatabase ==
    /\ \A i, j \in BatchIds : batch[i].records \cap batch[j].records # {} => i = j
    /\ \A c, d \in inserting : c.id = d.id => c = d
    /\ \A c \in inserting : batch[c.id].timeout = "none"

\* Each record ends up in the database or given up, however often its batch
\* fails: the retries come to an end (Batch.ts 122-127, BatchManager.ts 145-157).
EventuallySettled ==
    \A r \in Records : (r <= accepted) ~> (r \in stored \cup dropped \/ exited)
=============================================================================
