------------------------- MODULE BatchManagerProofs -------------------------
(***************************************************************************)
(* Proofs about BatchManager: the types, the single way of a record to the *)
(* database, that none is lost and that only stored ones are acknowledged, *)
(* and the bounds of a batch, for any buckets, lengths, limits and number  *)
(* of records.                                                             *)
(***************************************************************************)
EXTENDS BatchManager, FiniteSetTheorems, TLAPS

\* The open batch of a bucket: its close timer runs and its callbacks wait.
OpenOK ==
    \A bucketId \in Buckets : batches[bucketId] # None =>
        /\ batch[batches[bucketId]].state = "opened"
        /\ batch[batches[bucketId]].timeout = "close"
        /\ batch[batches[bucketId]].doneCbs = batch[batches[bucketId]].records
        /\ \A other \in Buckets : batches[other] = batches[bucketId] => other = bucketId

\* A pending batch waits for its timer or for an answer, and so do its callbacks.
PendingOK ==
    \A id \in pendingBatches :
        /\ batch[id].state \in {"locked", "pending"}
        /\ batch[id].doneCbs = batch[id].records
        /\ batch[id].timeout = "insert" \/ \E call \in inserting : call.id = id

\* A running insert has the records of exactly the callbacks that wait, also when
\* stop() has cleared the batch.
CallsOK ==
    \A call \in inserting :
        /\ batch[call.id].state \in {"pending", "inserted"}
        /\ batch[call.id].timeout = "none"
        /\ batch[call.id].doneCbs = call.records
        /\ \A other \in inserting : other.id = call.id => other = call

\* The records of the batches: accepted ones, each in one batch.
RecordsOK ==
    /\ \A id \in BatchIds : batch[id].records \subseteq 1..accepted
    /\ \A i, j \in BatchIds : batch[i].records \cap batch[j].records # {} => i = j

\* NothingLost without its second half, which PendingOK and OpenOK give.
Kept ==
    \A r \in 1..accepted :
        r \in stored \/ r \in dropped \/ \E id \in Live : r \in batch[id].records

IInv ==
    /\ TypeOK /\ OpenOK /\ PendingOK /\ CallsOK /\ RecordsOK /\ Kept
    /\ AcknowledgedIsStored

USE DEF None

----------------------------------------------------------------------------
\* What the methods of a batch return.  push().
LEMMA PushFields ==
    ASSUME NEW b \in Batches(Records), NEW record \in Records, NEW length \in Nat
    PROVE  /\ push(b, record, length) \in Batches(Records)
           /\ push(b, record, length).records = b.records \cup {record}
           /\ push(b, record, length).doneCbs = b.doneCbs \cup {record}
           /\ push(b, record, length).state = b.state
           /\ push(b, record, length).timeout = b.timeout
<1>1. ASSUME NEW r \in SUBSET Records, NEW d \in SUBSET Records, NEW n \in Nat
      PROVE  [b EXCEPT !.records = r, !.size = n, !.doneCbs = d] \in Batches(Records)
  BY DEF Batches
<1>2. /\ b.records \cup {record} \in SUBSET Records
      /\ b.doneCbs \cup {record} \in SUBSET Records
      /\ b.size + length \in Nat
  BY DEF Batches
<1>3. push(b, record, length) \in Batches(Records)
  BY <1>1, <1>2 DEF push
<1>4. /\ push(b, record, length).records = b.records \cup {record}
      /\ push(b, record, length).doneCbs = b.doneCbs \cup {record}
      /\ push(b, record, length).state = b.state
      /\ push(b, record, length).timeout = b.timeout
  BY DEF Batches, push
<1> QED
  BY <1>3, <1>4

\* The constructor.
LEMMA NewBatchFields ==
    /\ Absent \in Batches(Records) /\ Absent.state = "absent" /\ Absent.records = {}
    /\ NewBatch \in Batches(Records)
    /\ NewBatch.records = {} /\ NewBatch.doneCbs = {}
    /\ NewBatch.state = "opened" /\ NewBatch.timeout = "close"
<1>1. Absent \in Batches(Records)
  BY BatchAssumption DEF Absent, Batches, States
<1>2. Absent.state = "absent" /\ Absent.records = {} /\ Absent.doneCbs = {}
  BY DEF Absent
<1>3. /\ NewBatch \in Batches(Records)
      /\ NewBatch.records = Absent.records /\ NewBatch.doneCbs = Absent.doneCbs
      /\ NewBatch.state = "opened" /\ NewBatch.timeout = "close"
  BY <1>1 DEF NewBatch, Batches, States
<1> QED
  BY <1>1, <1>2, <1>3

\* lock() and the scheduleInsert() that follows it.
LEMMA LockFields ==
    ASSUME NEW b \in Batches(Records)
    PROVE  LET c == scheduleInsert(lock(b)) IN
           /\ c \in Batches(Records)
           /\ c.records = b.records /\ c.doneCbs = b.doneCbs
           /\ c.state = "locked" /\ c.timeout = "insert"
BY DEF Batches, States, lock, scheduleInsert

\* scheduleInsert().
LEMMA ScheduleFields ==
    ASSUME NEW b \in Batches(Records)
    PROVE  LET c == scheduleInsert(b) IN
           /\ c \in Batches(Records)
           /\ c.records = b.records /\ c.doneCbs = b.doneCbs
           /\ c.state = b.state /\ c.timeout = "insert"
BY DEF Batches, States, scheduleInsert

\* The timer of scheduleInsert().
LEMMA PendingFields ==
    ASSUME NEW b \in Batches(Records)
    PROVE  LET c == Pending(b) IN
           /\ c \in Batches(Records)
           /\ c.records = b.records /\ c.doneCbs = b.doneCbs
           /\ c.state = "pending" /\ c.timeout = "none"
<1>1. ASSUME NEW n \in 0..maxRetries
      PROVE  [b EXCEPT !.timeout = "none", !.state = "pending", !.retries = n]
                \in Batches(Records)
  BY DEF Batches, States
<1>2. (IF b.retries < maxRetries THEN b.retries + 1 ELSE b.retries) \in 0..maxRetries
  BY BatchAssumption DEF Batches
<1>3. Pending(b) \in Batches(Records)
  BY <1>1, <1>2 DEF Pending
<1>4. /\ Pending(b).records = b.records /\ Pending(b).doneCbs = b.doneCbs
      /\ Pending(b).state = "pending" /\ Pending(b).timeout = "none"
  BY DEF Batches, Pending
<1> QED
  BY <1>3, <1>4

\* clear().
LEMMA ClearFields ==
    ASSUME NEW b \in Batches(Records)
    PROVE  LET c == clear(b) IN
           /\ c \in Batches(Records)
           /\ c.records = {} /\ c.doneCbs = b.doneCbs
           /\ c.state = "inserted" /\ c.timeout = "none"
BY DEF Batches, States, clear

\* done() and clear().
LEMMA DoneFields ==
    ASSUME NEW b \in Batches(Records)
    PROVE  LET c == clear(done(b)) IN
           /\ c \in Batches(Records) /\ c.records = {}
           /\ c.state = "inserted" /\ c.timeout = "none"
BY DEF Batches, States, clear, done

----------------------------------------------------------------------------
\* What the invariant says of the batches at hand: an open batch is not pending and
\* has no insert under way; an absent one is neither open nor pending.
LEMMA Apart ==
    ASSUME IInv
    PROVE  /\ \A bucketId \in Buckets : batches[bucketId] # None =>
                /\ batches[bucketId] \in BatchIds
                /\ batches[bucketId] \notin pendingBatches
                /\ \A call \in inserting : call.id # batches[bucketId]
           /\ \A id \in BatchIds : batch[id] = Absent =>
                /\ id \notin pendingBatches
                /\ \A bucketId \in Buckets : batches[bucketId] # id
                /\ \A call \in inserting : call.id # id
<1>1. \A bucketId \in Buckets : batches[bucketId] # None =>
                /\ batches[bucketId] \in BatchIds
                /\ batches[bucketId] \notin pendingBatches
                /\ \A call \in inserting : call.id # batches[bucketId]
  BY DEF IInv, TypeOK, OpenOK, PendingOK, CallsOK
<1>2. 0 \notin BatchIds
  BY BatchManagerAssumption DEF BatchIds
<1>3. ASSUME NEW id \in BatchIds, batch[id] = Absent
      PROVE  /\ id \notin pendingBatches
             /\ \A bucketId \in Buckets : batches[bucketId] # id
             /\ \A call \in inserting : call.id # id
  <2>1. batch[id].state = "absent"
    BY <1>3 DEF Absent
  <2>2. id # None
    BY <1>2
  <2> QED
    BY <2>1, <2>2 DEF IInv, OpenOK, PendingOK, CallsOK
<1> QED
  BY <1>1, <1>3

\* Init establishes the invariant.
LEMMA InitIInv == Init => IInv
<1> SUFFICES ASSUME Init PROVE IInv
  OBVIOUS
<1>1. Absent \in Batches(Records)
  BY NewBatchFields
<1>2. TypeOK
  <2>1. accepted \in 0..MaxRecords
    BY BatchManagerAssumption DEF Init
  <2>2. batch \in [BatchIds -> Batches(Records)]
    BY <1>1 DEF Init
  <2> QED
    BY <2>1, <2>2 DEF Init, TypeOK
<1>3. RecordsOK
  BY DEF Init, RecordsOK, Absent
<1>4. Kept
  BY DEF Init, Kept
<1> QED
  BY <1>2, <1>3, <1>4 DEF Init, IInv, OpenOK, PendingOK, CallsOK, AcknowledgedIsStored

----------------------------------------------------------------------------
\* A record added to the open batch of its bucket.
LEMMA StoreOpenStep ==
    ASSUME IInv, NEW bucketId \in Buckets, NEW length \in Lengths,
           batches[bucketId] # None, accepted < MaxRecords,
           accepted' = accepted + 1,
           batch' = [batch EXCEPT ![batches[bucketId]] = push(@, accepted + 1, length)],
           UNCHANGED <<batches, pendingBatches, inserting, stored, acknowledged, dropped,
                       stopped, exited>>
    PROVE  IInv'
<1> DEFINE id == batches[bucketId]
           record == accepted + 1
           new == push(batch[id], record, length)
<1>1. /\ id \in BatchIds /\ id \notin pendingBatches
      /\ \A call \in inserting : call.id # id
  BY Apart
<1>2. /\ accepted \in Nat /\ record \in Records /\ record \notin 1..accepted
      /\ 1..accepted' = (1..accepted) \cup {record}
      /\ accepted' \in 0..MaxRecords /\ length \in Nat
  BY BatchManagerAssumption DEF IInv, TypeOK, Records
<1>3. /\ new \in Batches(Records)
      /\ new.records = batch[id].records \cup {record}
      /\ new.doneCbs = batch[id].doneCbs \cup {record}
      /\ new.state = batch[id].state /\ new.timeout = batch[id].timeout
  BY <1>1, <1>2, PushFields DEF IInv, TypeOK
<1>4. /\ batch'[id] = new
      /\ \A other \in BatchIds : other # id => batch'[other] = batch[other]
      /\ batch' \in [BatchIds -> Batches(Records)]
  BY <1>1, <1>3 DEF IInv, TypeOK
<1> HIDE DEF new, record, id
<1>5. TypeOK'
  BY <1>2, <1>4 DEF IInv, TypeOK
<1>6. OpenOK'
  <2> SUFFICES ASSUME NEW b \in Buckets, batches[b] # None
               PROVE  /\ batch'[batches[b]].state = "opened"
                      /\ batch'[batches[b]].timeout = "close"
                      /\ batch'[batches[b]].doneCbs = batch'[batches[b]].records
                      /\ \A other \in Buckets : batches[other] = batches[b] => other = b
    BY DEF OpenOK
  <2>1. batches[b] \in BatchIds
    BY Apart
  <2>2. /\ batch[batches[b]].state = "opened" /\ batch[batches[b]].timeout = "close"
        /\ batch[batches[b]].doneCbs = batch[batches[b]].records
        /\ \A other \in Buckets : batches[other] = batches[b] => other = b
    BY DEF IInv, OpenOK
  <2>3. CASE batches[b] = id
    BY <1>3, <1>4, <2>2, <2>3
  <2>4. CASE batches[b] # id
    BY <1>4, <2>1, <2>2, <2>4
  <2> QED
    BY <2>3, <2>4
<1>7. PendingOK'
  BY <1>1, <1>4 DEF IInv, TypeOK, PendingOK
<1>8. CallsOK'
  BY <1>1, <1>4 DEF IInv, TypeOK, CallsOK
<1>9. RecordsOK'
  <2>1. \A i \in BatchIds : batch'[i].records \subseteq (1..accepted) \cup {record}
    BY <1>3, <1>4 DEF IInv, RecordsOK
  <2>2. \A i \in BatchIds : i # id => record \notin batch'[i].records
    BY <1>2, <1>4 DEF IInv, RecordsOK
  <2>3. \A i \in BatchIds : batch'[i].records \subseteq batch[i].records \cup {record}
    BY <1>3, <1>4
  <2> QED
    BY <1>2, <2>1, <2>2, <2>3 DEF IInv, RecordsOK
<1>10. Kept'
  <2>1. Live' = Live /\ id \in Live
    BY <1>1 DEF Live, id
  <2>2. \A i \in BatchIds : batch[i].records \subseteq batch'[i].records
    BY <1>3, <1>4
  <2>3. Live \subseteq BatchIds
    BY Apart DEF Live, IInv, TypeOK
  <2> QED
    BY <1>2, <1>3, <1>4, <2>1, <2>2, <2>3 DEF IInv, Kept
<1> QED
  BY <1>5, <1>6, <1>7, <1>8, <1>9, <1>10 DEF IInv, AcknowledgedIsStored

\* A record for which a batch is created; the full batch there was is moved first.
LEMMA StoreNewStep ==
    ASSUME IInv, NEW bucketId \in Buckets, NEW id \in BatchIds, NEW old,
           old = batches[bucketId], batch[id] = Absent,
           accepted < MaxRecords, accepted' = accepted + 1,
           batch' \in [BatchIds -> Batches(Records)],
           batch'[id].records = {accepted + 1}, batch'[id].doneCbs = {accepted + 1},
           batch'[id].state = "opened", batch'[id].timeout = "close",
           \A other \in BatchIds : other # id /\ other # old => batch'[other] = batch[other],
           batches' = [batches EXCEPT ![bucketId] = id],
           old = None => pendingBatches' = pendingBatches,
           old # None => /\ pendingBatches' = pendingBatches \cup {old}
                         /\ batch'[old].records = batch[old].records
                         /\ batch'[old].doneCbs = batch[old].doneCbs
                         /\ batch'[old].state = "locked" /\ batch'[old].timeout = "insert",
           UNCHANGED <<inserting, stored, acknowledged, dropped, stopped, exited>>
    PROVE  IInv'
<1> DEFINE record == accepted + 1
<1>1. /\ id \notin pendingBatches
      /\ \A b \in Buckets : batches[b] # id
      /\ \A call \in inserting : call.id # id
      /\ batch[id].records = {}
  BY Apart, NewBatchFields
<1>2. old # None => /\ old \in BatchIds /\ old # id /\ old \notin pendingBatches
                    /\ \A call \in inserting : call.id # old
                    /\ \A b \in Buckets : batches[b] = old => b = bucketId
                    /\ batch[old].doneCbs = batch[old].records
  BY Apart, <1>1 DEF IInv, OpenOK
<1>3. /\ accepted \in Nat /\ record \in Records /\ record \notin 1..accepted
      /\ 1..accepted' = (1..accepted) \cup {record} /\ accepted' \in 0..MaxRecords
  BY BatchManagerAssumption DEF IInv, TypeOK, Records
<1>4. batches' \in [Buckets -> BatchIds \cup {None}]
  BY DEF IInv, TypeOK
<1>5. /\ batches'[bucketId] = id
      /\ \A b \in Buckets : b # bucketId => batches'[b] = batches[b]
  BY DEF IInv, TypeOK
<1>6. /\ \A other \in BatchIds : other # id => /\ batch'[other].records = batch[other].records
                                               /\ batch'[other].doneCbs = batch[other].doneCbs
      /\ pendingBatches' = pendingBatches \/ pendingBatches' = pendingBatches \cup {old}
  <2>1. 0 \notin BatchIds
    BY BatchManagerAssumption DEF BatchIds
  <2>2. CASE old = None
    BY <2>1, <2>2
  <2>3. CASE old # None
    BY <2>3
  <2> QED
    BY <2>2, <2>3
<1> HIDE DEF record
<1>7. TypeOK'
  BY <1>2, <1>3, <1>4 DEF IInv, TypeOK
<1>8. OpenOK'
  <2> SUFFICES ASSUME NEW b \in Buckets, batches'[b] # None
               PROVE  /\ batch'[batches'[b]].state = "opened"
                      /\ batch'[batches'[b]].timeout = "close"
                      /\ batch'[batches'[b]].doneCbs = batch'[batches'[b]].records
                      /\ \A other \in Buckets : batches'[other] = batches'[b] => other = b
    BY DEF OpenOK
  <2>1. CASE b = bucketId
    BY <1>1, <1>5, <2>1
  <2>2. CASE b # bucketId
    <3>1. /\ batches'[b] = batches[b] /\ batches[b] \in BatchIds
          /\ batches[b] # id /\ batches[b] # old
      BY <1>1, <1>2, <1>5, <2>2, Apart
    <3>2. batch'[batches[b]] = batch[batches[b]]
      BY <3>1
    <3> QED
      BY <1>5, <2>2, <3>1, <3>2 DEF IInv, OpenOK
  <2> QED
    BY <2>1, <2>2
<1>9. PendingOK'
  <2> SUFFICES ASSUME NEW p \in pendingBatches'
               PROVE  /\ batch'[p].state \in {"locked", "pending"}
                      /\ batch'[p].doneCbs = batch'[p].records
                      /\ batch'[p].timeout = "insert" \/ \E call \in inserting : call.id = p
    BY DEF PendingOK
  <2>1. CASE p \in pendingBatches
    <3>1. p \in BatchIds /\ p # id /\ p # old
      BY <1>1, <1>2, <2>1, BatchManagerAssumption DEF IInv, TypeOK, BatchIds
    <3>2. batch'[p] = batch[p]
      BY <3>1
    <3> QED
      BY <2>1, <3>2 DEF IInv, PendingOK
  <2>2. CASE p \notin pendingBatches
    BY <1>2, <2>2
  <2> QED
    BY <2>1, <2>2
<1>10. CallsOK'
  <2>1. \A call \in inserting : /\ call.id \in BatchIds /\ call.id # id /\ call.id # old
    BY <1>1, <1>2, BatchManagerAssumption DEF IInv, TypeOK, BatchIds
  <2>2. \A call \in inserting : batch'[call.id] = batch[call.id]
    BY <2>1
  <2> QED
    BY <2>2 DEF IInv, CallsOK
<1>11. RecordsOK'
  <2>1. \A i \in BatchIds : i # id => /\ batch'[i].records \subseteq 1..accepted
                                      /\ record \notin batch'[i].records
    BY <1>3, <1>6 DEF IInv, RecordsOK
  <2>2. batch'[id].records = {record}
    BY DEF record
  <2>3. \A i \in BatchIds : batch'[i].records \subseteq 1..accepted'
    BY <1>3, <2>1, <2>2
  <2>4. ASSUME NEW i \in BatchIds, NEW j \in BatchIds,
               batch'[i].records \cap batch'[j].records # {}
        PROVE  i = j
    BY <1>6, <2>1, <2>2, <2>4 DEF IInv, RecordsOK
  <2> QED
    BY <2>3, <2>4 DEF RecordsOK
<1>12. Kept'
  <2>1. id \in Live'
    BY <1>5, BatchManagerAssumption DEF Live, BatchIds
  <2>2. \A i \in Live : i \in Live' /\ i \in BatchIds /\ i # id
    <3> SUFFICES ASSUME NEW i \in Live PROVE i \in Live' /\ i \in BatchIds /\ i # id
      OBVIOUS
    <3>1. CASE i \in pendingBatches
      BY <3>1, <1>1, <1>6 DEF Live, IInv, TypeOK
    <3>2. CASE i \notin pendingBatches
      <4>1. PICK b \in Buckets : batches[b] = i /\ i # None
        BY <3>2 DEF Live
      <4>2. i \in BatchIds /\ i # id
        BY <4>1, <1>1, Apart
      <4>3. CASE b = bucketId
        BY <4>1, <4>2, <4>3 DEF Live
      <4>4. CASE b # bucketId
        <5>1. batches'[b] = i
          BY <4>1, <4>4, <1>5
        <5> QED
          BY <4>1, <4>2, <5>1 DEF Live
      <4> QED
        BY <4>3, <4>4
    <3> QED
      BY <3>1, <3>2
  <2>3. record \in batch'[id].records
    BY DEF record
  <2> SUFFICES ASSUME NEW r \in 1..accepted'
               PROVE  r \in stored \/ r \in dropped \/ \E i \in Live' : r \in batch'[i].records
    BY DEF Kept
  <2>4. CASE r = record
    BY <2>1, <2>3, <2>4
  <2>5. CASE r # record
    <3>1. r \in 1..accepted
      BY <1>3, <2>5
    <3>2. r \in stored \/ r \in dropped \/ \E i \in Live : r \in batch[i].records
      BY <3>1 DEF IInv, Kept
    <3> QED
      BY <3>2, <2>2, <1>6
  <2> QED
    BY <2>4, <2>5
<1> QED
  BY <1>7, <1>8, <1>9, <1>10, <1>11, <1>12 DEF IInv, AcknowledgedIsStored

\* store().
LEMMA StoreStep ==
    ASSUME IInv, NEW bucketId \in Buckets, NEW length \in Lengths, store(bucketId, length)
    PROVE  IInv'
<1> DEFINE id == batches[bucketId]
           record == accepted + 1
<1>1. /\ accepted < MaxRecords /\ accepted' = accepted + 1
      /\ UNCHANGED <<inserting, stored, acknowledged, dropped, stopped, exited>>
  BY DEF store
<1>2. record \in Records /\ length \in Nat
  BY <1>1, BatchManagerAssumption DEF IInv, TypeOK, Records
<1>3. LET new == push(NewBatch, record, length)
      IN  /\ new \in Batches(Records)
          /\ new.records = {record} /\ new.doneCbs = {record}
          /\ new.state = "opened" /\ new.timeout = "close"
  BY <1>2, NewBatchFields, PushFields
<1>4. batch \in [BatchIds -> Batches(Records)]
  BY DEF IInv, TypeOK
<1>5. CASE id # None /\ ~isFull(batch[id])
  BY <1>1, <1>5, StoreOpenStep DEF store
<1>6. CASE id # None /\ isFull(batch[id])
  <2> DEFINE before == [batch EXCEPT ![id] = scheduleInsert(lock(@))]
  <2>1. pendingBatches' = pendingBatches \cup {id}
    BY <1>6 DEF store
  <2>2. StoreInNewBatch(bucketId, record, length, before)
    BY <1>6 DEF store
  <2>3. id \in BatchIds
    BY <1>6, Apart
  <2>4. LET new == before[id]
        IN  /\ new \in Batches(Records)
            /\ new.records = batch[id].records /\ new.doneCbs = batch[id].doneCbs
            /\ new.state = "locked" /\ new.timeout = "insert"
    BY <1>4, <2>3, LockFields
  <2>5. /\ before \in [BatchIds -> Batches(Records)]
        /\ \A other \in BatchIds : other # id => before[other] = batch[other]
    BY <1>4, <2>3, <2>4
  <2> HIDE DEF before
  <2>6. PICK n \in BatchIds :
            /\ before[n] = Absent
            /\ batch' = [before EXCEPT ![n] = push(NewBatch, record, length)]
            /\ batches' = [batches EXCEPT ![bucketId] = n]
    BY <2>2 DEF StoreInNewBatch
  <2>7. n # id
    BY <2>4, <2>6, NewBatchFields
  <2>8. batch[n] = Absent
    BY <2>5, <2>6, <2>7
  <2>9. /\ batch' \in [BatchIds -> Batches(Records)]
        /\ batch'[n] = push(NewBatch, record, length)
        /\ batch'[id] = before[id]
        /\ \A other \in BatchIds : other # n /\ other # id => batch'[other] = batch[other]
    BY <1>3, <2>3, <2>5, <2>6, <2>7
  <2>10. /\ batch'[n].records = {record} /\ batch'[n].doneCbs = {record}
         /\ batch'[n].state = "opened" /\ batch'[n].timeout = "close"
    BY <1>3, <2>9
  <2>11. /\ batch'[id].records = batch[id].records
         /\ batch'[id].doneCbs = batch[id].doneCbs
         /\ batch'[id].state = "locked" /\ batch'[id].timeout = "insert"
    BY <2>4, <2>9
  <2>12. batches' = [batches EXCEPT ![bucketId] = n]
    BY <2>6
  <2>13. /\ batch' \in [BatchIds -> Batches(Records)]
         /\ \A other \in BatchIds : other # n /\ other # id => batch'[other] = batch[other]
    BY <2>9
  <2> QED
    BY <1>1, <1>6, <2>1, <2>8, <2>10, <2>11, <2>12, <2>13, StoreNewStep
<1>7. CASE id = None
  <2>1. pendingBatches' = pendingBatches
    BY <1>7 DEF store
  <2>2. StoreInNewBatch(bucketId, record, length, batch)
    BY <1>7 DEF store
  <2>3. PICK n \in BatchIds :
            /\ batch[n] = Absent
            /\ batch' = [batch EXCEPT ![n] = push(NewBatch, record, length)]
            /\ batches' = [batches EXCEPT ![bucketId] = n]
    BY <2>2 DEF StoreInNewBatch
  <2>4. /\ batch' \in [BatchIds -> Batches(Records)]
        /\ batch'[n] = push(NewBatch, record, length)
        /\ \A other \in BatchIds : other # n => batch'[other] = batch[other]
    BY <1>3, <1>4, <2>3
  <2>5. /\ batch'[n].records = {record} /\ batch'[n].doneCbs = {record}
        /\ batch'[n].state = "opened" /\ batch'[n].timeout = "close"
    BY <1>3, <2>4
  <2> HIDE DEF id
  <2> QED
    BY <1>1, <1>7, <2>1, <2>3, <2>4, <2>5, StoreNewStep DEF id
<1> QED
  BY <1>5, <1>6, <1>7

----------------------------------------------------------------------------
\* The timer of an open batch.
LEMMA CloseTimeoutStep ==
    ASSUME IInv, NEW bucketId \in Buckets, CloseTimeout(bucketId)
    PROVE  IInv'
<1> DEFINE id == batches[bucketId]
<1>1. /\ id # None
      /\ batch' = [batch EXCEPT ![id] = scheduleInsert(lock(@))]
      /\ pendingBatches' = pendingBatches \cup {id}
      /\ batches' = [batches EXCEPT ![bucketId] = None]
      /\ UNCHANGED <<accepted, inserting, stored, acknowledged, dropped, stopped, exited>>
  BY DEF CloseTimeout, moveFullBatch
<1>2. /\ id \in BatchIds /\ id \notin pendingBatches
      /\ \A call \in inserting : call.id # id
      /\ \A b \in Buckets : batches[b] = id => b = bucketId
      /\ batch[id].doneCbs = batch[id].records
  BY <1>1, Apart DEF IInv, OpenOK
<1>3. batch \in [BatchIds -> Batches(Records)]
  BY DEF IInv, TypeOK
<1>4. /\ batch' \in [BatchIds -> Batches(Records)]
      /\ batch'[id].records = batch[id].records /\ batch'[id].doneCbs = batch[id].doneCbs
      /\ batch'[id].state = "locked" /\ batch'[id].timeout = "insert"
      /\ \A other \in BatchIds : other # id => batch'[other] = batch[other]
  BY <1>1, <1>2, <1>3, LockFields
<1>5. /\ batches' \in [Buckets -> BatchIds \cup {None}]
      /\ batches'[bucketId] = None
      /\ \A b \in Buckets : b # bucketId => batches'[b] = batches[b]
  BY <1>1 DEF IInv, TypeOK
<1>6. \A i \in BatchIds : batch'[i].records = batch[i].records
  BY <1>4
<1> HIDE DEF id
<1>7. TypeOK'
  BY <1>1, <1>2, <1>4, <1>5 DEF IInv, TypeOK
<1>8. OpenOK'
  <2> SUFFICES ASSUME NEW b \in Buckets, batches'[b] # None
               PROVE  /\ batch'[batches'[b]].state = "opened"
                      /\ batch'[batches'[b]].timeout = "close"
                      /\ batch'[batches'[b]].doneCbs = batch'[batches'[b]].records
                      /\ \A other \in Buckets : batches'[other] = batches'[b] => other = b
    BY DEF OpenOK
  <2>1. /\ b # bucketId /\ batches'[b] = batches[b]
        /\ batches[b] \in BatchIds /\ batches[b] # id
    BY <1>2, <1>5, Apart
  <2>2. batch'[batches[b]] = batch[batches[b]]
    BY <1>4, <2>1
  <2> QED
    BY <1>5, <2>1, <2>2 DEF IInv, OpenOK
<1>9. PendingOK'
  BY <1>1, <1>2, <1>4 DEF IInv, TypeOK, PendingOK
<1>10. CallsOK'
  BY <1>1, <1>2, <1>4 DEF IInv, TypeOK, CallsOK
<1>11. RecordsOK'
  BY <1>1, <1>6 DEF IInv, RecordsOK
<1>12. Kept'
  <2>1. \A i \in Live : i \in Live' /\ i \in BatchIds
    <3> SUFFICES ASSUME NEW i \in Live PROVE i \in Live' /\ i \in BatchIds
      OBVIOUS
    <3>1. CASE i \in pendingBatches
      BY <3>1, <1>1 DEF Live, IInv, TypeOK
    <3>2. CASE i \notin pendingBatches
      <4>1. PICK b \in Buckets : batches[b] = i /\ i # None
        BY <3>2 DEF Live
      <4>2. CASE b = bucketId
        BY <4>1, <4>2, <1>1, <1>2 DEF Live, id
      <4>3. CASE b # bucketId
        <5>1. batches'[b] = i
          BY <4>1, <4>3, <1>5
        <5> QED
          BY <4>1, <5>1, Apart DEF Live
      <4> QED
        BY <4>2, <4>3
    <3> QED
      BY <3>1, <3>2
  <2> QED
    BY <1>1, <1>6, <2>1 DEF IInv, Kept
<1> QED
  BY <1>1, <1>7, <1>8, <1>9, <1>10, <1>11, <1>12 DEF IInv, AcknowledgedIsStored

\* The timer of scheduleInsert, with the insert it starts.
LEMMA InsertTimeoutStep ==
    ASSUME IInv, NEW id \in BatchIds, InsertTimeout(id)
    PROVE  IInv'
<1> DEFINE call == [id |-> id, records |-> batch[id].records]
<1>1. /\ batch[id].timeout = "insert"
      /\ batch' = [batch EXCEPT ![id] = Pending(@)]
      /\ UNCHANGED <<accepted, batches, pendingBatches, stored, acknowledged, dropped, stopped>>
  BY DEF InsertTimeout
<1>2. batch \in [BatchIds -> Batches(Records)]
  BY DEF IInv, TypeOK
<1>3. /\ batch' \in [BatchIds -> Batches(Records)]
      /\ batch'[id].records = batch[id].records /\ batch'[id].doneCbs = batch[id].doneCbs
      /\ batch'[id].state = "pending" /\ batch'[id].timeout = "none"
      /\ \A other \in BatchIds : other # id => batch'[other] = batch[other]
  BY <1>1, <1>2, PendingFields
<1>4. \A c \in inserting : c.id # id
  BY <1>1 DEF IInv, CallsOK
<1>5. \A b \in Buckets : batches[b] # id
  BY <1>1, BatchManagerAssumption DEF IInv, OpenOK, BatchIds
<1>6. \A i \in BatchIds : batch'[i].records = batch[i].records
  BY <1>3
<1>7. /\ id \in pendingBatches => inserting' = inserting \cup {call}
      /\ id \notin pendingBatches => inserting' = inserting
      /\ exited' \in BOOLEAN
  BY DEF InsertTimeout, IInv, TypeOK
<1>8. /\ call \in [id : BatchIds, records : SUBSET Records]
      /\ call.id = id /\ call.records = batch[id].records
  BY <1>2 DEF Batches
<1> HIDE DEF call
<1>9. TypeOK'
  BY <1>1, <1>3, <1>7, <1>8 DEF IInv, TypeOK
<1>10. OpenOK'
  BY <1>1, <1>3, <1>5, Apart DEF IInv, OpenOK
<1>11. PendingOK'
  <2> SUFFICES ASSUME NEW p \in pendingBatches
               PROVE  /\ batch'[p].state \in {"locked", "pending"}
                      /\ batch'[p].doneCbs = batch'[p].records
                      /\ batch'[p].timeout = "insert" \/ \E c \in inserting' : c.id = p
    BY <1>1 DEF PendingOK
  <2>1. p \in BatchIds
    BY DEF IInv, TypeOK
  <2>2. CASE p = id
    BY <1>3, <1>7, <1>8, <2>2 DEF IInv, PendingOK
  <2>3. CASE p # id
    BY <1>3, <1>7, <2>1, <2>3 DEF IInv, PendingOK
  <2> QED
    BY <2>2, <2>3
<1>12. CallsOK'
  <2>1. \A c \in inserting : c.id \in BatchIds /\ batch'[c.id] = batch[c.id]
    BY <1>3, <1>4 DEF IInv, TypeOK
  <2>2. CASE id \in pendingBatches
    <3>1. batch'[id].doneCbs = call.records
      BY <1>3, <1>8, <2>2 DEF IInv, PendingOK
    <3> QED
      BY <1>3, <1>4, <1>7, <1>8, <2>1, <2>2, <3>1 DEF IInv, CallsOK
  <2>3. CASE id \notin pendingBatches
    BY <1>7, <2>1, <2>3 DEF IInv, CallsOK
  <2> QED
    BY <2>2, <2>3
<1>13. RecordsOK'
  BY <1>1, <1>6 DEF IInv, RecordsOK
<1>14. Kept'
  <2>1. Live' = Live /\ Live \subseteq BatchIds
    BY <1>1, Apart DEF Live, IInv, TypeOK
  <2> QED
    BY <1>1, <1>6, <2>1 DEF IInv, Kept
<1> QED
  BY <1>1, <1>9, <1>10, <1>11, <1>12, <1>13, <1>14 DEF IInv, AcknowledgedIsStored

----------------------------------------------------------------------------
\* An insert is over and its batch cleared: its records are in the database or given
\* up, and nobody was called back but for records in the database.
LEMMA ClearStep ==
    ASSUME IInv, NEW call \in inserting,
           inserting' = inserting \ {call},
           batch' \in [BatchIds -> Batches(Records)],
           batch'[call.id].records = {},
           batch'[call.id].state = "inserted", batch'[call.id].timeout = "none",
           \A other \in BatchIds : other # call.id => batch'[other] = batch[other],
           pendingBatches' = pendingBatches \ {call.id},
           stored \subseteq stored', stored' \subseteq Records,
           dropped \subseteq dropped', dropped' \subseteq Records,
           call.id \in pendingBatches => batch[call.id].records \subseteq stored' \cup dropped',
           acknowledged' \subseteq stored',
           UNCHANGED <<accepted, batches, stopped, exited>>
    PROVE  IInv'
<1>1. /\ call.id \in BatchIds
      /\ \A b \in Buckets : batches[b] # None => batches[b] # call.id
      /\ \A c \in inserting : c # call => c.id # call.id
  BY Apart DEF IInv, TypeOK, CallsOK
<1>2. TypeOK'
  BY DEF IInv, TypeOK
<1>3. OpenOK'
  <2>1. \A b \in Buckets : batches[b] # None => batch'[batches[b]] = batch[batches[b]]
    BY <1>1, Apart
  <2> QED
    BY <2>1 DEF IInv, OpenOK
<1>4. PendingOK'
  <2> SUFFICES ASSUME NEW p \in pendingBatches, p # call.id
               PROVE  /\ batch'[p].state \in {"locked", "pending"}
                      /\ batch'[p].doneCbs = batch'[p].records
                      /\ batch'[p].timeout = "insert" \/ \E c \in inserting' : c.id = p
    BY DEF PendingOK
  <2>1. batch'[p] = batch[p]
    BY DEF IInv, TypeOK
  <2> QED
    BY <2>1 DEF IInv, PendingOK
<1>5. CallsOK'
  <2>1. \A c \in inserting' : c \in inserting /\ c.id \in BatchIds /\ c.id # call.id
    BY <1>1 DEF IInv, TypeOK
  <2>2. \A c \in inserting' : batch'[c.id] = batch[c.id]
    BY <2>1
  <2> QED
    BY <2>1, <2>2 DEF IInv, CallsOK
<1>6. RecordsOK'
  <2>1. \A i \in BatchIds : batch'[i].records \subseteq batch[i].records
    BY <1>1
  <2> QED
    BY <2>1 DEF IInv, RecordsOK
<1>7. Kept'
  <2>1. \A i \in Live : i # call.id => i \in Live' /\ i \in BatchIds
    BY Apart DEF Live, IInv, TypeOK
  <2> SUFFICES ASSUME NEW r \in 1..accepted
               PROVE  r \in stored' \/ r \in dropped' \/ \E i \in Live' : r \in batch'[i].records
    BY DEF Kept
  <2>2. r \in stored \/ r \in dropped \/ \E i \in Live : r \in batch[i].records
    BY DEF IInv, Kept
  <2>3. CASE \E i \in Live : r \in batch[i].records
    <3>1. PICK i \in Live : r \in batch[i].records
      BY <2>3
    <3>2. CASE i = call.id
      BY <1>1, <3>1, <3>2 DEF Live
    <3>3. CASE i # call.id
      BY <2>1, <3>1, <3>3
    <3> QED
      BY <3>2, <3>3
  <2> QED
    BY <2>2, <2>3
<1> QED
  BY <1>2, <1>3, <1>4, <1>5, <1>6, <1>7 DEF IInv, AcknowledgedIsStored

\* Cassandra has taken the batch.
LEMMA InsertSucceededStep ==
    ASSUME IInv, NEW call \in inserting, InsertSucceeded(call)
    PROVE  IInv'
<1>1. /\ inserting' = inserting \ {call}
      /\ stored' = stored \cup call.records
      /\ acknowledged' = acknowledged \cup batch[call.id].doneCbs
      /\ batch' = [batch EXCEPT ![call.id] = clear(done(@))]
      /\ pendingBatches' = pendingBatches \ {call.id}
      /\ UNCHANGED <<accepted, batches, dropped, stopped, exited>>
  BY DEF InsertSucceeded
<1>2. /\ call.id \in BatchIds /\ call.records \subseteq Records
      /\ batch \in [BatchIds -> Batches(Records)]
  BY DEF IInv, TypeOK
<1>3. /\ batch' \in [BatchIds -> Batches(Records)]
      /\ batch'[call.id].records = {}
      /\ batch'[call.id].state = "inserted" /\ batch'[call.id].timeout = "none"
      /\ \A other \in BatchIds : other # call.id => batch'[other] = batch[other]
  BY <1>1, <1>2, DoneFields
<1>4. batch[call.id].doneCbs = call.records
  BY DEF IInv, CallsOK
<1>5. acknowledged' \subseteq stored'
  BY <1>1, <1>4 DEF IInv, AcknowledgedIsStored
<1>6. call.id \in pendingBatches => batch[call.id].records = call.records
  BY <1>4 DEF IInv, PendingOK
<1>7. stored' \subseteq Records /\ dropped' \subseteq Records
  BY <1>1, <1>2 DEF IInv, TypeOK
<1> QED
  BY <1>1, <1>3, <1>5, <1>6, <1>7, ClearStep

\* Cassandra reports a failure, after taking the records or not.
LEMMA InsertFailedStep ==
    ASSUME IInv, NEW call \in inserting, InsertFailed(call)
    PROVE  IInv'
<1>1. /\ inserting' = inserting \ {call}
      /\ stored \subseteq stored' /\ stored' \subseteq stored \cup call.records
      /\ RetryOrDrop(call)
      /\ UNCHANGED <<accepted, batches, acknowledged, stopped, exited>>
  BY DEF InsertFailed
<1>2. /\ call.id \in BatchIds /\ call.records \subseteq Records
      /\ batch \in [BatchIds -> Batches(Records)]
      /\ stored' \subseteq Records
  BY <1>1 DEF IInv, TypeOK
<1>3. acknowledged' \subseteq stored'
  BY <1>1 DEF IInv, AcknowledgedIsStored
<1>4. CASE reachedMaxRetries(batch[call.id])
  <2>1. /\ dropped' = dropped \cup batch[call.id].records
        /\ batch' = [batch EXCEPT ![call.id] = clear(@)]
        /\ pendingBatches' = pendingBatches \ {call.id}
    BY <1>1, <1>4 DEF RetryOrDrop
  <2>2. /\ batch' \in [BatchIds -> Batches(Records)]
        /\ batch'[call.id].records = {}
        /\ batch'[call.id].state = "inserted" /\ batch'[call.id].timeout = "none"
        /\ \A other \in BatchIds : other # call.id => batch'[other] = batch[other]
    BY <1>2, <2>1, ClearFields
  <2>3. batch[call.id].records \subseteq Records
    BY <1>2 DEF Batches
  <2>4. dropped' \subseteq Records
    BY <2>1, <2>3 DEF IInv, TypeOK
  <2> QED
    BY <1>1, <1>2, <1>3, <2>1, <2>2, <2>4, ClearStep
<1>5. CASE ~reachedMaxRetries(batch[call.id])
  <2>1. /\ batch' = [batch EXCEPT ![call.id] = scheduleInsert(@)]
        /\ UNCHANGED <<pendingBatches, dropped>>
    BY <1>1, <1>5 DEF RetryOrDrop
  <2>2. /\ batch' \in [BatchIds -> Batches(Records)]
        /\ batch'[call.id].records = batch[call.id].records
        /\ batch'[call.id].doneCbs = batch[call.id].doneCbs
        /\ batch'[call.id].state = batch[call.id].state
        /\ batch'[call.id].timeout = "insert"
        /\ \A other \in BatchIds : other # call.id => batch'[other] = batch[other]
    BY <1>2, <2>1, ScheduleFields
  <2>3. /\ \A b \in Buckets : batches[b] # None => batches[b] # call.id
        /\ \A c \in inserting : c # call => c.id # call.id
    BY Apart DEF IInv, CallsOK
  <2>4. \A i \in BatchIds : batch'[i].records = batch[i].records
    BY <2>2
  <2>5. TypeOK'
    BY <1>1, <1>2, <2>1, <2>2 DEF IInv, TypeOK
  <2>6. OpenOK'
    <3>1. \A b \in Buckets : batches[b] # None => batch'[batches[b]] = batch[batches[b]]
      BY <2>2, <2>3, Apart
    <3> QED
      BY <1>1, <3>1 DEF IInv, OpenOK
  <2>7. PendingOK'
    <3> SUFFICES ASSUME NEW p \in pendingBatches
                 PROVE  /\ batch'[p].state \in {"locked", "pending"}
                        /\ batch'[p].doneCbs = batch'[p].records
                        /\ batch'[p].timeout = "insert" \/ \E c \in inserting' : c.id = p
      BY <2>1 DEF PendingOK
    <3>1. CASE p = call.id
      BY <2>2, <3>1 DEF IInv, PendingOK
    <3>2. CASE p # call.id
      <4>1. batch'[p] = batch[p]
        BY <2>2, <3>2 DEF IInv, TypeOK
      <4> QED
        BY <1>1, <3>2, <4>1 DEF IInv, PendingOK
    <3> QED
      BY <3>1, <3>2
  <2>8. CallsOK'
    <3>1. \A c \in inserting' : c \in inserting /\ c.id \in BatchIds /\ c.id # call.id
      BY <1>1, <2>3 DEF IInv, TypeOK
    <3>2. \A c \in inserting' : batch'[c.id] = batch[c.id]
      BY <2>2, <3>1
    <3> QED
      BY <3>1, <3>2 DEF IInv, CallsOK
  <2>9. RecordsOK'
    BY <1>1, <2>4 DEF IInv, RecordsOK
  <2>10. Kept'
    <3>1. Live' = Live /\ Live \subseteq BatchIds
      BY <1>1, <2>1, Apart DEF Live, IInv, TypeOK
    <3> QED
      BY <1>1, <2>1, <2>4, <3>1 DEF IInv, Kept
  <2> QED
    BY <1>3, <2>5, <2>6, <2>7, <2>8, <2>9, <2>10 DEF IInv, AcknowledgedIsStored
<1> QED
  BY <1>4, <1>5

----------------------------------------------------------------------------
\* stop() with inserts under way.
LEMMA StopStep ==
    ASSUME IInv, stop
    PROVE  IInv'
<1>1. /\ stopped' = TRUE
      /\ dropped' = dropped \cup UNION {batch[id].records : id \in Live}
      /\ batch' = [id \in BatchIds |-> IF id \in Live THEN clear(batch[id]) ELSE batch[id]]
      /\ batches' = [bucketId \in Buckets |-> None]
      /\ pendingBatches' = {}
      /\ UNCHANGED <<accepted, inserting, stored, acknowledged, exited>>
  BY DEF stop
<1>2. batch \in [BatchIds -> Batches(Records)]
  BY DEF IInv, TypeOK
<1>3. Live \subseteq BatchIds
  BY Apart DEF Live, IInv, TypeOK
<1>4. \A id \in BatchIds :
        /\ batch'[id] \in Batches(Records)
        /\ batch'[id].records \subseteq batch[id].records
        /\ batch'[id].doneCbs = batch[id].doneCbs
        /\ batch'[id].state \in {batch[id].state, "inserted"}
        /\ batch'[id].timeout \in {batch[id].timeout, "none"}
  BY <1>1, <1>2, ClearFields
<1>5. batch' \in [BatchIds -> Batches(Records)]
  BY <1>1, <1>4
<1>6. dropped' \subseteq Records
  <2>1. \A id \in Live : batch[id].records \subseteq Records
    BY <1>2, <1>3 DEF Batches
  <2> QED
    BY <1>1, <2>1 DEF IInv, TypeOK
<1>7. TypeOK'
  BY <1>1, <1>5, <1>6 DEF IInv, TypeOK
<1>8. OpenOK' /\ PendingOK'
  BY <1>1 DEF OpenOK, PendingOK
<1>9. CallsOK'
  BY <1>1, <1>4 DEF IInv, TypeOK, CallsOK
<1>10. RecordsOK'
  BY <1>1, <1>4 DEF IInv, RecordsOK
<1>11. Kept'
  BY <1>1 DEF IInv, Kept
<1> QED
  BY <1>1, <1>7, <1>8, <1>9, <1>10, <1>11 DEF IInv, AcknowledgedIsStored

----------------------------------------------------------------------------
\* Every step of the specification preserves the invariant.
LEMMA NextIInv == IInv /\ [Next]_vars => IInv'
<1> SUFFICES ASSUME IInv, [Next]_vars PROVE IInv'
  OBVIOUS
<1>1. CASE \E bucketId \in Buckets, length \in Lengths : store(bucketId, length)
  BY <1>1, StoreStep
<1>2. CASE \E bucketId \in Buckets : CloseTimeout(bucketId)
  BY <1>2, CloseTimeoutStep
<1>3. CASE \E id \in BatchIds : InsertTimeout(id)
  BY <1>3, InsertTimeoutStep
<1>4. CASE \E call \in inserting : InsertSucceeded(call)
  BY <1>4, InsertSucceededStep
<1>5. CASE \E call \in inserting : InsertFailed(call)
  BY <1>5, InsertFailedStep
<1>6. CASE stop
  BY <1>6, StopStep
<1>7. CASE UNCHANGED vars
  BY <1>7 DEF vars, IInv, TypeOK, OpenOK, PendingOK, CallsOK, RecordsOK, Kept, Live,
              AcknowledgedIsStored
<1> QED
  BY <1>1, <1>2, <1>3, <1>4, <1>5, <1>6, <1>7 DEF Next, Timers, Answered

\* The invariant holds of every reachable state.
LEMMA Invariance == Spec => []IInv
  BY InitIInv, NextIInv, PTL DEF Spec

\* Batches, records, calls and buckets keep their types (Batch.ts, BatchManager.ts).
THEOREM TypeCorrect == Spec => []TypeOK
<1>1. IInv => TypeOK
  BY DEF IInv
<1> QED
  BY <1>1, Invariance, PTL

\* A doneCb is called only for records in the database, also if stop() has cleared the
\* batch while its insert was under way (BatchManager.ts 130-136).
THEOREM Acknowledgement == Spec => []AcknowledgedIsStored
<1>1. IInv => AcknowledgedIsStored
  BY DEF IInv
<1> QED
  BY <1>1, Invariance, PTL

\* A record is in one batch, a batch in one insert at a time (BatchManager.ts 67-131).
THEOREM OneWay == Spec => []OneWayToTheDatabase
<1>1. IInv => OneWayToTheDatabase
  BY DEF IInv, OneWayToTheDatabase, RecordsOK, CallsOK
<1> QED
  BY <1>1, Invariance, PTL

\* A record is stored, given up, or in a batch that goes on by itself
\* (BatchManager.ts 67-157).
THEOREM Safekeeping == Spec => []NothingLost
<1>1. IInv => NothingLost
  <2> SUFFICES ASSUME IInv PROVE NothingLost
    OBVIOUS
  <2>1. \A id \in Live : Underway(id)
    BY DEF IInv, OpenOK, PendingOK, Live, Underway
  <2> QED
    BY <2>1 DEF IInv, Kept, NothingLost
<1> QED
  BY <1>1, Invariance, PTL

----------------------------------------------------------------------------
\* A batch within its bounds.
Within(b) ==
    /\ Cardinality(b.records) <= maxRecordCount
    /\ \E length \in Lengths \cup {0} : b.size < maxSize + length

\* What every method but push() does to records and size.
NotPushed(c, b) == c.size = b.size /\ (c.records = b.records \/ c.records = {})

\* A batch without records is within its bounds if its size was; a batch that is not
\* full stays within them when one more record is pushed, although isFull() looks at
\* the size before the record is added.
LEMMA WithinKept ==
    ASSUME NEW b \in Batches(Records)
    PROVE  /\ \A c : Within(b) /\ NotPushed(c, b) => Within(c)
           /\ \A record \in Records, length \in Lengths :
                 ~isFull(b) => Within(push(b, record, length))
<1>1. Cardinality({}) <= maxRecordCount
  BY FS_EmptySet, BatchAssumption
<1>2. \A c : Within(b) /\ NotPushed(c, b) => Within(c)
  BY <1>1 DEF Within, NotPushed
<1>3. ASSUME NEW record \in Records, NEW length \in Lengths, ~isFull(b)
      PROVE  Within(push(b, record, length))
  <2> DEFINE c == push(b, record, length)
  <2>1. c.records = b.records \cup {record} /\ c.size = b.size + length
    BY DEF push, Batches
  <2> HIDE DEF c
  <2>2. IsFiniteSet(b.records)
    <3>1. b.records \in SUBSET Records
      BY DEF Batches
    <3>2. 1 \in Int /\ MaxRecords \in Int
      BY BatchManagerAssumption
    <3>3. IsFiniteSet(Records)
      BY <3>2, FS_Interval DEF Records
    <3> QED
      BY <3>1, <3>3, FS_Subset
  <2>3. /\ Cardinality(b.records) \in Nat
        /\ Cardinality(c.records) = Cardinality(b.records)
           \/ Cardinality(c.records) = Cardinality(b.records) + 1
    BY <2>1, <2>2, FS_CardinalityType, FS_AddElement
  <2>4. b.size \in Nat /\ length \in Nat /\ maxSize \in Nat /\ maxRecordCount \in Nat
    BY BatchAssumption, BatchManagerAssumption DEF Batches
  <2>5. ~(b.size >= maxSize) /\ ~(Cardinality(b.records) >= maxRecordCount)
    BY <1>3 DEF isFull
  <2>6. Cardinality(c.records) <= maxRecordCount /\ c.size < maxSize + length
    BY <2>1, <2>3, <2>4, <2>5
  <2>7. Within(c)
    BY <2>6 DEF Within
  <2> QED
    BY <2>7 DEF c
<1> QED
  BY <1>2, <1>3

\* An absent or new batch is within its bounds and not full.
LEMMA NewWithin ==
    /\ Within(Absent)
    /\ ~isFull(NewBatch)
<1>1. Absent.records = {} /\ Absent.size = 0 /\ NewBatch.records = {} /\ NewBatch.size = 0
  BY DEF Absent, NewBatch
<1>2. Cardinality({}) = 0
  BY FS_EmptySet
<1> QED
  BY <1>1, <1>2, BatchAssumption DEF Within, isFull

\* The methods that do not push.
LEMMA NotPushedMethods ==
    ASSUME NEW b \in Batches(Records)
    PROVE  /\ NotPushed(b, b) /\ NotPushed(scheduleInsert(lock(b)), b)
           /\ NotPushed(scheduleInsert(b), b) /\ NotPushed(Pending(b), b)
           /\ NotPushed(clear(b), b) /\ NotPushed(clear(done(b)), b)
<1>1. NotPushed(b, b) /\ NotPushed(scheduleInsert(b), b)
  BY DEF NotPushed, scheduleInsert, Batches
<1>2. NotPushed(scheduleInsert(lock(b)), b)
  BY DEF NotPushed, scheduleInsert, lock, Batches
<1>3. NotPushed(Pending(b), b)
  BY DEF NotPushed, Pending, Batches
<1>4. NotPushed(clear(b), b) /\ NotPushed(clear(done(b)), b)
  BY DEF NotPushed, clear, done, Batches
<1> QED
  BY <1>1, <1>2, <1>3, <1>4

\* A step pushes to a batch that is not full, or to none.
LEMMA BoundsStep ==
    ASSUME IInv, BatchesAreBounded, [Next]_vars
    PROVE  BatchesAreBounded'
<1>1. /\ batch \in [BatchIds -> Batches(Records)]
      /\ \A id \in BatchIds : batch[id] \in Batches(Records) /\ Within(batch[id])
  BY DEF IInv, TypeOK, BatchesAreBounded, Within
<1> SUFFICES \A id \in BatchIds : Within(batch'[id])
  BY DEF BatchesAreBounded, Within
<1>2. ASSUME \A id \in BatchIds : NotPushed(batch'[id], batch[id])
      PROVE  \A id \in BatchIds : Within(batch'[id])
  BY <1>1, <1>2, WithinKept
<1>3. ASSUME NEW before, before \in [BatchIds -> Batches(Records)],
             \A id \in BatchIds : Within(before[id]),
             NEW bucketId \in Buckets, NEW record \in Records, NEW length \in Lengths,
             StoreInNewBatch(bucketId, record, length, before)
      PROVE  \A id \in BatchIds : Within(batch'[id])
  <2>1. PICK id \in BatchIds :
           batch' = [before EXCEPT ![id] = push(NewBatch, record, length)]
    BY <1>3 DEF StoreInNewBatch
  <2>2. Within(push(NewBatch, record, length))
    BY NewBatchFields, NewWithin, WithinKept
  <2> QED
    BY <2>1, <2>2, <1>3
<1>4. ASSUME NEW bucketId \in Buckets, NEW length \in Lengths, store(bucketId, length)
      PROVE  \A id \in BatchIds : Within(batch'[id])
  <2> DEFINE id == batches[bucketId]
             record == accepted + 1
  <2>1. record \in Records
    BY <1>4, BatchManagerAssumption DEF IInv, TypeOK, store, Records
  <2>2. id # None => id \in BatchIds
    BY DEF IInv, TypeOK
  <2>3. CASE /\ id # None /\ ~isFull(batch[id])
             /\ batch' = [batch EXCEPT ![id] = push(@, record, length)]
    <3>1. Within(push(batch[id], record, length))
      BY <2>1, <2>2, <2>3, <1>1, WithinKept
    <3> QED
      BY <3>1, <2>2, <2>3, <1>1
  <2>4. CASE /\ id # None
             /\ StoreInNewBatch(bucketId, record, length,
                   [batch EXCEPT ![id] = scheduleInsert(lock(@))])
    <3> DEFINE before == [batch EXCEPT ![id] = scheduleInsert(lock(@))]
               locked == scheduleInsert(lock(batch[id]))
    <3>1. locked \in Batches(Records) /\ Within(locked)
      <4>1. batch[id] \in Batches(Records) /\ Within(batch[id])
        BY <2>2, <2>4, <1>1
      <4>2. scheduleInsert(lock(batch[id])) \in Batches(Records)
        BY <4>1, LockFields
      <4>3. NotPushed(scheduleInsert(lock(batch[id])), batch[id])
        BY <4>1, NotPushedMethods
      <4> QED
        BY <4>1, <4>2, <4>3, WithinKept
    <3>2. before = [batch EXCEPT ![id] = locked]
      OBVIOUS
    <3> HIDE DEF locked
    <3>3. /\ before \in [BatchIds -> Batches(Records)]
          /\ \A i \in BatchIds : Within(before[i])
      BY <3>1, <3>2, <1>1
    <3> HIDE DEF before
    <3>4. StoreInNewBatch(bucketId, record, length, before)
      BY <2>4 DEF before
    <3> QED
      BY <3>3, <3>4, <2>1, <1>3
  <2>5. CASE StoreInNewBatch(bucketId, record, length, batch)
    BY <2>1, <2>5, <1>1, <1>3
  <2> QED
    BY <1>4, <2>3, <2>4, <2>5 DEF store
<1>5. ASSUME NEW id \in BatchIds, NEW c, batch' = [batch EXCEPT ![id] = c],
             NotPushed(c, batch[id])
      PROVE  \A i \in BatchIds : Within(batch'[i])
  BY <1>1, <1>2, <1>5, NotPushedMethods
<1>6. ASSUME NEW bucketId \in Buckets, CloseTimeout(bucketId)
      PROVE  \A id \in BatchIds : Within(batch'[id])
  <2> DEFINE id == batches[bucketId]
  <2>1. id \in BatchIds
    BY <1>6 DEF CloseTimeout, IInv, TypeOK
  <2>2. batch' = [batch EXCEPT ![id] = scheduleInsert(lock(batch[id]))]
    BY <1>6 DEF CloseTimeout
  <2> QED
    BY <2>1, <2>2, <1>1, <1>5, NotPushedMethods
<1>7. ASSUME NEW id \in BatchIds, InsertTimeout(id)
      PROVE  \A i \in BatchIds : Within(batch'[i])
  <2>1. batch' = [batch EXCEPT ![id] = Pending(batch[id])]
    BY <1>7 DEF InsertTimeout
  <2> QED
    BY <2>1, <1>1, <1>5, NotPushedMethods
<1>8. ASSUME NEW call \in inserting, InsertSucceeded(call) \/ InsertFailed(call)
      PROVE  \A i \in BatchIds : Within(batch'[i])
  <2>1. call.id \in BatchIds
    BY DEF IInv, TypeOK
  <2>2. \/ batch' = [batch EXCEPT ![call.id] = clear(done(batch[call.id]))]
        \/ batch' = [batch EXCEPT ![call.id] = clear(batch[call.id])]
        \/ batch' = [batch EXCEPT ![call.id] = scheduleInsert(batch[call.id])]
    BY <1>8 DEF InsertSucceeded, InsertFailed, RetryOrDrop
  <2> QED
    BY <2>1, <2>2, <1>1, <1>5, NotPushedMethods
<1>9. CASE stop
  <2>1. \A id \in BatchIds : batch'[id] = batch[id] \/ batch'[id] = clear(batch[id])
    BY <1>9 DEF stop
  <2> QED
    BY <2>1, <1>1, <1>2, NotPushedMethods
<1>10. CASE UNCHANGED vars
  BY <1>1, <1>10 DEF vars
<1> QED
  BY <1>4, <1>6, <1>7, <1>8, <1>9, <1>10 DEF Next, Timers, Answered

\* A batch goes to the database with at most maxRecordCount records and less than the
\* longest record over maxSize (Batch.ts 150-154, BatchManager.ts 70-91).
THEOREM Bounds == Spec => []BatchesAreBounded
<1>1. Init => BatchesAreBounded
  <2> SUFFICES ASSUME Init, NEW id \in BatchIds PROVE Within(batch[id])
    BY DEF BatchesAreBounded, Within
  <2>1. batch[id] = Absent
    BY DEF Init
  <2> QED
    BY <2>1, NewWithin
<1>2. IInv /\ BatchesAreBounded /\ [Next]_vars => BatchesAreBounded'
  BY BoundsStep
<1> QED
  BY <1>1, <1>2, Invariance, PTL DEF Spec
=============================================================================
