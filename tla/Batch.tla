------------------------------- MODULE Batch -------------------------------
(***************************************************************************)
(* plugins/logStore/Batch.ts: records on their way to Cassandra.  A batch  *)
(* is a record of its fields; the operators give the batch after a call.   *)
(* Its one timer either locks it (close) or makes it pending (insert); an  *)
(* InsertRecord is a number and the size its payload has.                  *)
(***************************************************************************)
EXTENDS Integers, FiniteSets

CONSTANTS maxSize, maxRecordCount, maxRetries

\* The checks of the constructor.
ASSUME BatchAssumption ==
    /\ maxSize \in Nat \ {0}
    /\ maxRecordCount \in Nat \ {0}
    /\ maxRetries \in Nat \ {0}

\* A batch that has not been created yet is "absent".
States == {"absent", "opened", "locked", "pending", "inserted"}

Batches(Record) ==
    [records : SUBSET Record, size : Nat, retries : 0..maxRetries, state : States,
     doneCbs : SUBSET Record, timeout : {"none", "close", "insert"}]

Absent == [records |-> {}, size |-> 0, retries |-> 0, state |-> "absent",
           doneCbs |-> {}, timeout |-> "none"]

NewBatch == [Absent EXCEPT !.state = "opened", !.timeout = "close"]

\* Every caller passes a doneCb.
push(batch, record, length) ==
    [batch EXCEPT !.records = @ \cup {record}, !.size = @ + length,
                  !.doneCbs = @ \cup {record}]

\* Mutant: only the size is looked at.
isFullBySize(batch) == batch.size >= maxSize

isFull(batch) ==
    batch.size >= maxSize \/ Cardinality(batch.records) >= maxRecordCount

\* Mutant: the batch is put in a state of another name.
close(batch) == [batch EXCEPT !.timeout = "none", !.state = "closed"]

lock(batch) == [batch EXCEPT !.timeout = "none", !.state = "locked"]

scheduleInsert(batch) == [batch EXCEPT !.timeout = "insert"]

\* Mutant: an interval instead of a timeout.
PendingRepeatedly(batch) ==
    [batch EXCEPT !.state = "pending", !.retries = IF @ < maxRetries THEN @ + 1 ELSE @]

\* The timer of scheduleInsert goes off.
Pending(batch) ==
    [batch EXCEPT !.timeout = "none", !.state = "pending",
                  !.retries = IF @ < maxRetries THEN @ + 1 ELSE @]

\* Mutant: off by one.
exceededMaxRetries(batch) == batch.retries > maxRetries

reachedMaxRetries(batch) == batch.retries = maxRetries

\* Who is called back is for the caller to note.
done(batch) == [batch EXCEPT !.doneCbs = {}]

clear(batch) == [batch EXCEPT !.timeout = "none", !.records = {}, !.state = "inserted"]
=============================================================================
