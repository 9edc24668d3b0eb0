---------------------------- MODULE DatabaseQueries ----------------------------
(***************************************************************************)
(* The read operations of SQLiteDBAdapter and CassandraDBAdapter as         *)
(* operators on R, the set of rows of stream_data.  A row has a stream part *)
(* (part), a reference (ts, seq), a publisher and a message chain.  In      *)
(* Cassandra a bucket is in the table once it has a row.  Where a range or  *)
(* the last messages are read, a row is taken to be in the bucket created   *)
(* last up to its timestamp (BucketOf); BucketManager is about what can     *)
(* differ from that.  The look-up of references, the dates and the number   *)
(* are for any placement B of the rows in buckets created up to their       *)
(* timestamps.                                                              *)
(***************************************************************************)
EXTENDS MessageRanges, SequencesExt

CONSTANTS
    BucketDates,      \* creation times of buckets
    MaxResendLast     \* MAX_RESEND_LAST

ASSUME BucketAssumption == BucketDates \subseteq Nat /\ MaxResendLast \in Nat

\* The value a parameter that was not given has here.
None == "none"
NoLimit == 0

Of(R, part) == {m \in R : m.part = part}
Precedes(a, b) == a.ts < b.ts \/ (a.ts = b.ts /\ a.seq < b.seq)
IsOrdered(s) == \A i, j \in 1 .. Len(s) : i < j => ~Precedes(s[j], s[i])

\* ORDER BY ts, sequence_no
Ordered(S) == CHOOSE s \in SetToSeqs(S) : IsOrdered(s)

\* if (limit) ... LIMIT
Limited(s, limit) == IF limit = NoLimit THEN s ELSE SubSeq(s, 1, Min({limit, Len(s)}))
FirstOf(s, n) == SubSeq(s, 1, Min({n, Len(s)}))
LastOf(s, n) == SubSeq(s, Max({1, Len(s) - n + 1}), Len(s))

\* The conditions on publisher_id and msg_chain_id, if they are given.
Matches(m, publisher, chain) ==
    /\ publisher = None \/ m.publisher = publisher
    /\ chain = None \/ m.chain = chain

-----------------------------------------------------------------------------
(* SQLite: a statement is executed at once and its rows streamed. *)

sqliteRange(R, q) ==
    Limited(Ordered({m \in Of(R, q.part) : /\ TemporalCondition(m, q.from, q.to)
                                           /\ Matches(m, q.publisher, q.chain)}), q.limit)

\* queryTake: the first n, or the last -n, in ascending order.
sqliteTake(R, part, n) ==
    IF n > 0 THEN FirstOf(Ordered(Of(R, part)), n) ELSE LastOf(Ordered(Of(R, part)), -n)

\* queryByMessageRefs: all messages of each reference, in the order of the references.
sqliteByRefs(R, part, refs) ==
    FlattenSeq([i \in 1 .. Len(refs) |->
                  Ordered({m \in Of(R, part) : m.ts = refs[i].ts /\ m.seq = refs[i].seq})])

\* The primary key: a message with all four fields of another is refused.
sqliteRefuses(R, m) == m \in R

\* getFirst- and getLastMessageDateInStream, where there is a row (firstValueFrom rejects
\* otherwise).
sqliteDates(R, part) == LET ts == {m.ts : m \in Of(R, part)} IN <<Min(ts), Max(ts)>>

\* getNumberOfMessagesInStream, where there is a row of the part: HAVING without GROUP BY
\* lets the one group, the whole table, pass or not.
sqliteNumberOfMessages(R, part) == Cardinality(R)

-----------------------------------------------------------------------------
(* Cassandra *)

BucketOf(m) == Max({d \in BucketDates : d <= m.ts})
Saved(R, part) == {BucketOf(m) : m \in Of(R, part)}
InBuckets(R, part, bs) == {m \in Of(R, part) : BucketOf(m) \in bs}

\* Mutant: the bucket that was created before the range is left out.
bucketsWithin(saved, from, to) == {d \in saved : from < d /\ d <= to}

\* The buckets created in the range, and the last before it, of those that are saved.
getBucketsByTimestamp(saved, from, to) ==
    LET earlier == {d \in saved : d <= from} IN
    {d \in saved : from < d /\ d <= to} \cup (IF earlier = {} THEN {} ELSE {Max(earlier)})

\* One slice of queryRange over the buckets bs.  The statement has no ORDER BY: the rows
\* of a bucket are in order, the buckets come in the order `order`.
cassandraSlice(R, q, slice, bs, order) ==
    LET of(d) == Ordered({m \in InBuckets(R, q.part, {d} \cap bs) :
                            /\ InSlice(slice, m, q.from, q.to)
                            /\ Matches(m, q.publisher, q.chain)})
    IN  Limited(FlattenSeq([i \in 1 .. Len(order) |-> of(order[i])]), q.limit)

takeLimit(n) == Min({IF n > 0 THEN n ELSE -n, MaxResendLast})

\* Mutant: one bucket is taken to have enough.
latestBucket(R, part, n) == {d \in Saved(R, part) : \A e \in Saved(R, part) : e <= d}

\* queryTake pages through the buckets, latest first, until those it has seen have
\* enough messages: whether the last or the first messages are asked for.
takeBuckets(R, part, n) ==
    {d \in Saved(R, part) :
       LET newer == {e \in Saved(R, part) : e > d} IN
       newer = {} \/ Cardinality(InBuckets(R, part, newer)) < takeLimit(n)}

cassandraTake(R, part, n, bs) ==
    LET rows == Ordered(InBuckets(R, part, bs)) IN
    IF n > 0 THEN FirstOf(rows, takeLimit(n)) ELSE LastOf(rows, takeLimit(n))

\* Where the rows may be: a bucket is created before its first message, and goes on taking
\* messages when there is a later one (BucketManager.ts 160-176).
Placements(R) == {B \in [R -> BucketDates] : \A m \in R : B[m] <= m.ts}
SavedBy(B, R, part) == {B[m] : m \in Of(R, part)}
HeldBy(B, R, part, bs) == {m \in Of(R, part) : B[m] \in bs}

\* queryByMessageRefs: for each reference one row, of the bucket created last before it.  A
\* reference of which there is no row in that is skipped.
cassandraByRefs(B, R, part, refs) ==
    LET bucket(r) == getBucketsByTimestamp(SavedBy(B, R, part), r.ts, r.ts)
        found(r) == {m \in HeldBy(B, R, part, bucket(r)) : m.ts = r.ts /\ m.seq = r.seq}
        one(r) == IF found(r) = {} THEN <<>> ELSE <<CHOOSE m \in found(r) : TRUE>>
    IN  FlattenSeq([i \in 1 .. Len(refs) |-> one(refs[i])])

\* getFirst- and getLastMessageDateInStream: the first row of the earliest bucket and the
\* last row of the latest one.
cassandraDates(B, R, part) ==
    LET saved == SavedBy(B, R, part)
        tsIn(d) == {m.ts : m \in HeldBy(B, R, part, {d})} IN
    <<Min(tsIn(Min(saved))), Max(tsIn(Max(saved)))>>

\* The sum over the rows of the table bucket.
cassandraNumberOfMessages(B, R, part) ==
    FoldSet(LAMBDA d, n : n + Cardinality(HeldBy(B, R, part, {d})), 0, SavedBy(B, R, part))
=============================================================================
