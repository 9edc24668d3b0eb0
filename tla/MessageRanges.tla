----------------------------- MODULE MessageRanges -----------------------------
(***************************************************************************)
(* The conditions under which a stored message belongs to the answer of a  *)
(* range query, as SQLiteDBAdapter and CassandraDBAdapter put them, beside  *)
(* what is meant: the messages between two references.  A message or a      *)
(* reference is a record with fields ts and seq.                            *)
(***************************************************************************)
EXTENDS Integers

CONSTANT MaxSeq     \* MAX_SEQUENCE_NUMBER_VALUE

ASSUME MaxSeqAssumption == MaxSeq \in Nat \ {0}

\* MIN_SEQUENCE_NUMBER_VALUE
MinSeq == 0

\* MessageRef.compareTo: the order of messages.
LexLeq(a, b) == a.ts < b.ts \/ (a.ts = b.ts /\ a.seq <= b.seq)

\* What a range query is for.
InRange(m, from, to) == LexLeq(from, m) /\ LexLeq(m, to)

\* Mutant: the sequence number of the end is not looked at.
AnySequenceFrom(from, to) == from.seq = MinSeq

\* The sequence numbers filter nothing out.
AnySequence(from, to) == from.seq = MinSeq /\ to.seq = MaxSeq

\* getTemporalConditionSlices of SQLiteDBAdapter.queryRange
TemporalCondition(m, from, to) ==
    IF AnySequence(from, to) THEN from.ts <= m.ts /\ m.ts <= to.ts
    ELSE IF from.ts = to.ts THEN m.ts = from.ts /\ from.seq <= m.seq /\ m.seq <= to.seq
    ELSE \/ m.ts = from.ts /\ m.seq >= from.seq
         \/ from.ts < m.ts /\ m.ts < to.ts
         \/ m.ts = to.ts /\ m.seq <= to.seq

\* The queries of CassandraDBAdapter.queryRange, one after the other.
Slices(from, to) ==
    IF AnySequence(from, to) THEN <<"whole">>
    ELSE IF from.ts = to.ts THEN <<"instant">>
    ELSE <<"first", "between", "last">>

InSlice(slice, m, from, to) ==
    CASE slice = "whole"   -> from.ts <= m.ts /\ m.ts <= to.ts
      [] slice = "instant" -> m.ts = from.ts /\ from.seq <= m.seq /\ m.seq <= to.seq
      [] slice = "first"   -> m.ts = from.ts /\ m.seq >= from.seq
      [] slice = "between" -> from.ts < m.ts /\ m.ts < to.ts
      [] slice = "last"    -> m.ts = to.ts /\ m.seq <= to.seq
=============================================================================
