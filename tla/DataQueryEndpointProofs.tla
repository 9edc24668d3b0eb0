------------------------ MODULE DataQueryEndpointProofs ------------------------
(***************************************************************************)
(* Proofs about DataQueryEndpoint and the queries it makes: what the        *)
(* conditions of a range select, what the sorted and limited sequences of   *)
(* rows are, that a complete response to a range or to "last n" is exact,   *)
(* and that the two adapters agree, for any rows, buckets, requests, limits *)
(* and number of stores.                                                    *)
(***************************************************************************)
EXTENDS DataQueryEndpoint, FiniteSetTheorems, WellFoundedInduction, TLAPS

-----------------------------------------------------------------------------
(* Ranges *)

\* A reference, and what is stored under one: sequence numbers go from MinSeq to MaxSeq.
IsRef(r) == r.ts \in Int /\ r.seq \in Int
IsMessage(m) == m.ts \in Nat /\ m.seq \in 0 .. MaxSeq

\* The WHERE clause of SQLiteDBAdapter.queryRange selects exactly the messages between
\* the two references: the shortcut for sequence numbers that filter nothing out, and
\* the clause for a single millisecond, are right.
THEOREM ConditionIsExact ==
    ASSUME NEW m, IsMessage(m), NEW from, IsRef(from), NEW to, IsRef(to), from.ts <= to.ts
    PROVE  TemporalCondition(m, from, to) <=> InRange(m, from, to)
<1>0. m.ts \in Int /\ m.seq \in Int /\ 0 <= m.seq /\ m.seq <= MaxSeq /\ MaxSeq \in Int
  BY MaxSeqAssumption DEF IsMessage
<1>1. CASE AnySequence(from, to)
  BY <1>0, <1>1 DEF AnySequence, MinSeq, TemporalCondition, InRange, LexLeq, IsRef
<1>2. CASE ~AnySequence(from, to) /\ from.ts = to.ts
  BY <1>0, <1>2 DEF TemporalCondition, InRange, LexLeq, IsRef
<1>3. CASE ~AnySequence(from, to) /\ from.ts # to.ts
  BY <1>0, <1>3 DEF TemporalCondition, InRange, LexLeq, IsRef
<1> QED
  BY <1>1, <1>2, <1>3

\* The statements CassandraDBAdapter.queryRange makes of a range have, together, exactly
\* the messages SQLite would select, whichever of the three forms they take.
THEOREM SlicesAreExact ==
    ASSUME NEW m, NEW from, NEW to
    PROVE  (\E i \in DOMAIN Slices(from, to) : InSlice(Slices(from, to)[i], m, from, to))
           <=> TemporalCondition(m, from, to)
<1> DEFINE S == Slices(from, to)
<1>1. CASE AnySequence(from, to)
  <2>1. S = <<"whole">>
    BY <1>1 DEF Slices
  <2>2. (\E i \in DOMAIN S : InSlice(S[i], m, from, to)) <=> InSlice("whole", m, from, to)
    BY <2>1
  <2> QED
    BY <2>2, <1>1 DEF InSlice, TemporalCondition
<1>2. CASE ~AnySequence(from, to) /\ from.ts = to.ts
  <2>1. S = <<"instant">>
    BY <1>2 DEF Slices
  <2>2. (\E i \in DOMAIN S : InSlice(S[i], m, from, to)) <=> InSlice("instant", m, from, to)
    BY <2>1
  <2> QED
    BY <2>2, <1>2 DEF InSlice, TemporalCondition
<1>3. CASE ~AnySequence(from, to) /\ from.ts # to.ts
  <2>1. S = <<"first", "between", "last">>
    BY <1>3 DEF Slices
  <2>2. DOMAIN S = {1, 2, 3} /\ S[1] = "first" /\ S[2] = "between" /\ S[3] = "last"
    BY <2>1
  <2>3. (\E i \in DOMAIN S : InSlice(S[i], m, from, to))
        <=> \/ InSlice("first", m, from, to)
            \/ InSlice("between", m, from, to)
            \/ InSlice("last", m, from, to)
    BY <2>2
  <2> QED
    BY <2>3, <1>3 DEF InSlice, TemporalCondition
<1> QED
  BY <1>1, <1>2, <1>3

\* A message of an earlier statement of a range precedes one of a later statement: merging
\* their results repeats no message and keeps the order.
THEOREM SlicesAscend ==
    ASSUME NEW from, IsRef(from), NEW to, IsRef(to), from.ts <= to.ts,
           NEW m, IsMessage(m), NEW o, IsMessage(o),
           NEW i \in DOMAIN Slices(from, to), NEW j \in DOMAIN Slices(from, to), i < j,
           InSlice(Slices(from, to)[i], m, from, to),
           InSlice(Slices(from, to)[j], o, from, to)
    PROVE  Precedes(m, o)
<1> DEFINE S == Slices(from, to)
<1>0. m.ts \in Int /\ o.ts \in Int /\ from.ts \in Int /\ to.ts \in Int
  BY DEF IsMessage, IsRef
<1>1. CASE AnySequence(from, to) \/ from.ts = to.ts
  <2>1. S = <<"whole">> \/ S = <<"instant">>
    BY <1>1 DEF Slices
  <2> QED
    BY <2>1
<1>2. CASE ~AnySequence(from, to) /\ from.ts # to.ts
  <2>1. S = <<"first", "between", "last">>
    BY <1>2 DEF Slices
  <2>2. DOMAIN S = {1, 2, 3} /\ S[1] = "first" /\ S[2] = "between" /\ S[3] = "last"
    BY <2>1
  <2>3. \A x : /\ InSlice("first", x, from, to) => x.ts = from.ts
               /\ InSlice("between", x, from, to) => from.ts < x.ts /\ x.ts < to.ts
               /\ InSlice("last", x, from, to) => x.ts = to.ts
    BY DEF InSlice
  <2>4. \/ InSlice("first", m, from, to) /\ InSlice("between", o, from, to)
        \/ InSlice("first", m, from, to) /\ InSlice("last", o, from, to)
        \/ InSlice("between", m, from, to) /\ InSlice("last", o, from, to)
    BY <2>2
  <2>5. m.ts < o.ts
    BY <1>0, <1>2, <2>3, <2>4
  <2> QED
    BY <2>5 DEF Precedes
<1> QED
  BY <1>1, <1>2

-----------------------------------------------------------------------------
(* Sequences of rows *)

Distinct(s) == \A i, j \in 1 .. Len(s) : s[i] = s[j] => i = j

\* s has every element of S once and nothing else.
Lists(s, S) == s \in Seq(S) /\ Distinct(s) /\ \A x \in S : \E i \in 1 .. Len(s) : s[i] = x

\* A nonempty set of natural numbers has a least element.
LEMMA LeastNatural ==
  ASSUME NEW S, S \subseteq Nat, S # {}
  PROVE  \E x \in S : \A y \in S : x <= y
<1>1. PICK x \in S : \A y \in S : ~(<<y, x>> \in OpToRel(<, Nat))
  BY NatLessThanWellFounded, WFMin
<1>2. \A y, z \in Nat : y < z => <<y, z>> \in OpToRel(<, Nat)
  BY DEF OpToRel
<1>3. \A y \in S : ~(y < x)
  BY <1>1, <1>2
<1> QED
  BY <1>3

\* A sequence is a function on its places.
LEMMA SeqIsFunction ==
  ASSUME NEW S, NEW s \in Seq(S)
  PROVE  Len(s) \in Nat /\ s \in [1 .. Len(s) -> S] /\ DOMAIN s = 1 .. Len(s) /\ ToSet(s) = {s[i] : i \in 1 .. Len(s)}
<1>1. Len(s) \in Nat /\ s \in [1 .. Len(s) -> S] /\ DOMAIN s = 1 .. Len(s)
  OBVIOUS
<1> QED
  BY <1>1 DEF ToSet

\* The smaller and the greater of two numbers.
LEMMA TwoNumbers ==
  ASSUME NEW a \in Int, NEW b \in Int
  PROVE  /\ Min({a, b}) = IF a <= b THEN a ELSE b
         /\ Max({a, b}) = IF a <= b THEN b ELSE a
<1>1. \E x \in {a, b} : \A y \in {a, b} : x =< y
  OBVIOUS
<1>2. Min({a, b}) \in {a, b} /\ \A y \in {a, b} : Min({a, b}) =< y
  BY <1>1, Zenon DEF Min
<1>3. \E x \in {a, b} : \A y \in {a, b} : x >= y
  OBVIOUS
<1>4. Max({a, b}) \in {a, b} /\ \A y \in {a, b} : Max({a, b}) >= y
  BY <1>3, Zenon DEF Max
<1> QED
  BY <1>2, <1>4

\* A sequence that lists a set is as long as the set is large.
LEMMA ListsCounts ==
  ASSUME NEW S, NEW s, Lists(s, S)
  PROVE  IsFiniteSet(S) /\ Cardinality(S) = Len(s) /\ ToSet(s) = S
<1>1. Len(s) \in Nat /\ s \in [1 .. Len(s) -> S] /\ ToSet(s) = {s[i] : i \in 1 .. Len(s)}
  BY SeqIsFunction DEF Lists
<1> DEFINE n == Len(s)
<1>2. IsFiniteSet(1 .. n) /\ Cardinality(1 .. n) = n
  BY <1>1, FS_Interval
<1>3. s \in Injection(1 .. n, S) /\ s \in Surjection(1 .. n, S)
  BY <1>1 DEF Lists, Distinct, Injection, IsInjective, Surjection
<1>4. ExistsBijection(1 .. n, S)
  BY <1>3 DEF ExistsBijection, Bijection
<1>5. IsFiniteSet(S) /\ Cardinality(S) = n
  BY <1>2, <1>4, FS_Bijection
<1> QED
  BY <1>1, <1>5 DEF Lists

\* The members of SetToSeqs list the set.
LEMMA SeqsList ==
  ASSUME NEW S, IsFiniteSet(S), NEW s \in SetToSeqs(S)
  PROVE  Lists(s, S) /\ Len(s) = Cardinality(S)
<1> DEFINE n == Cardinality(S)
<1>1. n \in Nat
  BY FS_CardinalityType
<1>2. s \in [1 .. n -> S] /\ \A i, j \in 1 .. n : i # j => s[i] # s[j]
  BY DEF SetToSeqs
<1>3. IsFiniteSet(1 .. n) /\ Cardinality(1 .. n) = n
  BY <1>1, FS_Interval
<1>4. s \in Injection(1 .. n, S)
  BY <1>2 DEF Injection, IsInjective
<1>5. s \in Surjection(1 .. n, S)
  BY <1>3, <1>4, FS_Injection
<1>6. \A x \in S : \E k \in 1 .. n : s[k] = x
  BY <1>5 DEF Surjection
<1>7. Len(s) = n /\ s \in Seq(S)
  BY <1>1, <1>2
<1>8. Distinct(s)
  BY <1>2, <1>7 DEF Distinct
<1> QED
  BY <1>6, <1>7, <1>8 DEF Lists

\* A sequence without repetitions has as many elements as places.
LEMMA DistinctIsOnce ==
  ASSUME NEW S, NEW s \in Seq(S), Distinct(s)
  PROVE  IsOnce(s)
<1>1. Len(s) \in Nat /\ s \in [1 .. Len(s) -> S] /\ ToSet(s) = {s[i] : i \in 1 .. Len(s)}
  BY SeqIsFunction
<1>2. s \in Seq(ToSet(s)) /\ \A x \in ToSet(s) : \E i \in 1 .. Len(s) : s[i] = x
  BY <1>1
<1>3. Lists(s, ToSet(s))
  BY <1>2 DEF Lists
<1> QED
  BY <1>3, ListsCounts DEF IsOnce

-----------------------------------------------------------------------------
(* ORDER BY *)

\* What is known of a row.
LEMMA RowIsMessage ==
  ASSUME NEW m \in Rows
  PROVE  /\ m.ts \in Nat /\ m.ts < MaxTs /\ MaxTs \in Nat
         /\ m.seq \in Nat /\ m.seq <= MaxSeq
         /\ IsMessage(m)
  BY EndpointAssumption, MaxSeqAssumption DEF IsMessage

\* Of some rows one is not preceded by any other.
LEMMA FirstRow ==
  ASSUME NEW S \in SUBSET Rows, S # {}
  PROVE  \E m \in S : \A o \in S : ~Precedes(o, m)
<1> DEFINE Times == {m.ts : m \in S}
<1>1. \A m \in S : m.ts \in Nat /\ m.seq \in Nat
  BY RowIsMessage
<1>2. PICK t \in Times : \A u \in Times : t <= u
  BY <1>1, LeastNatural
<1> DEFINE Numbers == {m.seq : m \in {x \in S : x.ts = t}}
<1>a. Numbers \subseteq Nat /\ Numbers # {}
  BY <1>1, <1>2
<1> HIDE DEF Numbers
<1>3. PICK n \in Numbers : \A k \in Numbers : n <= k
  BY <1>a, LeastNatural
<1> USE DEF Numbers
<1>4. PICK m \in S : m.ts = t /\ m.seq = n
  BY <1>3
<1>5. \A o \in S : t <= o.ts /\ (o.ts = t => n <= o.seq)
  BY <1>2, <1>3
<1>6. \A o \in S : ~Precedes(o, m)
  BY <1>1, <1>4, <1>5 DEF Precedes
<1> QED
  BY <1>6

\* An order of S \ {m} with m put before it.
Prepended(m, s, n) == [i \in 1 .. n |-> IF i = 1 THEN m ELSE s[i - 1]]

\* Every set of rows can be put in order.
LEMMA OrderExists ==
  ASSUME NEW S \in SUBSET Rows
  PROVE  \E s \in SetToSeqs(S) : IsOrdered(s)
<1> DEFINE Good(T) == \E s \in SetToSeqs(T) : IsOrdered(s)
           Sizes == {n \in Nat : \E T \in SUBSET Rows : Cardinality(T) = n /\ ~Good(T)}
<1>1. \A T \in SUBSET Rows : IsFiniteSet(T) /\ Cardinality(T) \in Nat
  BY EndpointAssumption, FS_Subset, FS_CardinalityType
<1>2. ASSUME Sizes # {}
      PROVE  FALSE
  <2>1. PICK n \in Sizes : \A k \in Sizes : n <= k
    BY <1>2, LeastNatural
  <2>2. PICK T \in SUBSET Rows : Cardinality(T) = n /\ ~Good(T)
    BY <2>1
  <2>3. CASE T = {}
    <3>1. Cardinality(T) = 0
      BY <2>3, FS_EmptySet
    <3> DEFINE e == [i \in 1 .. 0 |-> 0]
    <3>2. e \in [1 .. 0 -> T] /\ Len(e) = 0
      OBVIOUS
    <3>3. e \in SetToSeqs(T) /\ IsOrdered(e)
      BY <3>1, <3>2 DEF SetToSeqs, IsOrdered
    <3> QED
      BY <2>2, <3>3
  <2>4. CASE T # {}
    <3>1. PICK m \in T : \A o \in T : ~Precedes(o, m)
      BY <2>4, FirstRow
    <3> DEFINE U == T \ {m}
    <3>2. Cardinality(U) = n - 1 /\ U \in SUBSET Rows /\ n \in Nat
      BY <1>1, <2>1, <2>2, FS_RemoveElement
    <3>3. n - 1 \notin Sizes /\ n - 1 \in Nat
      BY <1>1, <2>1, <3>2
    <3>4. Good(U)
      BY <3>2, <3>3
    <3>5. PICK s \in SetToSeqs(U) : IsOrdered(s)
      BY <3>4
    <3>6. /\ s \in [1 .. n - 1 -> U] /\ Len(s) = n - 1
          /\ \A i, j \in 1 .. n - 1 : i # j => s[i] # s[j]
      <4>1. /\ s \in [1 .. Cardinality(U) -> U]
            /\ \A i, j \in 1 .. Cardinality(U) : i # j => s[i] # s[j]
        BY <3>5 DEF SetToSeqs
      <4>2. Cardinality(U) = n - 1 /\ n - 1 \in Nat
        BY <3>2, <3>3
      <4> HIDE DEF U
      <4>3. /\ s \in [1 .. n - 1 -> U]
            /\ \A i, j \in 1 .. n - 1 : i # j => s[i] # s[j]
        BY <4>1, <4>2
      <4>4. Len(s) = n - 1
        BY <4>2, <4>3
      <4> QED
        BY <4>3, <4>4
    <3> DEFINE p == Prepended(m, s, n)
    <3>7. /\ DOMAIN p = 1 .. n /\ Len(p) = n /\ n >= 1 /\ p[1] = m
          /\ \A i \in 2 .. n : p[i] = s[i - 1] /\ i - 1 \in 1 .. n - 1
      BY <3>2, <3>3 DEF Prepended
    <3>8. \A i \in 2 .. n : p[i] \in U
      BY <3>6, <3>7
    <3>9. p \in [1 .. n -> T]
      <4>1. \A i \in 1 .. n : i = 1 \/ i \in 2 .. n
        BY <3>2
      <4>2. \A i \in 1 .. n : p[i] \in T
        BY <3>7, <3>8, <4>1
      <4>3. p = [i \in 1 .. n |-> p[i]]
        BY <3>7 DEF Prepended
      <4> HIDE DEF p
      <4> QED
        BY <4>2, <4>3
    <3>10. \A i, j \in 1 .. n : i # j => p[i] # p[j]
      BY <3>2, <3>6, <3>7, <3>8
    <3>11. IsOrdered(p)
      <4> SUFFICES ASSUME NEW i \in 1 .. n, NEW j \in 1 .. n, i < j
                   PROVE  ~Precedes(p[j], p[i])
        BY <3>7 DEF IsOrdered
      <4>1. CASE i = 1
        BY <4>1, <3>1, <3>7, <3>9
      <4>2. CASE i # 1
        <5>1. i \in 2 .. n /\ j \in 2 .. n /\ i - 1 < j - 1
          BY <4>2, <3>2
        <5> QED
          BY <5>1, <3>5, <3>6, <3>7 DEF IsOrdered
      <4> QED
        BY <4>1, <4>2
    <3>12. p \in SetToSeqs(T)
      BY <2>2, <3>9, <3>10 DEF SetToSeqs
    <3> QED
      BY <2>2, <3>11, <3>12
  <2> QED
    BY <2>3, <2>4
<1> QED
  BY <1>1, <1>2

\* ORDER BY ts, sequence_no gives every row once, and in order.
LEMMA OrderedLists ==
  ASSUME NEW S \in SUBSET Rows
  PROVE  Lists(Ordered(S), S) /\ IsOrdered(Ordered(S))
<1>1. Ordered(S) \in SetToSeqs(S) /\ IsOrdered(Ordered(S))
  BY OrderExists, Zenon DEF Ordered
<1>2. IsFiniteSet(S)
  BY EndpointAssumption, FS_Subset
<1> QED
  BY <1>1, <1>2, SeqsList

-----------------------------------------------------------------------------
(* LIMIT *)

\* A part of a sequence, as its places are numbered.
LEMMA Places ==
  ASSUME NEW S, NEW s \in Seq(S), NEW a \in Nat \ {0}, NEW b \in Nat, a - 1 <= b, b <= Len(s)
  PROVE  /\ SubSeq(s, a, b) \in Seq(S) /\ Len(SubSeq(s, a, b)) = b - a + 1
         /\ \A i \in 1 .. b - a + 1 : SubSeq(s, a, b)[i] = s[a + i - 1]
  OBVIOUS

\* What a part of a sequence has, and what it keeps of the whole.
IsPart(t, s, S, a, b) ==
    /\ t \in Seq(S) /\ Len(t) = b - a + 1
    /\ \A i \in 1 .. Len(t) : t[i] = s[a + i - 1]
    /\ \A i \in a .. b : s[i] \in ToSet(t)
    /\ Distinct(s) => Distinct(t)
    /\ IsOrdered(s) => IsOrdered(t)

\* A part of a sequence has no repetitions and is in order if the whole is.
LEMMA PartIsPart ==
  ASSUME NEW S, NEW s \in Seq(S), NEW a \in Nat \ {0}, NEW b \in Nat, a - 1 <= b, b <= Len(s)
  PROVE  IsPart(SubSeq(s, a, b), s, S, a, b)
<1> DEFINE t == SubSeq(s, a, b)
<1>1. t \in Seq(S) /\ Len(t) = b - a + 1 /\ \A i \in 1 .. Len(t) : t[i] = s[a + i - 1]
  BY Places
<1> HIDE DEF t
<1>2. /\ Len(s) \in Nat /\ Len(t) \in Nat
      /\ \A i \in 1 .. Len(t) : a + i - 1 \in 1 .. Len(s)
  BY <1>1, SeqIsFunction
<1>3. \A i \in a .. b : s[i] \in ToSet(t)
  <2> SUFFICES ASSUME NEW i \in a .. b PROVE s[i] \in ToSet(t)
    OBVIOUS
  <2>1. i - a + 1 \in 1 .. Len(t) /\ a + (i - a + 1) - 1 = i
    BY <1>1, <1>2
  <2>2. t[i - a + 1] = s[i]
    BY <2>1, <1>1
  <2>3. ToSet(t) = {t[k] : k \in 1 .. Len(t)}
    BY <1>1, SeqIsFunction
  <2> QED
    BY <2>1, <2>2, <2>3
<1>4. ASSUME Distinct(s) PROVE Distinct(t)
  <2> SUFFICES ASSUME NEW i \in 1 .. Len(t), NEW j \in 1 .. Len(t), t[i] = t[j] PROVE i = j
    BY DEF Distinct
  <2>1. s[a + i - 1] = s[a + j - 1]
    BY <1>1
  <2>2. a + i - 1 = a + j - 1
    BY <2>1, <1>2, <1>4 DEF Distinct
  <2> QED
    BY <2>2
<1>5. ASSUME IsOrdered(s) PROVE IsOrdered(t)
  <2> SUFFICES ASSUME NEW i \in 1 .. Len(t), NEW j \in 1 .. Len(t), i < j
               PROVE  ~Precedes(t[j], t[i])
    BY DEF IsOrdered
  <2>1. a + i - 1 < a + j - 1
    OBVIOUS
  <2>2. ~Precedes(s[a + j - 1], s[a + i - 1])
    BY <2>1, <1>2, <1>5 DEF IsOrdered
  <2> QED
    BY <2>2, <1>1
<1> QED
  BY <1>1, <1>3, <1>4, <1>5 DEF IsPart, t

\* What a limited result has: it is cut only where it reaches the limit.
IsLimited(t, s, S, limit) ==
    /\ t \in Seq(S)
    /\ \A x \in ToSet(t) : x \in ToSet(s)
    /\ Distinct(s) => Distinct(t)
    /\ IsOrdered(s) => IsOrdered(t)
    /\ \A x \in ToSet(s) : x \in ToSet(t) \/ (limit # NoLimit /\ Len(t) = limit)

\* LIMIT gives the beginning of the result.
LEMMA LimitedIs ==
  ASSUME NEW S, NEW s \in Seq(S), NEW limit \in Nat
  PROVE  IsLimited(Limited(s, limit), s, S, limit)
<1>1. CASE limit = NoLimit
  <2>1. Limited(s, limit) = s
    BY <1>1 DEF Limited
  <2> QED
    BY <2>1 DEF IsLimited
<1>2. CASE limit # NoLimit
  <2> DEFINE k == Min({limit, Len(s)})
             t == SubSeq(s, 1, k)
  <2>1. Len(s) \in Nat /\ ToSet(s) = {s[i] : i \in 1 .. Len(s)}
    BY SeqIsFunction
  <2>2. k \in Nat /\ k <= Len(s) /\ (k = Len(s) \/ k = limit)
    BY <2>1, TwoNumbers
  <2>3. Limited(s, limit) = t
    BY <1>2 DEF Limited
  <2> HIDE DEF k
  <2>4. IsPart(t, s, S, 1, k)
    BY <2>1, <2>2, PartIsPart
  <2> HIDE DEF t
  <2>5. /\ t \in Seq(S) /\ Len(t) = k /\ \A i \in 1 .. Len(t) : t[i] = s[i]
        /\ \A i \in 1 .. k : s[i] \in ToSet(t)
        /\ Distinct(s) => Distinct(t)
        /\ IsOrdered(s) => IsOrdered(t)
    BY <2>2, <2>4 DEF IsPart
  <2>6. ToSet(t) = {t[i] : i \in 1 .. Len(t)}
    BY <2>5, SeqIsFunction
  <2>7. \A x \in ToSet(t) : x \in ToSet(s)
    BY <2>1, <2>2, <2>5, <2>6
  <2>8. \A x \in ToSet(s) : x \in ToSet(t) \/ Len(t) = limit
    BY <2>1, <2>2, <2>5
  <2> QED
    BY <1>2, <2>3, <2>5, <2>7, <2>8 DEF IsLimited
<1> QED
  BY <1>1, <1>2

\* s has n of the rows S, or all, in order; the first ones or the last ones.
IsTaken(s, S, n) ==
    s \in Seq(S) /\ Distinct(s) /\ IsOrdered(s) /\ Len(s) = Min({n, Cardinality(S)})
AreFirst(s, S) == \A m \in ToSet(s), o \in S \ ToSet(s) : ~Precedes(o, m)
AreLast(s, S) == \A m \in ToSet(s), o \in S \ ToSet(s) : ~Precedes(m, o)

\* ORDER BY ... ASC LIMIT n
LEMMA FirstOfIs ==
  ASSUME NEW S \in SUBSET Rows, NEW n \in Nat
  PROVE  IsTaken(FirstOf(Ordered(S), n), S, n) /\ AreFirst(FirstOf(Ordered(S), n), S)
<1> DEFINE s == Ordered(S)
           k == Min({n, Len(s)})
           t == FirstOf(s, n)
<1>1. s \in Seq(S) /\ Distinct(s) /\ IsOrdered(s) /\ \A x \in S : \E i \in 1 .. Len(s) : s[i] = x
  BY OrderedLists DEF Lists
<1>2. Cardinality(S) = Len(s)
  BY OrderedLists, ListsCounts
<1>3. Len(s) \in Nat
  BY <1>1, SeqIsFunction
<1> HIDE DEF s
<1>4. k \in Nat /\ k <= Len(s)
  BY <1>3, TwoNumbers
<1>5. t = SubSeq(s, 1, k)
  BY DEF FirstOf
<1> HIDE DEF t
<1>6. k = Min({n, Cardinality(S)})
  BY <1>2
<1> HIDE DEF k
<1>7. IsPart(t, s, S, 1, k)
  BY <1>1, <1>4, <1>5, PartIsPart
<1>8. /\ t \in Seq(S) /\ Len(t) = k /\ \A i \in 1 .. k : t[i] = s[i]
      /\ \A i \in 1 .. k : s[i] \in ToSet(t)
      /\ Distinct(t) /\ IsOrdered(t)
  BY <1>1, <1>4, <1>7 DEF IsPart
<1>9. IsTaken(t, S, n)
  BY <1>6, <1>8 DEF IsTaken
<1>10. ASSUME NEW m \in ToSet(t), NEW o \in S \ ToSet(t)
       PROVE  ~Precedes(o, m)
  <2>1. PICK i \in 1 .. k : t[i] = m
    BY <1>8, SeqIsFunction
  <2>2. PICK j \in 1 .. Len(s) : s[j] = o
    BY <1>1
  <2>3. i < j /\ i \in 1 .. Len(s)
    BY <1>3, <1>4, <1>8, <2>2
  <2> QED
    BY <1>1, <1>8, <2>1, <2>2, <2>3 DEF IsOrdered
<1> QED
  BY <1>9, <1>10 DEF AreFirst, s, t

\* ORDER BY ... DESC LIMIT n, turned round
LEMMA LastOfIs ==
  ASSUME NEW S \in SUBSET Rows, NEW n \in Nat
  PROVE  IsTaken(LastOf(Ordered(S), n), S, n) /\ AreLast(LastOf(Ordered(S), n), S)
<1> DEFINE s == Ordered(S)
           a == Max({1, Len(s) - n + 1})
           t == LastOf(s, n)
<1>1. s \in Seq(S) /\ Distinct(s) /\ IsOrdered(s) /\ \A x \in S : \E i \in 1 .. Len(s) : s[i] = x
  BY OrderedLists DEF Lists
<1>2. Cardinality(S) = Len(s)
  BY OrderedLists, ListsCounts
<1>3. Len(s) \in Nat
  BY <1>1, SeqIsFunction
<1> HIDE DEF s
<1>4. a \in Nat \ {0} /\ a - 1 <= Len(s) /\ a = IF n <= Len(s) THEN Len(s) - n + 1 ELSE 1
  <2>1. Len(s) - n + 1 \in Int
    BY <1>3
  <2>2. a = IF 1 <= Len(s) - n + 1 THEN Len(s) - n + 1 ELSE 1
    BY <2>1, TwoNumbers
  <2> QED
    BY <1>3, <2>2
<1>5. t = SubSeq(s, a, Len(s))
  BY DEF LastOf
<1> HIDE DEF t, a
<1>6. Len(s) - a + 1 = Min({n, Cardinality(S)})
  <2>1. Min({n, Cardinality(S)}) = IF n <= Len(s) THEN n ELSE Len(s)
    BY <1>2, <1>3, TwoNumbers
  <2>2. Len(s) - a + 1 = IF n <= Len(s) THEN n ELSE Len(s)
    BY <1>3, <1>4
  <2> QED
    BY <2>1, <2>2
<1>7. IsPart(t, s, S, a, Len(s))
  BY <1>1, <1>3, <1>4, <1>5, PartIsPart
<1>8. /\ t \in Seq(S) /\ Len(t) = Len(s) - a + 1 /\ \A i \in 1 .. Len(t) : t[i] = s[a + i - 1]
      /\ \A i \in a .. Len(s) : s[i] \in ToSet(t)
      /\ Distinct(t) /\ IsOrdered(t)
  BY <1>1, <1>7 DEF IsPart
<1>9. IsTaken(t, S, n)
  BY <1>6, <1>8 DEF IsTaken
<1>10. ASSUME NEW m \in ToSet(t), NEW o \in S \ ToSet(t)
       PROVE  ~Precedes(m, o)
  <2>1. PICK i \in 1 .. Len(t) : t[i] = m
    BY <1>8, SeqIsFunction
  <2>2. PICK j \in 1 .. Len(s) : s[j] = o
    BY <1>1
  <2>3. j < a + i - 1 /\ a + i - 1 \in 1 .. Len(s)
    BY <1>3, <1>4, <1>8, <2>2
  <2>4. s[a + i - 1] = m
    BY <1>8, <2>1
  <2> QED
    BY <1>1, <2>2, <2>3, <2>4 DEF IsOrdered
<1> QED
  BY <1>9, <1>10 DEF AreLast, s, t

-----------------------------------------------------------------------------
(* Results that are merged *)

\* A sequence and one put behind it.
LEMMA Behind ==
  ASSUME NEW S, NEW s \in Seq(S), NEW t \in Seq(S)
  PROVE  /\ s \o t \in Seq(S) /\ Len(s \o t) = Len(s) + Len(t)
         /\ \A i \in 1 .. Len(s) + Len(t) : (s \o t)[i] = IF i <= Len(s) THEN s[i] ELSE t[i - Len(s)]
  OBVIOUS

\* What is merged from two sequences.
IsMerged(u, s, t, S) ==
    /\ u \in Seq(S) /\ Len(u) = Len(s) + Len(t)
    /\ \A x : x \in ToSet(u) <=> x \in ToSet(s) \/ x \in ToSet(t)
    /\ Distinct(s) /\ Distinct(t) /\ (\A x \in ToSet(s) : x \notin ToSet(t)) => Distinct(u)
    /\ IsOrdered(s) /\ IsOrdered(t) /\ (\A x \in ToSet(s), y \in ToSet(t) : ~Precedes(y, x))
          => IsOrdered(u)

\* Putting one sequence behind another merges them.
LEMMA BehindIsMerged ==
  ASSUME NEW S, NEW s \in Seq(S), NEW t \in Seq(S)
  PROVE  IsMerged(s \o t, s, t, S)
<1> DEFINE u == s \o t
<1>1. /\ u \in Seq(S) /\ Len(u) = Len(s) + Len(t)
      /\ \A i \in 1 .. Len(s) + Len(t) : u[i] = IF i <= Len(s) THEN s[i] ELSE t[i - Len(s)]
  BY Behind
<1> HIDE DEF u
<1>2. /\ Len(s) \in Nat /\ ToSet(s) = {s[i] : i \in 1 .. Len(s)}
      /\ Len(t) \in Nat /\ ToSet(t) = {t[i] : i \in 1 .. Len(t)}
      /\ ToSet(u) = {u[i] : i \in 1 .. Len(u)}
  BY <1>1, SeqIsFunction
<1>3. \A i \in 1 .. Len(s) : i \in 1 .. Len(u) /\ u[i] = s[i]
  BY <1>1, <1>2
<1>4. \A i \in 1 .. Len(t) : i + Len(s) \in 1 .. Len(u) /\ u[i + Len(s)] = t[i]
  <2> SUFFICES ASSUME NEW i \in 1 .. Len(t)
               PROVE  i + Len(s) \in 1 .. Len(u) /\ u[i + Len(s)] = t[i]
    OBVIOUS
  <2>1. i + Len(s) \in 1 .. Len(s) + Len(t) /\ ~(i + Len(s) <= Len(s)) /\ i + Len(s) - Len(s) = i
    BY <1>2
  <2> QED
    BY <1>1, <2>1
<1>5. \A i \in 1 .. Len(u) : \/ i \in 1 .. Len(s) /\ u[i] = s[i]
                             \/ i - Len(s) \in 1 .. Len(t) /\ u[i] = t[i - Len(s)]
  BY <1>1, <1>2
<1>6. \A x : x \in ToSet(u) <=> x \in ToSet(s) \/ x \in ToSet(t)
  <2>1. \A x \in ToSet(u) : x \in ToSet(s) \/ x \in ToSet(t)
    BY <1>2, <1>5
  <2>2. \A x \in ToSet(s) : x \in ToSet(u)
    BY <1>2, <1>3
  <2>3. \A x \in ToSet(t) : x \in ToSet(u)
    BY <1>2, <1>4
  <2> QED
    BY <2>1, <2>2, <2>3
<1>7. ASSUME Distinct(s), Distinct(t), \A x \in ToSet(s) : x \notin ToSet(t)
      PROVE  Distinct(u)
  <2> SUFFICES ASSUME NEW i \in 1 .. Len(u), NEW j \in 1 .. Len(u), u[i] = u[j]
               PROVE  i = j
    BY DEF Distinct
  <2>1. CASE i \in 1 .. Len(s) /\ j \in 1 .. Len(s)
    BY <2>1, <1>3, <1>7 DEF Distinct
  <2>2. CASE i \notin 1 .. Len(s) /\ j \notin 1 .. Len(s)
    <3>1. i - Len(s) \in 1 .. Len(t) /\ j - Len(s) \in 1 .. Len(t) /\ t[i - Len(s)] = t[j - Len(s)]
      BY <2>2, <1>5
    <3>2. i - Len(s) = j - Len(s)
      BY <3>1, <1>7 DEF Distinct
    <3> QED
      BY <3>2, <1>2
  <2>3. ASSUME NEW k \in 1 .. Len(u), NEW l \in 1 .. Len(u),
               k \in 1 .. Len(s), l \notin 1 .. Len(s), u[k] = u[l]
        PROVE  FALSE
    <3>1. u[k] \in ToSet(s)
      BY <2>3, <1>2, <1>3
    <3>2. u[l] \in ToSet(t)
      BY <2>3, <1>2, <1>5
    <3> QED
      BY <2>3, <3>1, <3>2, <1>7
  <2> QED
    BY <2>1, <2>2, <2>3
<1>8. ASSUME IsOrdered(s), IsOrdered(t), \A x \in ToSet(s), y \in ToSet(t) : ~Precedes(y, x)
      PROVE  IsOrdered(u)
  <2> SUFFICES ASSUME NEW i \in 1 .. Len(u), NEW j \in 1 .. Len(u), i < j
               PROVE  ~Precedes(u[j], u[i])
    BY DEF IsOrdered
  <2>1. CASE j \in 1 .. Len(s)
    <3>1. i \in 1 .. Len(s)
      BY <2>1, <1>2
    <3> QED
      BY <2>1, <3>1, <1>3, <1>8 DEF IsOrdered
  <2>2. CASE i \notin 1 .. Len(s)
    <3>1. j \notin 1 .. Len(s)
      BY <2>2, <1>2
    <3>2. /\ i - Len(s) \in 1 .. Len(t) /\ j - Len(s) \in 1 .. Len(t)
          /\ u[i] = t[i - Len(s)] /\ u[j] = t[j - Len(s)]
      BY <2>2, <3>1, <1>5
    <3>3. i - Len(s) < j - Len(s)
      BY <1>2
    <3> QED
      BY <3>2, <3>3, <1>8 DEF IsOrdered
  <2>3. CASE i \in 1 .. Len(s) /\ j \notin 1 .. Len(s)
    <3>1. u[i] \in ToSet(s)
      BY <2>3, <1>2, <1>3
    <3>2. u[j] \in ToSet(t)
      BY <2>3, <1>2, <1>5
    <3> QED
      BY <3>1, <3>2, <1>8
  <2> QED
    BY <2>1, <2>2, <2>3
<1> QED
  BY <1>1, <1>6, <1>7, <1>8 DEF IsMerged, u

\* One step of FlattenSeq, with f for the function that is being defined.
Joined(f, ss, i) == IF i = 1 THEN ss[i] ELSE f[i - 1] \o ss[i]

\* FlattenSeq is the last value of a function that satisfies the equation it is defined by.
LEMMA FlattenDef ==
  ASSUME NEW ss, Len(ss) \in Nat \ {0}
  PROVE  \E f : f = [i \in 1 .. Len(ss) |-> Joined(f, ss, i)] /\ FlattenSeq(ss) = f[Len(ss)]
<1> DEFINE Solution(f, m) == f = [k \in 1 .. m |-> Joined(f, ss, k)]
<1> DEFINE Unsolved == {m \in Nat : \A f : ~Solution(f, m)}
<1>1. Unsolved = {}
  <2> SUFFICES ASSUME Unsolved # {} PROVE FALSE
    OBVIOUS
  <2>1. PICK m \in Unsolved : \A n \in Unsolved : m <= n
    BY LeastNatural
  <2>2. m # 0
    <3>1. Solution([k \in 1 .. 0 |-> <<>>], 0)
      OBVIOUS
    <3> QED
      BY <3>1, <2>1
  <2>3. m \in Nat /\ m - 1 \in Nat /\ m - 1 \notin Unsolved
    BY <2>1, <2>2
  <2>4. PICK g : Solution(g, m - 1)
    BY <2>3
  <2> DEFINE f == [k \in 1 .. m |-> IF k < m THEN g[k] ELSE Joined(g, ss, m)]
  <2>5. ASSUME NEW k \in 1 .. m
        PROVE  f[k] = Joined(f, ss, k)
    <3>1. k # 1 => f[k - 1] = g[k - 1]
      BY <2>3
    <3>2. Joined(f, ss, k) = Joined(g, ss, k)
      <4> HIDE DEF f
      <4> QED
        BY <3>1 DEF Joined
    <3>3. k < m => g[k] = Joined(g, ss, k)
      <4>1. k < m => k \in 1 .. m - 1
        BY <2>3
      <4> HIDE DEF f
      <4> QED
        BY <4>1, <2>4
    <3>4. f[k] = IF k < m THEN g[k] ELSE Joined(g, ss, m)
      OBVIOUS
    <3>5. ~(k < m) => k = m
      BY <2>3
    <3> HIDE DEF f
    <3> QED
      BY <3>2, <3>3, <3>4, <3>5
  <2>6. f = [k \in 1 .. m |-> f[k]]
    OBVIOUS
  <2>7. Solution(f, m)
    <3> HIDE DEF f
    <3> QED
      BY <2>5, <2>6
  <2> QED
    BY <2>7, <2>1
<1>2. Len(ss) \notin Unsolved
  BY <1>1
<1>3. PICK f : f = [k \in 1 .. Len(ss) |-> Joined(f, ss, k)]
  BY <1>2
<1> DEFINE flatten == CHOOSE f1 : f1 = [i \in 1 .. Len(ss) |-> IF i = 1 THEN ss[i] ELSE f1[i - 1] \o ss[i]]
<1>4. flatten = [i \in 1 .. Len(ss) |-> IF i = 1 THEN ss[i] ELSE flatten[i - 1] \o ss[i]]
  BY <1>3, Zenon DEF Joined
<1>5. Len(ss) # 0
  OBVIOUS
<1>6. FlattenSeq(ss) = flatten[Len(ss)]
  BY <1>5, Zenon DEF FlattenSeq
<1> HIDE DEF flatten
<1>7. flatten = [i \in 1 .. Len(ss) |-> Joined(flatten, ss, i)]
  BY <1>4, Zenon DEF Joined
<1> QED
  BY <1>6, <1>7

\* No piece repeats an element, of itself or of another.
AreApart(ss) ==
    /\ \A i \in 1 .. Len(ss) : Distinct(ss[i])
    /\ \A i, j \in 1 .. Len(ss) : i # j => \A x \in ToSet(ss[i]) : x \notin ToSet(ss[j])

\* f is put together from the first k pieces.
IsFlat(f, ss, S, k) ==
    /\ f \in Seq(S)
    /\ \A x : x \in ToSet(f) <=> \E i \in 1 .. k : x \in ToSet(ss[i])
    /\ AreApart(ss) => Distinct(f)

\* What FlattenSeq gives has the elements of all pieces, and each once if the pieces are apart.
LEMMA FlattenIsFlat ==
  ASSUME NEW S, NEW ss, Len(ss) \in Nat \ {0}, \A i \in 1 .. Len(ss) : ss[i] \in Seq(S)
  PROVE  IsFlat(FlattenSeq(ss), ss, S, Len(ss))
<1>1. PICK f : f = [i \in 1 .. Len(ss) |-> Joined(f, ss, i)] /\ FlattenSeq(ss) = f[Len(ss)]
  BY FlattenDef
<1> DEFINE n == Len(ss)
           Bad == {k \in Nat : k \in 1 .. n /\ ~IsFlat(f[k], ss, S, k)}
<1>2. ASSUME Bad # {}
      PROVE  FALSE
  <2>1. PICK k \in Bad : \A l \in Bad : k <= l
    BY <1>2, LeastNatural
  <2>2. k \in 1 .. n /\ ~IsFlat(f[k], ss, S, k) /\ f[k] = Joined(f, ss, k)
    BY <1>1, <2>1
  <2>3. CASE k = 1
    <3>1. f[k] = ss[1] /\ ss[1] \in Seq(S)
      BY <2>2, <2>3 DEF Joined
    <3>2. AreApart(ss) => Distinct(ss[1])
      BY DEF AreApart
    <3>3. \A i \in 1 .. 1 : i = 1
      OBVIOUS
    <3>4. 1 \in 1 .. 1
      OBVIOUS
    <3> QED
      BY <2>2, <2>3, <3>1, <3>2, <3>3, <3>4 DEF IsFlat
  <2>4. CASE k # 1
    <3>1. k - 1 \in 1 .. n /\ k - 1 \notin Bad /\ k - 1 \in Nat
      BY <2>1, <2>2, <2>4
    <3>2. IsFlat(f[k - 1], ss, S, k - 1)
      BY <3>1
    <3> DEFINE g == f[k - 1]
    <3>3. f[k] = g \o ss[k] /\ ss[k] \in Seq(S)
      BY <2>2, <2>4 DEF Joined
    <3>4. /\ g \in Seq(S) /\ (AreApart(ss) => Distinct(g))
          /\ \A x : x \in ToSet(g) <=> \E i \in 1 .. k - 1 : x \in ToSet(ss[i])
      BY <3>2 DEF IsFlat
    <3> HIDE DEF g
    <3>5. IsMerged(f[k], g, ss[k], S)
      BY <3>3, <3>4, BehindIsMerged
    <3>6. f[k] \in Seq(S) /\ \A x : x \in ToSet(f[k]) <=> x \in ToSet(g) \/ x \in ToSet(ss[k])
      BY <3>5 DEF IsMerged
    <3>7. \A i : i \in 1 .. k <=> i \in 1 .. k - 1 \/ i = k
      BY <2>2
    <3>8. \A x : x \in ToSet(f[k]) <=> \E i \in 1 .. k : x \in ToSet(ss[i])
      BY <3>4, <3>6, <3>7, Zenon
    <3>9. ASSUME AreApart(ss)
          PROVE  Distinct(f[k])
      <4>1. Distinct(g) /\ Distinct(ss[k])
        BY <3>9, <3>4, <2>2 DEF AreApart
      <4>2. ASSUME NEW x \in ToSet(g)
            PROVE  x \notin ToSet(ss[k])
        <5>1. PICK i \in 1 .. k - 1 : x \in ToSet(ss[i])
          BY <3>4
        <5>2. i \in 1 .. n /\ i # k
          BY <2>2
        <5> QED
          BY <5>1, <5>2, <2>2, <3>9 DEF AreApart
      <4> QED
        BY <4>1, <4>2, <3>5 DEF IsMerged
    <3> QED
      BY <2>2, <3>6, <3>8, <3>9 DEF IsFlat
  <2> QED
    BY <2>3, <2>4
<1>3. n \in Nat /\ n \in 1 .. n
  OBVIOUS
<1>4. n \notin Bad
  BY <1>2
<1> QED
  BY <1>1, <1>3, <1>4

\* Flattening one piece, or none.
LEMMA FlattenFew ==
  ASSUME NEW ss
  PROVE  /\ Len(ss) = 0 => FlattenSeq(ss) = ss
         /\ Len(ss) = 1 => FlattenSeq(ss) = ss[1]
<1>1. Len(ss) = 0 => FlattenSeq(ss) = ss
  BY Zenon DEF FlattenSeq
<1>2. ASSUME Len(ss) = 1
      PROVE  FlattenSeq(ss) = ss[1]
  <2>1. PICK f : f = [i \in 1 .. Len(ss) |-> Joined(f, ss, i)] /\ FlattenSeq(ss) = f[Len(ss)]
    BY <1>2, FlattenDef
  <2>2. f[1] = Joined(f, ss, 1)
    BY <2>1, <1>2
  <2> QED
    BY <2>1, <2>2, <1>2 DEF Joined
<1> QED
  BY <1>1, <1>2

-----------------------------------------------------------------------------
(* Buckets *)

\* Of finitely many numbers one is the greatest.
LEMMA Greatest ==
  ASSUME NEW S, S \subseteq Nat, S # {}, NEW b \in Nat, \A x \in S : x <= b
  PROVE  Max(S) \in S /\ \A y \in S : y <= Max(S)
<1> DEFINE U == {n \in Nat : \A y \in S : y <= n}
<1>1. b \in U
  OBVIOUS
<1>2. PICK u \in U : \A v \in U : u <= v
  BY <1>1, LeastNatural
<1>3. ASSUME u \notin S
      PROVE  FALSE
  <2>1. u \in Nat /\ \A y \in S : y \in Nat /\ y <= u /\ y # u
    BY <1>2, <1>3
  <2>2. PICK z \in S : TRUE
    OBVIOUS
  <2>3. u - 1 \in Nat /\ \A y \in S : y <= u - 1
    BY <2>1, <2>2
  <2>4. u - 1 \in U
    BY <2>3
  <2> QED
    BY <2>1, <2>4, <1>2
<1>4. \E x \in S : \A y \in S : x >= y
  BY <1>2, <1>3
<1>5. Max(S) \in S /\ \A y \in S : Max(S) >= y
  BY <1>4, Zenon DEF Max
<1> QED
  BY <1>5

\* The bucket of a row is the last one created up to the time of the row.
LEMMA BucketOfRow ==
  ASSUME NEW m \in Rows
  PROVE  /\ BucketOf(m) \in BucketDates /\ BucketOf(m) \in 0 .. MaxTs /\ BucketOf(m) <= m.ts
         /\ \A d \in BucketDates : d <= m.ts => d <= BucketOf(m)
<1> DEFINE S == {d \in BucketDates : d <= m.ts}
<1>1. m.ts \in Nat /\ m.ts < MaxTs /\ MaxTs \in Nat /\ BucketDates \subseteq Nat
  BY RowIsMessage, BucketAssumption
<1>2. S \subseteq Nat /\ S # {} /\ \A x \in S : x <= m.ts
  BY <1>1, EndpointAssumption
<1> HIDE DEF S
<1>3. Max(S) \in S /\ \A y \in S : y <= Max(S)
  BY <1>1, <1>2, Greatest
<1>4. BucketOf(m) = Max(S)
  BY DEF BucketOf, S
<1>5. BucketOf(m) \in S /\ \A y \in S : y <= BucketOf(m)
  BY <1>3, <1>4
<1>6. BucketOf(m) \in BucketDates /\ BucketOf(m) <= m.ts
  BY <1>5 DEF S
<1>7. \A d \in BucketDates : d <= m.ts => d <= BucketOf(m)
  BY <1>5 DEF S
<1>8. BucketOf(m) \in Nat
  BY <1>1, <1>6
<1>9. BucketOf(m) \in 0 .. MaxTs
  BY <1>1, <1>6, <1>8
<1> QED
  BY <1>6, <1>7, <1>9

\* Later rows are not in earlier buckets.
LEMMA BucketsAscend ==
  ASSUME NEW m \in Rows, NEW o \in Rows, BucketOf(o) < BucketOf(m)
  PROVE  Precedes(o, m)
<1>1. /\ BucketOf(m) \in BucketDates /\ BucketOf(m) <= m.ts /\ BucketOf(m) \in Int
      /\ BucketOf(o) \in Int
      /\ \A d \in BucketDates : d <= o.ts => d <= BucketOf(o)
  BY BucketOfRow
<1>2. o.ts \in Int /\ m.ts \in Int
  BY RowIsMessage
<1>3. ~(BucketOf(m) <= o.ts)
  BY <1>1
<1> QED
  BY <1>1, <1>2, <1>3 DEF Precedes

\* The buckets in the table are finitely many numbers.
LEMMA SavedIsFinite ==
  ASSUME NEW R \in SUBSET Rows, NEW bs \in SUBSET Saved(R, Part)
  PROVE  bs \subseteq Nat /\ (\A d \in bs : d <= MaxTs) /\ IsFiniteSet(bs) /\ MaxTs \in Nat
<1>1. \A m \in R : BucketOf(m) \in 0 .. MaxTs
  BY BucketOfRow
<1>2. Saved(R, Part) \subseteq 0 .. MaxTs
  BY <1>1 DEF Saved, Of
<1>3. MaxTs \in Nat
  BY EndpointAssumption
<1>4. bs \in SUBSET (0 .. MaxTs) /\ IsFiniteSet(0 .. MaxTs)
  BY <1>2, <1>3, FS_Interval
<1>5. IsFiniteSet(bs)
  BY <1>4, FS_Subset
<1> QED
  BY <1>3, <1>4, <1>5

-----------------------------------------------------------------------------
(* One slice of a range *)

\* A range whose end is not before its start, or that has no end.
Proper(q) == q.from.ts <= q.to.ts \/ q.to.ts = MaxTs
IsQuery(q) == IsRef(q.from) /\ IsRef(q.to) /\ q.part = Part /\ q.limit \in Nat

\* A row that the range is to have, and one that the slices sl still have to give.
Selected(q, m) == m.part = Part /\ TemporalCondition(m, q.from, q.to) /\ Matches(m, q.publisher, q.chain)
Remaining(sl, q, m) == \E i \in 1 .. Len(sl) : InSlice(sl[i], m, q.from, q.to)

SliceNames == {"whole", "instant", "first", "between", "last"}

\* The slices sl give rows of the range, one after the other.
IsStaged(sl, q) ==
    /\ sl \in Seq(SliceNames)
    /\ \A m \in Rows : Remaining(sl, q, m) => TemporalCondition(m, q.from, q.to)
    /\ \A i, j \in 1 .. Len(sl) : \A m, o \in Rows :
          i < j /\ InSlice(sl[i], m, q.from, q.to) /\ InSlice(sl[j], o, q.from, q.to) => Precedes(m, o)

\* The slices of a range are names, of which there is at least one.
LEMMA SlicesAreNames ==
  ASSUME NEW from, NEW to
  PROVE  /\ Slices(from, to) \in Seq(SliceNames) /\ DOMAIN Slices(from, to) = 1 .. Len(Slices(from, to))
         /\ Slices(from, to) # <<>>
<1>1. \/ Slices(from, to) = <<"whole">>
      \/ Slices(from, to) = <<"instant">>
      \/ Slices(from, to) = <<"first", "between", "last">>
  BY DEF Slices
<1>2. Slices(from, to) # <<>>
  BY <1>1
<1>3. <<"whole">> \in Seq(SliceNames)
  BY DEF SliceNames
<1>4. <<"instant">> \in Seq(SliceNames)
  BY DEF SliceNames
<1>5. <<"first", "between", "last">> \in Seq(SliceNames)
  BY DEF SliceNames
<1>6. Slices(from, to) \in Seq(SliceNames)
  BY <1>1, <1>3, <1>4, <1>5
<1> QED
  BY <1>2, <1>6

\* The slices of a range are staged and give all of it.
LEMMA SlicesAreStaged ==
  ASSUME NEW q, IsQuery(q), Proper(q)
  PROVE  /\ IsStaged(Slices(q.from, q.to), q)
         /\ \A m \in Rows : TemporalCondition(m, q.from, q.to) => Remaining(Slices(q.from, q.to), q, m)
<1> DEFINE sl == Slices(q.from, q.to)
<1>1. sl \in Seq(SliceNames) /\ DOMAIN sl = 1 .. Len(sl)
  BY SlicesAreNames
<1>2. \A m \in Rows : Remaining(sl, q, m) <=> TemporalCondition(m, q.from, q.to)
  BY <1>1, SlicesAreExact DEF Remaining
<1>3. ASSUME NEW i \in 1 .. Len(sl), NEW j \in 1 .. Len(sl), NEW m \in Rows, NEW o \in Rows, i < j,
             InSlice(sl[i], m, q.from, q.to), InSlice(sl[j], o, q.from, q.to)
      PROVE  Precedes(m, o)
  <2>1. IsMessage(m) /\ IsMessage(o) /\ IsRef(q.from) /\ IsRef(q.to)
    BY RowIsMessage DEF IsQuery
  <2>2. CASE q.from.ts <= q.to.ts
    BY <2>1, <2>2, <1>1, <1>3, SlicesAscend
  <2>3. CASE ~(q.from.ts <= q.to.ts)
    <3>1. TemporalCondition(m, q.from, q.to)
      BY <1>2, <1>3 DEF Remaining
    <3>2. q.to.ts = MaxTs /\ q.from.ts > MaxTs /\ m.ts < MaxTs /\ m.ts \in Int /\ MaxTs \in Int /\ q.from.ts \in Int
      BY <2>1, <2>3, RowIsMessage DEF Proper, IsRef
    <3> QED
      BY <3>1, <3>2 DEF TemporalCondition
  <2> QED
    BY <2>2, <2>3
<1> HIDE DEF sl
<1>4. IsStaged(sl, q)
  BY <1>1, <1>2, <1>3 DEF IsStaged
<1> QED
  BY <1>2, <1>4 DEF sl

\* What a bucket contributes to a slice.
Piece(V, q, slice, bs, d) ==
    {m \in InBuckets(V, q.part, {d} \cap bs) : /\ InSlice(slice, m, q.from, q.to)
                                               /\ Matches(m, q.publisher, q.chain)}

\* src is what a slice gives of the rows V.
IsSlice(src, V, q, slice, bs) ==
    /\ src \in Seq(V) /\ Distinct(src)
    /\ IsOrdered(src) \/ Cardinality(bs) > 1
    /\ \A m \in ToSet(src) : \E d \in bs : m \in Piece(V, q, slice, bs, d)
    /\ \A d \in bs : \A m \in Piece(V, q, slice, bs, d) :
          m \in ToSet(src) \/ (q.limit # NoLimit /\ Len(src) = q.limit)

\* A slice gives the rows of its buckets, each once, up to the limit, and in order if there
\* is only one bucket.
LEMMA SliceIs ==
  ASSUME NEW V \in SUBSET Rows, NEW q, q.limit \in Nat, NEW slice, NEW bs, IsFiniteSet(bs),
         NEW order \in SetToSeqs(bs)
  PROVE  IsSlice(cassandraSlice(V, q, slice, bs, order), V, q, slice, bs)
<1> DEFINE P(d) == Piece(V, q, slice, bs, d)
           ss == [i \in 1 .. Len(order) |-> Ordered(P(order[i]))]
           flat == FlattenSeq(ss)
           src == Limited(flat, q.limit)
<1>1. cassandraSlice(V, q, slice, bs, order) = src
  BY DEF cassandraSlice, Piece
<1>2. /\ order \in Seq(bs) /\ Len(order) = Cardinality(bs) /\ Distinct(order)
      /\ \A d \in bs : \E i \in 1 .. Len(order) : order[i] = d
  BY SeqsList DEF Lists
<1>3. Len(order) \in Nat /\ \A i \in 1 .. Len(order) : order[i] \in bs
  BY <1>2, SeqIsFunction
<1>4. \A d : P(d) \in SUBSET V
  BY DEF Piece, InBuckets, Of
<1>5. \A d, e : d # e => P(d) \cap P(e) = {}
  BY DEF Piece, InBuckets
<1> HIDE DEF P
<1>6. \A d : Lists(Ordered(P(d)), P(d)) /\ IsOrdered(Ordered(P(d))) /\ ToSet(Ordered(P(d))) = P(d)
  <2> SUFFICES ASSUME NEW d
               PROVE  Lists(Ordered(P(d)), P(d)) /\ IsOrdered(Ordered(P(d))) /\ ToSet(Ordered(P(d))) = P(d)
    OBVIOUS
  <2>1. P(d) \in SUBSET Rows
    BY <1>4
  <2>2. Lists(Ordered(P(d)), P(d)) /\ IsOrdered(Ordered(P(d)))
    BY <2>1, OrderedLists
  <2> QED
    BY <2>2, ListsCounts
<1>7. Len(ss) = Len(order) /\ \A i \in 1 .. Len(order) : ss[i] = Ordered(P(order[i]))
  BY <1>3
<1>8. \A i \in 1 .. Len(order) :
         ss[i] \in Seq(V) /\ Distinct(ss[i]) /\ IsOrdered(ss[i]) /\ ToSet(ss[i]) = P(order[i])
  <2> SUFFICES ASSUME NEW i \in 1 .. Len(order)
               PROVE  ss[i] \in Seq(V) /\ Distinct(ss[i]) /\ IsOrdered(ss[i]) /\ ToSet(ss[i]) = P(order[i])
    OBVIOUS
  <2> DEFINE s == Ordered(P(order[i]))
             T == P(order[i])
  <2>1. ss[i] = s
    BY <1>7
  <2>2. Lists(s, T) /\ IsOrdered(s) /\ ToSet(s) = T /\ T \in SUBSET V
    BY <1>4, <1>6
  <2> HIDE DEF s, T
  <2>3. s \in Seq(T) /\ Distinct(s)
    BY <2>2 DEF Lists
  <2>4. s \in Seq(V)
    BY <2>2, <2>3
  <2> QED
    BY <2>1, <2>2, <2>3, <2>4 DEF s, T
<1>9. flat \in Seq(V) /\ Distinct(flat) /\ \A x : x \in ToSet(flat) <=> \E i \in 1 .. Len(order) : x \in P(order[i])
  <2>1. CASE Len(order) = 0
    <3>1. flat = ss /\ Len(ss) = 0
      BY <2>1, <1>7, FlattenFew
    <3>2. ss \in [1 .. 0 -> V]
      BY <2>1
    <3>3. ss \in Seq(V)
      BY <3>2
    <3>4. ToSet(ss) = {}
      BY <3>2 DEF ToSet
    <3> HIDE DEF ss, flat
    <3> QED
      BY <3>1, <3>3, <3>4, <2>1 DEF Distinct
  <2>2. CASE Len(order) # 0
    <3>1. Len(ss) \in Nat \ {0} /\ \A i \in 1 .. Len(ss) : ss[i] \in Seq(V)
      BY <2>2, <1>3, <1>7, <1>8
    <3>2. AreApart(ss)
      <4>1. \A i, j \in 1 .. Len(order) : i # j => order[i] # order[j]
        BY <1>2 DEF Distinct
      <4> HIDE DEF ss
      <4>2. \A i, j \in 1 .. Len(ss) : i # j => \A x \in ToSet(ss[i]) : x \notin ToSet(ss[j])
        BY <4>1, <1>5, <1>7, <1>8
      <4> QED
        BY <4>2, <1>7, <1>8 DEF AreApart
    <3> HIDE DEF ss
    <3>3. IsFlat(flat, ss, V, Len(ss))
      BY <3>1, FlattenIsFlat
    <3>4. flat \in Seq(V) /\ Distinct(flat) /\ \A x : x \in ToSet(flat) <=> \E i \in 1 .. Len(ss) : x \in ToSet(ss[i])
      BY <3>2, <3>3 DEF IsFlat
    <3> HIDE DEF flat
    <3> QED
      BY <3>4, <1>7, <1>8
  <2> QED
    BY <2>1, <2>2
<1>10. \A x : x \in ToSet(flat) <=> \E d \in bs : x \in P(d)
  <2> HIDE DEF flat
  <2> QED
    BY <1>2, <1>3, <1>9
<1>11. IsOrdered(flat) \/ Cardinality(bs) > 1
  <2>1. CASE Len(order) = 0
    <3>1. flat = ss /\ Len(ss) = 0
      BY <2>1, <1>7, FlattenFew
    <3> HIDE DEF ss, flat
    <3> QED
      BY <3>1 DEF IsOrdered
  <2>2. CASE Len(order) = 1
    <3>1. flat = ss[1]
      BY <2>2, <1>7, FlattenFew
    <3> HIDE DEF ss, flat
    <3> QED
      BY <3>1, <2>2, <1>8
  <2> QED
    BY <2>1, <2>2, <1>2, <1>3
<1> HIDE DEF flat
<1>12. IsLimited(src, flat, V, q.limit)
  BY <1>9, LimitedIs
<1> HIDE DEF src
<1>13. src \in Seq(V) /\ Distinct(src) /\ (IsOrdered(src) \/ Cardinality(bs) > 1)
  BY <1>9, <1>11, <1>12 DEF IsLimited
<1>14. \A m \in ToSet(src) : \E d \in bs : m \in P(d)
  BY <1>10, <1>12 DEF IsLimited
<1>15. \A d \in bs : \A m \in P(d) : m \in ToSet(src) \/ (q.limit # NoLimit /\ Len(src) = q.limit)
  BY <1>10, <1>12 DEF IsLimited
<1> QED
  BY <1>1, <1>13, <1>14, <1>15 DEF IsSlice, P

-----------------------------------------------------------------------------
(* A range, from its first row to its last *)

\* all is what was read of a range when the slices sl remain, of the rows R, in which the
\* rows A were from the beginning, and the buckets bs: rows of the range, each once, that
\* precede what remains; and all rows of A but those that remain, unless the limit cuts them off.
RangeOK(q, all, sl, bs, R, A) ==
    /\ all \in Seq(R) /\ Distinct(all)
    /\ IsOrdered(all) \/ Cardinality(bs) > 1
    /\ \A m \in ToSet(all) : Selected(q, m) /\ \A o \in Rows : Remaining(sl, q, o) => Precedes(m, o)
    /\ \A m \in A : Selected(q, m) => \/ m \in ToSet(all)
                                      \/ Remaining(sl, q, m)
                                      \/ q.limit # NoLimit /\ Len(all) >= q.limit
    /\ IsStaged(sl, q)
    /\ sl # <<>> => \A m \in A : Selected(q, m) => BucketOf(m) \in bs

\* A selected row lies between the times of the range.
LEMMA WithinTimes ==
  ASSUME NEW q, IsQuery(q), Proper(q), NEW m \in Rows, TemporalCondition(m, q.from, q.to)
  PROVE  q.from.ts <= m.ts /\ m.ts <= q.to.ts
<1>1. /\ m.ts \in Int /\ m.ts < MaxTs /\ MaxTs \in Int /\ q.from.ts \in Int /\ q.to.ts \in Int
  BY RowIsMessage DEF IsQuery, IsRef
<1> QED
  BY <1>1 DEF Proper, TemporalCondition

\* A row precedes no row that precedes it.
LEMMA PrecedesOneWay ==
  ASSUME NEW m \in Rows, NEW o \in Rows, Precedes(m, o)
  PROVE  ~Precedes(o, m) /\ m # o
<1>1. m.ts \in Int /\ o.ts \in Int /\ m.seq \in Int /\ o.seq \in Int
  BY RowIsMessage
<1> QED
  BY <1>1 DEF Precedes

\* Nothing remains of no slices.
LEMMA NoSlices ==
  ASSUME NEW q
  PROVE  IsStaged(<<>>, q) /\ \A m : ~Remaining(<<>>, q, m)
<1>1. <<>> \in Seq(SliceNames) /\ Len(<<>>) = 0
  OBVIOUS
<1> QED
  BY <1>1 DEF IsStaged, Remaining

\* The rows R may become more.
LEMMA RangeGrows ==
  ASSUME NEW q, NEW all, NEW sl, NEW bs, NEW R, NEW A, RangeOK(q, all, sl, bs, R, A), NEW T, R \subseteq T
  PROVE  RangeOK(q, all, sl, bs, T, A)
<1>1. all \in Seq(R)
  BY DEF RangeOK
<1>2. all \in Seq(T)
  BY <1>1
<1> QED
  BY <1>2 DEF RangeOK

\* The rows SQLite selects.
Chosen(A, q) == {m \in Of(A, q.part) : /\ TemporalCondition(m, q.from, q.to)
                                       /\ Matches(m, q.publisher, q.chain)}

\* SQLite's answer is the whole range at once.
LEMMA RangeLocal ==
  ASSUME NEW q, IsQuery(q), NEW A \in SUBSET Rows, NEW bs
  PROVE  RangeOK(q, sqliteRange(A, q), <<>>, bs, A, A)
<1> DEFINE S == Chosen(A, q)
           s == Ordered(S)
           t == Limited(s, q.limit)
<1>1. sqliteRange(A, q) = t
  BY DEF sqliteRange, Chosen
<1>2. \A m : m \in S <=> m \in A /\ Selected(q, m)
  BY DEF Chosen, Of, Selected, IsQuery
<1> HIDE DEF S
<1>3. S \in SUBSET Rows /\ S \subseteq A
  BY <1>2
<1>4. Lists(s, S) /\ IsOrdered(s)
  BY <1>3, OrderedLists
<1>5. ToSet(s) = S
  BY <1>4, ListsCounts
<1>6. s \in Seq(A) /\ Distinct(s)
  <2>1. s \in Seq(S) /\ Distinct(s)
    BY <1>4 DEF Lists
  <2> HIDE DEF s
  <2> QED
    BY <2>1, <1>3
<1> HIDE DEF s
<1>7. IsLimited(t, s, A, q.limit)
  BY <1>6, LimitedIs DEF IsQuery
<1> HIDE DEF t
<1>8. t \in Seq(A) /\ Distinct(t) /\ IsOrdered(t) /\ \A x \in ToSet(t) : x \in S
  BY <1>4, <1>5, <1>6, <1>7 DEF IsLimited
<1>9. \A x \in S : x \in ToSet(t) \/ (q.limit # NoLimit /\ Len(t) = q.limit)
  BY <1>5, <1>7 DEF IsLimited
<1>10. q.limit \in Nat
  BY DEF IsQuery
<1>11. \A m \in A : Selected(q, m) => m \in ToSet(t) \/ (q.limit # NoLimit /\ Len(t) >= q.limit)
  BY <1>2, <1>9, <1>10
<1> QED
  BY <1>1, <1>2, <1>8, <1>11, NoSlices DEF RangeOK

\* The bucket of every row of a range is found: it was created in the range, or it is the
\* last one before.
LEMMA BucketsFound ==
  ASSUME NEW q, IsQuery(q), Proper(q), NEW R \in SUBSET Rows, NEW m \in R, Selected(q, m)
  PROVE  BucketOf(m) \in getBucketsByTimestamp(Saved(R, Part), q.from.ts, q.to.ts)
<1> DEFINE d == BucketOf(m)
           S == Saved(R, Part)
           earlier == {e \in S : e <= q.from.ts}
<1>1. m \in Rows /\ q.from.ts <= m.ts /\ m.ts <= q.to.ts /\ m.part = Part
  BY WithinTimes DEF Selected
<1>2. q.from.ts \in Int /\ q.to.ts \in Int /\ m.ts \in Int
  BY <1>1, RowIsMessage DEF IsQuery, IsRef
<1>3. d \in Nat /\ d <= m.ts /\ \A e \in BucketDates : e <= m.ts => e <= d
  BY <1>1, BucketOfRow
<1>4. d \in S
  BY <1>1 DEF Saved, Of
<1>5. S \subseteq BucketDates
  BY BucketOfRow DEF Saved, Of
<1>6. S \subseteq Nat /\ (\A e \in S : e <= MaxTs) /\ MaxTs \in Nat
  BY SavedIsFinite
<1>7. CASE q.from.ts < d
  <2>1. d <= q.to.ts
    BY <1>1, <1>2, <1>3
  <2> QED
    BY <2>1, <1>4, <1>7 DEF getBucketsByTimestamp
<1>8. CASE ~(q.from.ts < d)
  <2>1. d \in earlier /\ earlier # {}
    BY <1>2, <1>3, <1>4, <1>8
  <2>2. earlier \subseteq Nat /\ \A e \in earlier : e <= MaxTs
    BY <1>6
  <2>3. Max(earlier) \in earlier /\ \A e \in earlier : e <= Max(earlier)
    BY <1>6, <2>1, <2>2, Greatest
  <2>4. Max(earlier) = d
    <3> DEFINE e == Max(earlier)
    <3>1. e \in S /\ e <= q.from.ts /\ d <= e /\ e \in Nat
      BY <2>1, <2>2, <2>3
    <3> HIDE DEF e
    <3>2. e \in BucketDates /\ e <= m.ts
      BY <1>1, <1>2, <1>5, <3>1
    <3>3. e <= d
      BY <1>3, <3>2
    <3>4. e = d
      BY <1>3, <3>1, <3>3
    <3> QED
      BY <3>4 DEF e
  <2>5. Max(earlier) \in getBucketsByTimestamp(Saved(R, Part), q.from.ts, q.to.ts)
    <3> HIDE DEF d
    <3> QED
      BY <2>1 DEF getBucketsByTimestamp
  <2> QED
    BY <2>4, <2>5
<1> QED
  BY <1>7, <1>8

\* The buckets of a range are in the table.
LEMMA FoundAreSaved ==
  ASSUME NEW R \in SUBSET Rows, NEW from, NEW to
  PROVE  getBucketsByTimestamp(Saved(R, Part), from, to) \subseteq Saved(R, Part)
<1> DEFINE earlier == {d \in Saved(R, Part) : d <= from}
<1>1. Saved(R, Part) \subseteq Nat /\ (\A d \in Saved(R, Part) : d <= MaxTs) /\ MaxTs \in Nat
  BY SavedIsFinite
<1>2. earlier \subseteq Nat /\ \A d \in earlier : d <= MaxTs
  BY <1>1
<1>3. earlier # {} => Max(earlier) \in earlier
  BY <1>1, <1>2, Greatest
<1>4. earlier # {} => Max(earlier) \in Saved(R, Part)
  BY <1>3
<1> QED
  BY <1>4 DEF getBucketsByTimestamp

\* The buckets are known and nothing is read yet.
LEMMA RangeFound ==
  ASSUME NEW q, IsQuery(q), Proper(q), NEW R \in SUBSET Rows, NEW A \in SUBSET R, NEW bs, NEW sl,
         bs = getBucketsByTimestamp(Saved(R, Part), q.from.ts, q.to.ts),
         sl = IF bs = {} THEN <<>> ELSE Slices(q.from, q.to)
  PROVE  RangeOK(q, <<>>, sl, bs, R, A)
<1>1. \A m \in A : Selected(q, m) => BucketOf(m) \in bs
  BY BucketsFound
<1>2. <<>> \in Seq(R) /\ Distinct(<<>>) /\ IsOrdered(<<>>) /\ ToSet(<<>>) = {}
  BY DEF Distinct, IsOrdered, ToSet
<1>3. CASE bs = {}
  BY <1>1, <1>2, <1>3, NoSlices DEF RangeOK
<1>4. CASE bs # {}
  <2>1. IsStaged(sl, q) /\ \A m \in Rows : TemporalCondition(m, q.from, q.to) => Remaining(sl, q, m)
    BY <1>4, SlicesAreStaged
  <2>2. \A m \in A : Selected(q, m) => Remaining(sl, q, m)
    BY <2>1 DEF Selected
  <2> QED
    BY <1>1, <1>2, <2>1, <2>2 DEF RangeOK
<1> QED
  BY <1>3, <1>4

\* The first of some slices, and the others.
LEMMA NextSlice ==
  ASSUME NEW q, NEW sl, IsStaged(sl, q), sl # <<>>
  PROVE  /\ IsStaged(Tail(sl), q)
         /\ \A o : Remaining(sl, q, o) <=> InSlice(Head(sl), o, q.from, q.to) \/ Remaining(Tail(sl), q, o)
         /\ \A m, o \in Rows : InSlice(Head(sl), m, q.from, q.to) /\ Remaining(Tail(sl), q, o) => Precedes(m, o)
<1>1. sl \in Seq(SliceNames) /\ Len(sl) \in Nat /\ Len(sl) >= 1
  BY DEF IsStaged
<1> DEFINE t == Tail(sl)
<1>2. /\ t \in Seq(SliceNames) /\ Len(t) = Len(sl) - 1 /\ Head(sl) = sl[1]
      /\ \A i \in 1 .. Len(t) : t[i] = sl[i + 1] /\ i + 1 \in 1 .. Len(sl)
  BY <1>1
<1> HIDE DEF t
<1>3. \A i \in 1 .. Len(sl) : i = 1 \/ (i - 1 \in 1 .. Len(t) /\ t[i - 1] = sl[i])
  <2> SUFFICES ASSUME NEW i \in 1 .. Len(sl), i # 1
               PROVE  i - 1 \in 1 .. Len(t) /\ t[i - 1] = sl[i]
    OBVIOUS
  <2>1. i - 1 \in 1 .. Len(t) /\ (i - 1) + 1 = i
    BY <1>1, <1>2
  <2> QED
    BY <1>2, <2>1
<1>4. 1 \in 1 .. Len(sl)
  BY <1>1
<1>5. ASSUME NEW o
      PROVE  Remaining(sl, q, o) <=> InSlice(Head(sl), o, q.from, q.to) \/ Remaining(t, q, o)
  <2>1. ASSUME Remaining(sl, q, o)
        PROVE  InSlice(Head(sl), o, q.from, q.to) \/ Remaining(t, q, o)
    <3>1. PICK i \in 1 .. Len(sl) : InSlice(sl[i], o, q.from, q.to)
      BY <2>1 DEF Remaining
    <3> QED
      BY <3>1, <1>2, <1>3 DEF Remaining
  <2>2. InSlice(Head(sl), o, q.from, q.to) => Remaining(sl, q, o)
    BY <1>2, <1>4 DEF Remaining
  <2>3. Remaining(t, q, o) => Remaining(sl, q, o)
    BY <1>2 DEF Remaining
  <2> QED
    BY <2>1, <2>2, <2>3
<1>6. ASSUME NEW m \in Rows, NEW o \in Rows,
             InSlice(Head(sl), m, q.from, q.to), Remaining(t, q, o)
      PROVE  Precedes(m, o)
  <2>1. PICK i \in 1 .. Len(t) : InSlice(t[i], o, q.from, q.to)
    BY <1>6 DEF Remaining
  <2>2. InSlice(sl[1], m, q.from, q.to) /\ InSlice(sl[i + 1], o, q.from, q.to) /\ i + 1 \in 1 .. Len(sl) /\ 1 < i + 1
    BY <1>2, <1>6, <2>1
  <2> QED
    BY <1>4, <2>2 DEF IsStaged
<1>7. IsStaged(t, q)
  <2>1. \A m \in Rows : Remaining(t, q, m) => TemporalCondition(m, q.from, q.to)
    BY <1>5 DEF IsStaged
  <2>2. ASSUME NEW i \in 1 .. Len(t), NEW j \in 1 .. Len(t), NEW m \in Rows, NEW o \in Rows,
               i < j, InSlice(t[i], m, q.from, q.to), InSlice(t[j], o, q.from, q.to)
        PROVE  Precedes(m, o)
    <3>1. /\ i + 1 \in 1 .. Len(sl) /\ j + 1 \in 1 .. Len(sl) /\ i + 1 < j + 1
          /\ InSlice(sl[i + 1], m, q.from, q.to) /\ InSlice(sl[j + 1], o, q.from, q.to)
      BY <1>2, <2>2
    <3> QED
      BY <3>1 DEF IsStaged
  <2> QED
    BY <1>2, <2>1, <2>2 DEF IsStaged
<1> QED
  BY <1>5, <1>6, <1>7 DEF t

\* Another slice is read.
LEMMA RangeRead ==
  ASSUME NEW q, IsQuery(q), NEW R \in SUBSET Rows, NEW V \in SUBSET R, NEW A \in SUBSET V,
         NEW all, NEW sl, NEW bs, RangeOK(q, all, sl, bs, R, A), sl # <<>>,
         NEW src, IsSlice(src, V, q, Head(sl), bs)
  PROVE  RangeOK(q, all \o src, Tail(sl), bs, R, A)
<1> DEFINE h == Head(sl)
           t == Tail(sl)
           u == all \o src
           In(m) == InSlice(h, m, q.from, q.to)
<1>1. /\ IsStaged(t, q) /\ IsStaged(sl, q)
      /\ \A o : Remaining(sl, q, o) <=> In(o) \/ Remaining(t, q, o)
      /\ \A m, o \in Rows : In(m) /\ Remaining(t, q, o) => Precedes(m, o)
  BY NextSlice DEF RangeOK
<1>2. all \in Seq(R) /\ Distinct(all)
  BY DEF RangeOK
<1>3. src \in Seq(V) /\ Distinct(src)
  BY DEF IsSlice
<1>4. src \in Seq(R)
  BY <1>3
<1>5. IsMerged(u, all, src, R)
  BY <1>2, <1>4, BehindIsMerged
<1>6. ToSet(all) \subseteq R /\ ToSet(src) \subseteq V /\ Len(all) \in Nat /\ Len(src) \in Nat
  BY <1>2, <1>3, SeqIsFunction
<1>7. \A m \in ToSet(src) : m \in Rows /\ In(m) /\ Selected(q, m)
  <2> SUFFICES ASSUME NEW m \in ToSet(src)
               PROVE  m \in Rows /\ In(m) /\ Selected(q, m)
    OBVIOUS
  <2>1. PICK d \in bs : m \in Piece(V, q, h, bs, d)
    BY DEF IsSlice
  <2>2. In(m) /\ Matches(m, q.publisher, q.chain) /\ m.part = Part /\ m \in Rows
    BY <2>1 DEF Piece, InBuckets, Of, IsQuery
  <2>3. TemporalCondition(m, q.from, q.to)
    BY <1>1, <2>2 DEF IsStaged
  <2> QED
    BY <2>2, <2>3 DEF Selected
<1>8. \A m \in ToSet(all), o \in ToSet(src) : Precedes(m, o)
  BY <1>1, <1>7 DEF RangeOK
<1>9. \A m \in ToSet(all), o \in ToSet(src) : ~Precedes(o, m) /\ m # o
  BY <1>6, <1>7, <1>8, PrecedesOneWay
<1> HIDE DEF u, h, t, In
<1>10. u \in Seq(R) /\ Distinct(u)
  BY <1>2, <1>3, <1>5, <1>9 DEF IsMerged
<1>11. IsOrdered(u) \/ Cardinality(bs) > 1
  <2>1. IsOrdered(all) \/ Cardinality(bs) > 1
    BY DEF RangeOK
  <2>2. IsOrdered(src) \/ Cardinality(bs) > 1
    BY DEF IsSlice
  <2> QED
    BY <2>1, <2>2, <1>5, <1>9 DEF IsMerged
<1>12. ASSUME NEW m \in ToSet(u)
       PROVE  Selected(q, m) /\ \A o \in Rows : Remaining(t, q, o) => Precedes(m, o)
  <2>1. m \in ToSet(all) \/ m \in ToSet(src)
    BY <1>5 DEF IsMerged
  <2>2. CASE m \in ToSet(all)
    BY <2>2, <1>1 DEF RangeOK
  <2>3. CASE m \in ToSet(src)
    BY <2>3, <1>1, <1>7
  <2> QED
    BY <2>1, <2>2, <2>3
<1>13. ASSUME NEW m \in A, Selected(q, m)
       PROVE  m \in ToSet(u) \/ Remaining(t, q, m) \/ (q.limit # NoLimit /\ Len(u) >= q.limit)
  <2>1. Len(u) = Len(all) + Len(src) /\ \A x : x \in ToSet(u) <=> x \in ToSet(all) \/ x \in ToSet(src)
    BY <1>5 DEF IsMerged
  <2>2. m \in ToSet(all) \/ Remaining(sl, q, m) \/ (q.limit # NoLimit /\ Len(all) >= q.limit)
    BY <1>13 DEF RangeOK
  <2>3. q.limit \in Nat
    BY DEF IsQuery
  <2>4. ASSUME In(m)
        PROVE  m \in ToSet(src) \/ (q.limit # NoLimit /\ Len(src) = q.limit)
    <3>1. BucketOf(m) \in bs
      BY <1>13 DEF RangeOK
    <3>2. m \in Piece(V, q, h, bs, BucketOf(m))
      BY <3>1, <2>4, <1>13 DEF Piece, InBuckets, Of, IsQuery, Selected, In
    <3> QED
      BY <3>1, <3>2 DEF IsSlice, h
  <2> QED
    BY <2>1, <2>2, <2>3, <2>4, <1>1, <1>6
<1>14. \A m \in A : Selected(q, m) => BucketOf(m) \in bs
  BY DEF RangeOK
<1>15. RangeOK(q, u, t, bs, R, A)
  BY <1>1, <1>10, <1>11, <1>12, <1>13, <1>14 DEF RangeOK
<1> QED
  BY <1>15 DEF u, t

-----------------------------------------------------------------------------
(* The last messages, or the first *)

Abs(c) == IF c < 0 THEN -c ELSE c

\* all is what "last c" means, at most k rows, if the table has the rows T.
IsTake(all, k, c, T) ==
    /\ all \in Seq(T) /\ Distinct(all) /\ IsOrdered(all)
    /\ Len(all) = Min({k, Cardinality(Of(T, Part))})
    /\ c > 0 => AreLast(all, Of(T, Part))

\* SQLite takes the last c rows or, if c is negative, the first.
LEMMA TakeLocal ==
  ASSUME NEW A \in SUBSET Rows, NEW c \in Int
  PROVE  /\ IsTake(sqliteTake(A, Part, -c), Abs(c), c, A)
         /\ c < 0 => AreFirst(sqliteTake(A, Part, -c), Of(A, Part))
<1> DEFINE S == Of(A, Part)
           all == sqliteTake(A, Part, -c)
<1>1. S \in SUBSET Rows /\ S \subseteq A
  BY DEF Of
<1> HIDE DEF S
<1>2. IsTaken(all, S, Abs(c)) /\ (c > 0 => AreLast(all, S)) /\ (c < 0 => AreFirst(all, S))
  <2>1. CASE c < 0
    <3>1. Abs(c) \in Nat /\ Abs(c) = -c /\ -c > 0
      BY <2>1 DEF Abs
    <3>2. all = FirstOf(Ordered(S), Abs(c))
      BY <3>1 DEF sqliteTake, S
    <3> QED
      BY <3>1, <3>2, <1>1, <2>1, FirstOfIs
  <2>2. CASE ~(c < 0)
    <3>1. Abs(c) \in Nat /\ Abs(c) = -(-c) /\ ~(-c > 0)
      BY <2>2 DEF Abs
    <3>2. all = LastOf(Ordered(S), Abs(c))
      BY <3>1 DEF sqliteTake, S
    <3> QED
      BY <3>1, <3>2, <1>1, <2>2, LastOfIs
  <2> QED
    BY <2>1, <2>2
<1> HIDE DEF all
<1>3. all \in Seq(S) /\ Distinct(all) /\ IsOrdered(all) /\ Len(all) = Min({Abs(c), Cardinality(S)})
  BY <1>2 DEF IsTaken
<1>4. all \in Seq(A)
  BY <1>1, <1>3
<1> QED
  BY <1>2, <1>3, <1>4 DEF IsTake, S, all

\* The limit of queryTake.
LEMMA TakeLimitIs ==
  ASSUME NEW c \in Int
  PROVE  takeLimit(-c) \in Nat /\ takeLimit(-c) = Min({Abs(c), MaxResendLast})
<1>1. (IF -c > 0 THEN -c ELSE -(-c)) = Abs(c) /\ Abs(c) \in Nat
  BY DEF Abs
<1>2. takeLimit(-c) = Min({Abs(c), MaxResendLast})
  BY <1>1 DEF takeLimit
<1>3. MaxResendLast \in Nat
  BY BucketAssumption
<1> QED
  BY <1>1, <1>2, <1>3, TwoNumbers

\* The saved buckets after d.
Newer(A, d) == {e \in Saved(A, Part) : e > d}

\* Which buckets queryTake stops before.
LEMMA TakeBucketsIs ==
  ASSUME NEW A, NEW n
  PROVE  \A d : d \in takeBuckets(A, Part, n) <=>
            /\ d \in Saved(A, Part)
            /\ Newer(A, d) = {} \/ Cardinality(InBuckets(A, Part, Newer(A, d))) < takeLimit(n)
  BY DEF takeBuckets, Newer

\* Without buckets there are no messages.
LEMMA TakeNothing ==
  ASSUME NEW A \in SUBSET Rows, NEW c \in Int, takeBuckets(A, Part, -c) = {}
  PROVE  IsTake(<<>>, takeLimit(-c), c, A)
<1> DEFINE S == Saved(A, Part)
<1>1. S \subseteq Nat /\ (\A d \in S : d <= MaxTs) /\ MaxTs \in Nat
  BY SavedIsFinite
<1>2. ASSUME S # {}
      PROVE  FALSE
  <2>1. Max(S) \in S /\ \A e \in S : e <= Max(S)
    BY <1>1, <1>2, Greatest
  <2>2. Newer(A, Max(S)) = {}
    BY <1>1, <2>1 DEF Newer
  <2> QED
    BY <2>1, <2>2, TakeBucketsIs
<1>3. Of(A, Part) = {}
  BY <1>2 DEF Saved
<1>4. Cardinality(Of(A, Part)) = 0
  BY <1>3, FS_EmptySet
<1>5. Min({takeLimit(-c), 0}) = 0
  <2>1. takeLimit(-c) \in Nat
    BY TakeLimitIs
  <2>2. Min({takeLimit(-c), 0}) = IF takeLimit(-c) <= 0 THEN takeLimit(-c) ELSE 0
    BY <2>1, TwoNumbers
  <2> QED
    BY <2>1, <2>2
<1>6. <<>> \in Seq(A) /\ Distinct(<<>>) /\ IsOrdered(<<>>) /\ Len(<<>>) = 0 /\ ToSet(<<>>) = {}
  BY DEF Distinct, IsOrdered, ToSet
<1> QED
  BY <1>4, <1>5, <1>6 DEF IsTake, AreLast

\* queryTake reads the buckets bs it found when the rows were A, now that they are R.  The
\* buckets it did not look into are earlier ones, and those it did have enough rows.
LEMMA TakeRead ==
  ASSUME NEW R \in SUBSET Rows, NEW A \in SUBSET R, NEW c \in Int,
         NEW bs, bs = takeBuckets(A, Part, -c)
  PROVE  \E T \in SUBSET R : A \subseteq T /\ IsTake(cassandraTake(R, Part, -c, bs), takeLimit(-c), c, T)
<1> DEFINE L == takeLimit(-c)
           W == InBuckets(R, Part, bs)
           T == A \cup W
           O == Of(T, Part)
           all == cassandraTake(R, Part, -c, bs)
<1>1. L \in Nat
  BY TakeLimitIs
<1>2. W \in SUBSET Rows /\ W \subseteq R /\ (\A m \in W : BucketOf(m) \in bs /\ m.part = Part) /\ W \subseteq O /\ O \subseteq Rows
  BY DEF InBuckets, Of
<1>3. \A o \in O : o \notin W => o \in A /\ BucketOf(o) \in Saved(A, Part) /\ BucketOf(o) \notin bs
  BY DEF InBuckets, Of, Saved
<1>4. IsTaken(all, W, L) /\ (c > 0 => AreLast(all, W))
  <2>1. CASE c < 0
    <3>1. -c > 0
      BY <2>1
    <3>2. all = FirstOf(Ordered(W), L)
      BY <3>1 DEF cassandraTake
    <3> QED
      BY <3>2, <1>1, <1>2, <2>1, FirstOfIs
  <2>2. CASE ~(c < 0)
    <3>1. ~(-c > 0)
      BY <2>2
    <3>2. all = LastOf(Ordered(W), L)
      BY <3>1 DEF cassandraTake
    <3> QED
      BY <3>2, <1>1, <1>2, <2>2, LastOfIs
  <2> QED
    BY <2>1, <2>2
<1> HIDE DEF all, L
<1>5. all \in Seq(W) /\ Distinct(all) /\ IsOrdered(all) /\ Len(all) = Min({L, Cardinality(W)})
  BY <1>4 DEF IsTaken
<1>6. ToSet(all) \subseteq W
  BY <1>5, SeqIsFunction
<1>7. IsFiniteSet(O) /\ IsFiniteSet(W) /\ Cardinality(W) \in Nat /\ Cardinality(O) \in Nat /\ Cardinality(W) <= Cardinality(O)
  <2>1. O \in SUBSET Rows /\ W \in SUBSET Rows /\ W \in SUBSET O
    BY <1>2
  <2> HIDE DEF O, W
  <2>2. IsFiniteSet(O) /\ IsFiniteSet(W) /\ Cardinality(W) <= Cardinality(O)
    BY <2>1, EndpointAssumption, FS_Subset
  <2> QED
    BY <2>2, FS_CardinalityType
<1>8. /\ Saved(A, Part) \subseteq Nat /\ (\A d \in Saved(A, Part) : d <= MaxTs) /\ MaxTs \in Nat
  <2>1. A \in SUBSET Rows
    OBVIOUS
  <2> QED
    BY <2>1, SavedIsFinite
<1>9. \A d : d \in bs <=> /\ d \in Saved(A, Part)
                          /\ Newer(A, d) = {} \/ Cardinality(InBuckets(A, Part, Newer(A, d))) < L
  BY TakeBucketsIs DEF L
<1>10. \A U : /\ IsFiniteSet(InBuckets(A, Part, U)) /\ Cardinality(InBuckets(A, Part, U)) \in Nat
  <2> SUFFICES ASSUME NEW U
               PROVE  IsFiniteSet(InBuckets(A, Part, U)) /\ Cardinality(InBuckets(A, Part, U)) \in Nat
    OBVIOUS
  <2>1. InBuckets(A, Part, U) \in SUBSET Rows
    BY DEF InBuckets, Of
  <2>2. IsFiniteSet(InBuckets(A, Part, U))
    BY <2>1, EndpointAssumption, FS_Subset
  <2> QED
    BY <2>2, FS_CardinalityType
<1>11. Min({L, Cardinality(W)}) = Min({L, Cardinality(O)})
  <2>1. CASE O \subseteq W
    <3>1. O = W
      BY <1>2, <2>1
    <3> QED
      BY <3>1
  <2>2. CASE ~(O \subseteq W)
    <3> DEFINE D == Saved(A, Part) \ bs
    <3>1. D # {} /\ D \subseteq Nat /\ \A d \in D : d <= MaxTs
      BY <2>2, <1>3, <1>8
    <3>2. Max(D) \in D /\ \A e \in D : e <= Max(D)
      BY <3>1, <1>8, Greatest
    <3> DEFINE d == Max(D)
               N == InBuckets(A, Part, Newer(A, d))
    <3>3. d \in Saved(A, Part) /\ d \notin bs /\ d \in Nat
      BY <3>1, <3>2
    <3>4. \A e \in D : e <= d
      BY <3>2
    <3> HIDE DEF d
    <3>5. ~(Cardinality(N) < L)
      BY <3>3, <1>9
    <3>6. Newer(A, d) \subseteq bs
      BY <3>3, <3>4, <1>8 DEF Newer
    <3>7. N \subseteq W
      BY <3>6 DEF InBuckets, Of
    <3>8. Cardinality(N) <= Cardinality(W) /\ Cardinality(N) \in Nat
      <4>1. N \in SUBSET W
        BY <3>7
      <4>2. Cardinality(N) \in Nat
        BY <1>10
      <4> HIDE DEF N, W
      <4> QED
        BY <4>1, <4>2, <1>7, FS_Subset
    <3>9. L <= Cardinality(W) /\ L <= Cardinality(O)
      <4> HIDE DEF N, W, O
      <4> QED
        BY <3>5, <3>8, <1>1, <1>7
    <3> HIDE DEF W, O
    <3> QED
      BY <3>9, <1>1, <1>7, TwoNumbers
  <2> QED
    BY <2>1, <2>2
<1>12. ASSUME NEW m \in W, NEW o \in O, o \notin W
       PROVE  Precedes(o, m)
  <2> DEFINE d == BucketOf(o)
             e == BucketOf(m)
  <2>1. d \in Saved(A, Part) /\ d \notin bs /\ e \in bs /\ e \in Saved(A, Part) /\ d \in Nat /\ e \in Nat
    BY <1>2, <1>3, <1>8, <1>9, <1>12
  <2>2. m \in Rows /\ o \in Rows
    BY <1>2, <1>12
  <2>3. ASSUME ~(d < e)
        PROVE  FALSE
    <3> HIDE DEF d, e
    <3>1. e < d
      BY <2>1, <2>3
    <3>2. d \in Newer(A, e) /\ Newer(A, d) \subseteq Newer(A, e)
      BY <3>1, <2>1, <1>8 DEF Newer
    <3>3. Cardinality(InBuckets(A, Part, Newer(A, e))) < L
      BY <3>2, <2>1, <1>9
    <3>4. InBuckets(A, Part, Newer(A, d)) \in SUBSET InBuckets(A, Part, Newer(A, e))
      BY <3>2 DEF InBuckets
    <3>5. Cardinality(InBuckets(A, Part, Newer(A, d))) <= Cardinality(InBuckets(A, Part, Newer(A, e)))
      BY <3>4, <1>10, FS_Subset
    <3>6. Cardinality(InBuckets(A, Part, Newer(A, d))) < L
      BY <3>3, <3>5, <1>1, <1>10
    <3> QED
      BY <3>6, <2>1, <1>9
  <2> QED
    BY <2>2, <2>3, BucketsAscend
<1>13. c > 0 => AreLast(all, O)
  <2> SUFFICES ASSUME c > 0, NEW m \in ToSet(all), NEW o \in O \ ToSet(all)
               PROVE  ~Precedes(m, o)
    BY DEF AreLast
  <2>1. m \in W /\ m \in Rows /\ o \in Rows
    BY <1>2, <1>6
  <2>2. CASE o \in W
    BY <2>2, <1>4 DEF AreLast
  <2>3. CASE o \notin W
    <3>1. Precedes(o, m)
      BY <2>1, <2>3, <1>12
    <3> QED
      BY <3>1, <2>1, PrecedesOneWay
  <2> QED
    BY <2>2, <2>3
<1>14. all \in Seq(T)
  <2>1. W \subseteq T
    OBVIOUS
  <2> HIDE DEF T, W
  <2> QED
    BY <2>1, <1>5
<1>15. IsTake(all, L, c, T)
  <2>1. Len(all) = Min({L, Cardinality(O)})
    BY <1>5, <1>11
  <2> HIDE DEF W, T
  <2> QED
    BY <2>1, <1>5, <1>13, <1>14 DEF IsTake
<1>16. T \in SUBSET R /\ A \subseteq T
  BY <1>2
<1> QED
  BY <1>15, <1>16 DEF all, L

-----------------------------------------------------------------------------
(* The inductive invariant *)

\* Whether SQLite answers, itself or through the proxy.
Local == adapter = "sqlite" \/ req.endpoint = "streams"

\* The messages read so far: those sent and those to be sent.
All == body \o source

\* The most rows "last n" may give.
Most == IF Local THEN Abs(Count(req)) ELSE takeLimit(TakeCount(req))

RowsOK ==
    /\ adapter \in {"sqlite", "cassandra"} /\ req \in Requests
    /\ rows \subseteq Rows /\ asked \subseteq rows /\ chosen \subseteq 0 .. MaxTs
    /\ body \in Seq(rows) /\ source \in Seq(rows)
    /\ MessageLimit(req) # NoLimit => Len(body) <= Limit

\* The query is being answered, or has been.
Active == phase = "sending" \/ (phase = "complete" /\ req.endpoint # "ready")

\* Nothing is read before the call; what is called is well-formed; and a response is only
\* complete if nothing is left to be read or sent.
PhaseOK ==
    /\ phase \in {"received", "parsing", "access", "calling", "polling"} =>
          asked = {} /\ chosen = {} /\ slices = <<>> /\ source = <<>> /\ body = <<>>
    /\ phase = "polling" => req.endpoint = "ready"
    /\ phase = "calling" \/ Active => ~Malformed(req)
    /\ phase = "complete" /\ Active => slices = <<>> /\ source = <<>>

\* "last n": nothing is read yet, or everything.
LastOK ==
    \/ /\ slices = <<"take">> /\ body = <<>> /\ source = <<>> /\ ~Local
       /\ chosen = takeBuckets(asked, Part, TakeCount(req))
    \/ /\ slices = <<>>
       /\ \E T \in SUBSET rows :
             /\ asked \subseteq T /\ IsTake(All, Most, Count(req), T)
             /\ Local /\ Count(req) < 0 => AreFirst(All, Of(T, Part))

\* A range: the buckets are not known yet, or some of the slices are read.
SlicesOK ==
    \/ slices = <<"buckets">> /\ body = <<>> /\ source = <<>>
    \/ /\ slices \in Seq(SliceNames)
       /\ Proper(QueryOf(req)) => RangeOK(QueryOf(req), All, slices, chosen, rows, asked)

QueryOK == Active => IF req.type = "last" THEN LastOK ELSE SlicesOK

IInv == RowsOK /\ PhaseOK /\ QueryOK

-----------------------------------------------------------------------------
(* Requests *)

\* The number a request for the last messages asks for.
Asked(r) == IF r.count = Absent THEN 1 ELSE r.count

\* Limits are numbers.
LEMMA Limits ==
  ASSUME NEW r
  PROVE  /\ Limit \in Nat \ {0} /\ RequestLimit(r) \in Nat
         /\ MessageLimit(r) = NoLimit => RequestLimit(r) = NoLimit
         /\ MessageLimit(r) # NoLimit => MessageLimit(r) = Limit /\ RequestLimit(r) = Limit + 1
  BY EndpointAssumption DEF RequestLimit, MessageLimit, NoLimit

\* The count that is passed on.
LEMMA CountIs ==
  ASSUME NEW r \in Requests, ~Malformed(r), r.type = "last"
  PROVE  /\ Asked(r) \in Int /\ Count(r) \in Int /\ TakeCount(r) = -Count(r)
         /\ Count(r) = IF RequestLimit(r) = NoLimit \/ Asked(r) <= RequestLimit(r)
                       THEN Asked(r) ELSE RequestLimit(r)
<1>1. Malformed(r) = RefusesLast(r)
  BY Zenon DEF Malformed
<1>2. r.count # NaN
  BY <1>1 DEF RefusesLast
<1>3. r.count \in Int \cup {Absent, NaN}
  BY EndpointAssumption
<1>4. Asked(r) \in Int
  BY <1>2, <1>3 DEF Asked
<1>5. Count(r) = IF RequestLimit(r) = NoLimit THEN Asked(r) ELSE Min({Asked(r), RequestLimit(r)})
  BY DEF Count, Asked
<1>6. RequestLimit(r) \in Nat
  BY Limits
<1>7. Min({Asked(r), RequestLimit(r)}) = IF Asked(r) <= RequestLimit(r) THEN Asked(r) ELSE RequestLimit(r)
  BY <1>4, <1>6, TwoNumbers
<1>8. Count(r) = IF RequestLimit(r) = NoLimit \/ Asked(r) <= RequestLimit(r)
                 THEN Asked(r) ELSE RequestLimit(r)
  BY <1>5, <1>7
<1>9. Count(r) \in Int
  BY <1>4, <1>6, <1>8
<1> QED
  BY <1>4, <1>8, <1>9 DEF TakeCount

\* The query that is made of a request.
LEMMA QueryIs ==
  ASSUME NEW r \in Requests, ~Malformed(r), r.type # "last"
  PROVE  /\ r.type \in {"from", "range"} /\ r.fromTs \in Int /\ (r.type = "range" => r.toTs \in Int)
         /\ IsQuery(QueryOf(r)) /\ QueryOf(r).limit = RequestLimit(r)
<1>1. r.type \in {"from", "range"} /\ (r.type = "from" => ~RefusesFrom(r)) /\ (r.type = "range" => ~RefusesRange(r))
  BY Zenon DEF Malformed
<1>2. {r.fromTs, r.fromSeq, r.toTs, r.toSeq} \subseteq Int \cup {Absent, NaN}
  BY EndpointAssumption
<1>3. r.fromTs \in Int /\ (r.type = "range" => r.toTs \in Int)
  BY <1>1, <1>2 DEF RefusesFrom, RefusesRange
<1>4. MaxSeq \in Int /\ MinSeq \in Int /\ MaxTs \in Int
  BY MaxSeqAssumption, EndpointAssumption DEF MinSeq
<1>5. OrDefault(r.fromSeq, MinSeq) \in Int /\ OrDefault(r.toSeq, MaxSeq) \in Int
  BY <1>2, <1>4 DEF OrDefault
<1>6. RequestLimit(r) \in Nat
  BY Limits
<1>7. CASE r.type = "from"
  BY <1>3, <1>4, <1>5, <1>6, <1>7 DEF QueryOf, requestFrom, IsQuery, IsRef
<1>8. CASE r.type = "range"
  BY <1>3, <1>4, <1>5, <1>6, <1>8 DEF QueryOf, requestRange, IsQuery, IsRef
<1> QED
  BY <1>1, <1>3, <1>7, <1>8

-----------------------------------------------------------------------------
(* Every step keeps the invariant *)

\* Nothing is read before the first step.
LEMMA InitIInv == Init => IInv
<1> SUFFICES ASSUME Init PROVE IInv
  OBVIOUS
<1>1. RowsOK
  BY EndpointAssumption DEF Init, RowsOK
<1>2. PhaseOK
  BY DEF Init, PhaseOK, Active
<1>3. QueryOK
  BY DEF Init, QueryOK, Active
<1> QED
  BY <1>1, <1>2, <1>3 DEF IInv

\* A step that changes only the phase, the status or the end of the process.
LEMMA QuietStep ==
  ASSUME IInv, UNCHANGED <<adapter, rows, req, asked, chosen, slices, source, body>>,
         PhaseOK', Active' => Active
  PROVE  IInv'
<1>1. RowsOK'
  BY DEF IInv, RowsOK
<1>2. QueryOK'
  BY DEF IInv, QueryOK, LastOK, SlicesOK, Local, All, Most
<1> QED
  BY <1>1, <1>2 DEF IInv

\* The steps before the call: Authenticate, Receive, ReceiveProxy, ReceiveReady, Access and
\* its failure, and Ready.
LEMMA EarlySteps ==
  ASSUME IInv, Authenticate \/ Receive \/ ReceiveProxy \/ ReceiveReady \/ Access \/ AccessFailed \/ Ready
  PROVE  IInv'
<1>1. CASE Authenticate
  <2>1. req.auth \in {"missing", "wrong", "malformed", "ok"}
    BY EndpointAssumption DEF IInv, RowsOK
  <2>2. phase' \in {"error", "parsing"} /\ phase = "received"
    BY <1>1, <2>1, Zenon DEF Authenticate, Respond
  <2> QED
    BY <1>1, <2>2, QuietStep DEF Authenticate, queryVars, IInv, PhaseOK, Active
<1>2. CASE Receive
  <2>1. phase' \in {"error", "access"} /\ phase = "parsing"
    BY <1>2 DEF Receive, Respond
  <2> QED
    BY <1>2, <2>1, QuietStep DEF Receive, queryVars, IInv, PhaseOK, Active
<1>3. CASE ReceiveProxy
  <2>1. phase' = "error" \/ (phase' = "calling" /\ ~Malformed(req))
    BY <1>3 DEF ReceiveProxy, Respond
  <2> QED
    BY <1>3, <2>1, QuietStep DEF ReceiveProxy, queryVars, IInv, PhaseOK, Active
<1>4. CASE ReceiveReady
  <2>1. phase' \in {"error", "polling"}
    BY <1>4 DEF ReceiveReady, Respond
  <2> QED
    BY <1>4, <2>1, QuietStep DEF ReceiveReady, queryVars, IInv, PhaseOK, Active
<1>5. CASE Access
  <2>1. phase' = "error" \/ (phase' = "calling" /\ ~Malformed(req))
    BY <1>5 DEF Access, Respond
  <2> QED
    BY <1>5, <2>1, QuietStep DEF Access, queryVars, IInv, PhaseOK, Active
<1>6. CASE AccessFailed
  BY <1>6, QuietStep DEF AccessFailed, queryVars, IInv, PhaseOK, Active
<1>7. CASE Ready
  <2>1. phase' \in {"error", "complete"} /\ phase = "polling"
    BY <1>7 DEF Ready, Respond
  <2> QED
    BY <1>7, <2>1, QuietStep DEF Ready, queryVars, IInv, PhaseOK, Active
<1> QED
  BY <1>1, <1>2, <1>3, <1>4, <1>5, <1>6, <1>7

\* The steps by which a query fails or the client goes: the response is not completed.
LEMMA FailureSteps ==
  ASSUME IInv, \/ CallFailed \/ FindBucketsFailed \/ ReadSliceFailed
               \/ SqliteRangeFailed \/ SourceFailed \/ ClientGone
  PROVE  IInv'
<1>1. CASE CallFailed
  BY <1>1, QuietStep DEF CallFailed, Respond, queryVars, IInv, PhaseOK, Active
<1>2. CASE FindBucketsFailed
  BY <1>2, QuietStep DEF FindBucketsFailed, queryVars, IInv, PhaseOK, Active
<1>3. CASE ReadSliceFailed
  BY <1>3, QuietStep DEF ReadSliceFailed, queryVars, IInv, PhaseOK, Active
<1>4. CASE SourceFailed
  <2>1. phase' \in {"error", "cut"}
    BY <1>4 DEF SourceFailed, Respond
  <2> QED
    BY <1>4, <2>1, QuietStep DEF SourceFailed, queryVars, IInv, PhaseOK, Active
<1>5. CASE ClientGone
  BY <1>5, QuietStep DEF ClientGone, queryVars, IInv, PhaseOK, Active
<1>6. CASE SqliteRangeFailed
  BY <1>6, QuietStep DEF SqliteRangeFailed, queryVars, IInv, PhaseOK, Active
<1> QED
  BY <1>1, <1>2, <1>3, <1>4, <1>5, <1>6

\* The response ends when nothing is left.
LEMMA EndStep == ASSUME IInv, End PROVE IInv'
<1>1. Active
  BY DEF End, Sending, Active
<1> QED
  BY <1>1, QuietStep DEF End, queryVars, IInv, PhaseOK, Active

\* A store adds a row.
LEMMA StoreStep == ASSUME IInv, NEW m \in Rows, Store(m) PROVE IInv'
<1>1. rows \subseteq rows' /\ rows' \subseteq Rows
  BY DEF Store, IInv, RowsOK
<1>2. UNCHANGED <<adapter, req, phase, asked, chosen, slices, source, body>>
  BY DEF Store, queryVars
<1>3. body' \in Seq(rows') /\ source' \in Seq(rows')
  <2>1. body \in Seq(rows) /\ source \in Seq(rows)
    BY DEF IInv, RowsOK
  <2>2. body \in Seq(rows') /\ source \in Seq(rows')
    BY <2>1, <1>1
  <2> QED
    BY <2>2, <1>2
<1>4. RowsOK'
  BY <1>1, <1>2, <1>3 DEF IInv, RowsOK
<1>5. PhaseOK'
  BY <1>2 DEF IInv, PhaseOK, Active
<1>6. (Active <=> Active') /\ (Local <=> Local') /\ All' = All /\ Most' = Most
  BY <1>2 DEF Active, Local, All, Most
<1>7. LastOK => LastOK'
  <2> SUFFICES ASSUME LastOK PROVE LastOK'
    OBVIOUS
  <2>1. SUBSET rows \subseteq SUBSET rows'
    BY <1>1
  <2> QED
    BY <2>1, <1>2, <1>6 DEF LastOK
<1>8. SlicesOK => SlicesOK'
  <2> SUFFICES ASSUME SlicesOK PROVE SlicesOK'
    OBVIOUS
  <2>1. RangeOK(QueryOf(req), All, slices, chosen, rows, asked)
           => RangeOK(QueryOf(req), All, slices, chosen, rows', asked)
    BY <1>1, RangeGrows
  <2> QED
    BY <2>1, <1>2, <1>6 DEF SlicesOK
<1>9. QueryOK'
  BY <1>2, <1>6, <1>7, <1>8 DEF IInv, QueryOK
<1> QED
  BY <1>4, <1>5, <1>9 DEF IInv

\* Nothing before or behind a sequence.
LEMMA NothingAdded ==
  ASSUME NEW S, NEW s \in Seq(S)
  PROVE  <<>> \o s = s /\ s \o <<>> = s
  OBVIOUS

\* A row that is sent moves from what is to be sent to what was sent.
LEMMA Sent ==
  ASSUME NEW S, NEW s \in Seq(S), NEW t \in Seq(S), t # <<>>
  PROVE  /\ Append(s, Head(t)) \in Seq(S) /\ Len(Append(s, Head(t))) = Len(s) + 1
         /\ Tail(t) \in Seq(S) /\ Append(s, Head(t)) \o Tail(t) = s \o t
<1> DEFINE a == Append(s, Head(t))
           b == Tail(t)
<1>1. /\ Len(s) \in Nat /\ Len(t) \in Nat /\ Len(t) >= 1 /\ Head(t) = t[1] /\ Head(t) \in S
  OBVIOUS
<1>2. a \in Seq(S) /\ Len(a) = Len(s) + 1 /\ \A i \in 1 .. Len(s) + 1 : a[i] = IF i <= Len(s) THEN s[i] ELSE t[1]
  BY <1>1
<1>3. b \in Seq(S) /\ Len(b) = Len(t) - 1 /\ \A i \in 1 .. Len(t) - 1 : b[i] = t[i + 1]
  BY <1>1
<1> HIDE DEF a, b
<1> DEFINE n == Len(s) + Len(t)
<1>4. /\ s \o t \in Seq(S) /\ Len(s \o t) = n
      /\ \A i \in 1 .. n : (s \o t)[i] = IF i <= Len(s) THEN s[i] ELSE t[i - Len(s)]
  BY Behind
<1>5. /\ a \o b \in Seq(S) /\ Len(a \o b) = n
      /\ \A i \in 1 .. n : (a \o b)[i] = IF i <= Len(a) THEN a[i] ELSE b[i - Len(a)]
  <2>1. Len(a) + Len(b) = n
    BY <1>1, <1>2, <1>3
  <2>2. /\ a \o b \in Seq(S) /\ Len(a \o b) = Len(a) + Len(b)
        /\ \A i \in 1 .. Len(a) + Len(b) : (a \o b)[i] = IF i <= Len(a) THEN a[i] ELSE b[i - Len(a)]
    BY <1>2, <1>3, Behind
  <2> HIDE DEF n
  <2> QED
    BY <2>1, <2>2
<1>6. ASSUME NEW i \in 1 .. n
      PROVE  (a \o b)[i] = (s \o t)[i]
  <2>1. CASE i <= Len(s)
    BY <2>1, <1>1, <1>2, <1>4, <1>5
  <2>2. CASE i = Len(s) + 1
    BY <2>2, <1>1, <1>2, <1>4, <1>5
  <2>3. CASE i > Len(s) + 1
    <3>1. i - Len(a) \in 1 .. Len(t) - 1 /\ (i - Len(a)) + 1 = i - Len(s)
      BY <2>3, <1>1, <1>2
    <3>2. b[i - Len(a)] = t[i - Len(s)]
      BY <3>1, <1>3
    <3> QED
      BY <2>3, <3>2, <1>1, <1>2, <1>4, <1>5
  <2>4. i \in Int /\ Len(s) \in Int
    BY <1>1
  <2>5. i <= Len(s) \/ i = Len(s) + 1 \/ i > Len(s) + 1
    BY <2>4
  <2> QED
    BY <2>1, <2>2, <2>3, <2>5
<1>7. a \o b = s \o t
  <2> DEFINE u == a \o b
             v == s \o t
  <2>1. u \in [1 .. n -> S] /\ v \in [1 .. n -> S]
    BY <1>4, <1>5, SeqIsFunction
  <2>2. \A i \in 1 .. n : u[i] = v[i]
    BY <1>6
  <2> HIDE DEF u, v, n
  <2>3. u = [i \in 1 .. n |-> u[i]] /\ v = [i \in 1 .. n |-> v[i]]
    BY <2>1
  <2>4. [i \in 1 .. n |-> u[i]] = [i \in 1 .. n |-> v[i]]
    BY <2>2
  <2> QED
    BY <2>3, <2>4 DEF u, v
<1> QED
  BY <1>2, <1>3, <1>7 DEF a, b

\* The buckets a query may look into.
LEMMA SavedAreDates ==
  ASSUME NEW R \in SUBSET Rows, NEW bs, bs \subseteq Saved(R, Part)
  PROVE  bs \subseteq 0 .. MaxTs
<1>1. bs \subseteq Nat /\ (\A d \in bs : d <= MaxTs) /\ MaxTs \in Nat
  BY SavedIsFinite
<1> QED
  BY <1>1

\* SQLite answers a call.
LEMMA AnswerStep ==
  ASSUME IInv, phase = "calling", phase' = "sending", asked' = rows, source' = SqliteAnswer, Local,
         UNCHANGED <<adapter, rows, req, chosen, slices, body>>
  PROVE  IInv'
<1>1. /\ rows \in SUBSET Rows /\ req \in Requests /\ ~Malformed(req)
      /\ slices = <<>> /\ body = <<>> /\ chosen \subseteq 0 .. MaxTs /\ adapter \in {"sqlite", "cassandra"}
  BY DEF IInv, RowsOK, PhaseOK
<1>2. CASE req.type = "last"
  <2> DEFINE c == Count(req)
             s == sqliteTake(rows, Part, -c)
  <2>1. c \in Int /\ TakeCount(req) = -c
    BY <1>1, <1>2, CountIs
  <2>2. source' = s
    BY <1>2, <2>1 DEF SqliteAnswer
  <2>3. IsTake(s, Abs(c), c, rows) /\ (c < 0 => AreFirst(s, Of(rows, Part)))
    BY <1>1, <2>1, TakeLocal
  <2> HIDE DEF s
  <2>4. s \in Seq(rows)
    BY <2>3 DEF IsTake
  <2>5. All' = s
    BY <1>1, <2>2, <2>4, NothingAdded DEF All
  <2>6. Most' = Abs(c) /\ Count(req)' = c
    BY DEF Most, Local
  <2> HIDE DEF c
  <2>7. LastOK'
    <3>1. IsTake(All', Most', Count(req)', rows') /\ (Count(req)' < 0 => AreFirst(All', Of(rows', Part)))
      BY <2>3, <2>5, <2>6
    <3>2. slices' = <<>> /\ rows' \in SUBSET rows' /\ asked' \subseteq rows'
      BY <1>1
    <3> QED
      BY <3>1, <3>2 DEF LastOK
  <2>8. RowsOK'
    BY <1>1, <2>2, <2>4 DEF IInv, RowsOK
  <2>9. PhaseOK'
    BY <1>1 DEF PhaseOK, Active
  <2> QED
    BY <1>2, <2>7, <2>8, <2>9 DEF IInv, QueryOK
<1>3. CASE req.type # "last"
  <2> DEFINE q == QueryOf(req)
             s == sqliteRange(rows, q)
  <2>1. IsQuery(q)
    BY <1>1, <1>3, QueryIs
  <2>2. source' = s
    BY <1>3 DEF SqliteAnswer
  <2>3. RangeOK(q, s, <<>>, chosen, rows, rows)
    BY <1>1, <2>1, RangeLocal
  <2> HIDE DEF s
  <2>4. s \in Seq(rows)
    BY <2>3 DEF RangeOK
  <2>5. All' = s
    BY <1>1, <2>2, <2>4, NothingAdded DEF All
  <2>6. slices' = <<>> /\ <<>> \in Seq(SliceNames)
    BY <1>1
  <2>7. SlicesOK'
    BY <2>3, <2>5, <2>6 DEF SlicesOK
  <2>8. RowsOK'
    BY <1>1, <2>2, <2>4 DEF IInv, RowsOK
  <2>9. PhaseOK'
    BY <1>1 DEF PhaseOK, Active
  <2> QED
    BY <1>3, <2>7, <2>8, <2>9 DEF IInv, QueryOK
<1> QED
  BY <1>2, <1>3

\* A query is begun.
LEMMA CallSteps == ASSUME IInv, Call \/ CallProxy PROVE IInv'
<1>1. CASE CallProxy
  <2>1. CASE exit' = "proxy" /\ UNCHANGED <<phase, asked, source>>
    BY <1>1, <2>1, QuietStep DEF CallProxy, IInv, PhaseOK, Active
  <2>2. CASE phase' = "sending" /\ asked' = rows /\ source' = SqliteAnswer
    BY <1>1, <2>2, AnswerStep DEF CallProxy, Local
  <2> QED
    BY <1>1, <2>1, <2>2 DEF CallProxy
<1>2. CASE Call /\ adapter = "sqlite"
  BY <1>2, AnswerStep DEF Call, Local
<1>3. CASE Call /\ adapter = "cassandra"
  <2>1. /\ phase = "calling" /\ phase' = "sending" /\ asked' = rows /\ ~Local
        /\ UNCHANGED <<adapter, rows, req, source, body>>
    BY <1>3 DEF Call, Local
  <2>2. /\ rows \in SUBSET Rows /\ req \in Requests /\ ~Malformed(req)
        /\ slices = <<>> /\ body = <<>> /\ source = <<>> /\ chosen \subseteq 0 .. MaxTs
        /\ adapter \in {"sqlite", "cassandra"}
    BY <2>1 DEF IInv, RowsOK, PhaseOK
  <2>3. PhaseOK'
    BY <2>1, <2>2 DEF PhaseOK, Active
  <2>4. chosen' \subseteq 0 .. MaxTs => RowsOK'
    BY <2>1, <2>2 DEF IInv, RowsOK
  <2>5. CASE req.type = "last"
    <3> DEFINE c == Count(req)
    <3>1. c \in Int /\ TakeCount(req) = -c
      BY <2>2, <2>5, CountIs
    <3>2. chosen' = takeBuckets(rows, Part, -c) /\ slices' = IF chosen' = {} THEN <<>> ELSE <<"take">>
      BY <1>3, <2>5, <3>1 DEF Call
    <3>3. chosen' \subseteq Saved(rows, Part)
      BY <3>2, TakeBucketsIs
    <3>4. chosen' \subseteq 0 .. MaxTs
      BY <2>2, <3>3, SavedAreDates
    <3>5. CASE chosen' = {}
      <4>1. IsTake(<<>>, takeLimit(-c), c, rows)
        BY <2>2, <3>1, <3>2, <3>5, TakeNothing
      <4>2. All' = <<>> /\ Most' = takeLimit(-c) /\ Count(req)' = c /\ ~Local'
        BY <2>1, <2>2, <3>1 DEF All, Most, Local
      <4> HIDE DEF c
      <4>3. slices' = <<>> /\ rows' \in SUBSET rows' /\ asked' \subseteq rows' /\ IsTake(All', Most', Count(req)', rows')
        BY <2>1, <3>2, <3>5, <4>1, <4>2
      <4>4. LastOK'
        BY <4>2, <4>3 DEF LastOK
      <4> QED
        BY <2>1, <2>3, <2>4, <2>5, <3>4, <4>4 DEF IInv, QueryOK
    <3>6. CASE chosen' # {}
      <4>1. LastOK'
        BY <2>1, <2>2, <3>1, <3>2, <3>6 DEF LastOK, Local
      <4> QED
        BY <2>1, <2>3, <2>4, <2>5, <3>4, <4>1 DEF IInv, QueryOK
    <3> QED
      BY <3>5, <3>6
  <2>6. CASE req.type # "last"
    <3>1. slices' = <<"buckets">> /\ chosen' = chosen
      BY <1>3, <2>6 DEF Call
    <3>2. SlicesOK'
      BY <2>1, <2>2, <3>1 DEF SlicesOK
    <3> QED
      BY <2>1, <2>2, <2>3, <2>4, <2>6, <3>1, <3>2 DEF IInv, QueryOK
  <2> QED
    BY <2>5, <2>6
<1> QED
  BY <1>1, <1>2, <1>3 DEF IInv, RowsOK

\* Which slices there can be, by the type of the request.
LEMMA WhatIsRead ==
  ASSUME IInv, Sending
  PROVE  /\ Active /\ ~Malformed(req)
         /\ req.type = "last" => slices \in {<<>>, <<"take">>} /\ LastOK
         /\ req.type # "last" => /\ slices = <<"buckets">> \/ slices \in Seq(SliceNames)
                                 /\ SlicesOK /\ slices # <<"take">>
<1>1. Active /\ ~Malformed(req) /\ (req.type = "last" => LastOK) /\ (req.type # "last" => SlicesOK)
  BY DEF Sending, IInv, QueryOK, PhaseOK, Active
<1>2. req.type = "last" => slices \in {<<>>, <<"take">>}
  BY <1>1 DEF LastOK
<1>3. req.type # "last" => slices = <<"buckets">> \/ slices \in Seq(SliceNames)
  BY <1>1 DEF SlicesOK
<1>4. <<"take">> # <<"buckets">>
  <2>1. <<"take">>[1] # <<"buckets">>[1]
    OBVIOUS
  <2> QED
    BY <2>1
<1>5. <<"take">> \notin Seq(SliceNames)
  <2>1. "take" \notin SliceNames
    BY DEF SliceNames
  <2>2. <<"take">>[1] = "take" /\ Len(<<"take">>) = 1
    OBVIOUS
  <2> QED
    BY <2>1, <2>2
<1> QED
  BY <1>1, <1>2, <1>3, <1>4, <1>5

\* The buckets of a range become known.
LEMMA FindBucketsStep == ASSUME IInv, FindBuckets PROVE IInv'
<1> DEFINE q == QueryOf(req)
<1>1. /\ Sending /\ slices = <<"buckets">>
      /\ chosen' = getBucketsByTimestamp(Saved(rows, Part), q.from.ts, q.to.ts)
      /\ slices' = IF chosen' = {} THEN <<>> ELSE Slices(q.from, q.to)
      /\ UNCHANGED <<adapter, rows, req, phase, asked, source, body>>
  BY DEF FindBuckets
<1>2. req.type # "last"
  <2>1. <<"buckets">> # <<>> /\ <<"buckets">>[1] # <<"take">>[1]
    OBVIOUS
  <2> QED
    BY <2>1, <1>1, WhatIsRead
<1>3. /\ rows \in SUBSET Rows /\ asked \in SUBSET rows /\ req \in Requests /\ ~Malformed(req) /\ Active
      /\ SlicesOK
  BY <1>1, <1>2, WhatIsRead DEF IInv, RowsOK
<1>4. body = <<>> /\ source = <<>>
  <2>1. "buckets" \notin SliceNames
    BY DEF SliceNames
  <2>2. <<"buckets">>[1] = "buckets" /\ Len(<<"buckets">>) = 1
    OBVIOUS
  <2>3. <<"buckets">> \notin Seq(SliceNames)
    BY <2>1, <2>2
  <2> QED
    BY <2>3, <1>1, <1>3 DEF SlicesOK
<1>5. IsQuery(q)
  BY <1>2, <1>3, QueryIs
<1>6. chosen' \subseteq 0 .. MaxTs
  BY <1>1, <1>3, FoundAreSaved, SavedAreDates
<1>7. slices' \in Seq(SliceNames)
  BY <1>1, SlicesAreNames
<1>8. All' = <<>>
  BY <1>1, <1>4 DEF All
<1>9. Proper(q) => RangeOK(q, All', slices', chosen', rows, asked)
  BY <1>1, <1>3, <1>5, <1>8, RangeFound
<1>10. SlicesOK'
  BY <1>1, <1>7, <1>9 DEF SlicesOK
<1>11. RowsOK'
  BY <1>1, <1>6 DEF IInv, RowsOK
<1>12. PhaseOK'
  BY <1>1, <1>3 DEF PhaseOK, Active, Sending
<1> QED
  BY <1>1, <1>2, <1>10, <1>11, <1>12 DEF IInv, QueryOK

\* A slice is read.
LEMMA ReadSliceStep == ASSUME IInv, ReadSlice PROVE IInv'
<1> DEFINE q == QueryOf(req)
<1>1. /\ Sending /\ source = <<>> /\ slices # <<>> /\ Head(slices) \notin {"buckets", "take"}
      /\ slices' = Tail(slices)
      /\ UNCHANGED <<adapter, rows, req, phase, asked, chosen, body>>
  BY DEF ReadSlice
<1>2. PICK new \in SUBSET (rows \ asked), order \in SetToSeqs(chosen) :
         source' = cassandraSlice(asked \cup new, q, Head(slices), chosen, order)
  BY DEF ReadSlice
<1>3. Head(<<"take">>) = "take" /\ Head(<<"buckets">>) = "buckets"
  OBVIOUS
<1>4. req.type # "last" /\ slices # <<"buckets">>
  BY <1>1, <1>3, WhatIsRead
<1>5. /\ rows \in SUBSET Rows /\ asked \in SUBSET rows /\ req \in Requests /\ ~Malformed(req) /\ Active
      /\ chosen \subseteq 0 .. MaxTs /\ body \in Seq(rows)
      /\ slices \in Seq(SliceNames) /\ SlicesOK
  BY <1>1, <1>4, WhatIsRead DEF IInv, RowsOK
<1>6. IsQuery(q) /\ q.limit \in Nat
  BY <1>4, <1>5, QueryIs DEF IsQuery
<1> DEFINE V == asked \cup new
<1>7. V \in SUBSET Rows /\ V \in SUBSET rows /\ asked \in SUBSET V
  BY <1>2, <1>5
<1>8. IsFiniteSet(chosen)
  <2>1. IsFiniteSet(0 .. MaxTs)
    BY FS_Interval, EndpointAssumption
  <2> QED
    BY <2>1, <1>5, FS_Subset
<1>9. IsSlice(source', V, q, Head(slices), chosen)
  BY <1>2, <1>6, <1>7, <1>8, SliceIs
<1> HIDE DEF V, q
<1>10. source' \in Seq(rows)
  <2>1. source' \in Seq(V)
    BY <1>9 DEF IsSlice
  <2> QED
    BY <2>1, <1>7
<1>11. All = body /\ All' = body \o source'
  BY <1>1, <1>5, NothingAdded DEF All
<1>12. slices' \in Seq(SliceNames)
  BY <1>1, <1>5
<1>13. Proper(q) => RangeOK(q, All', slices', chosen, rows, asked)
  <2> SUFFICES ASSUME Proper(q)
               PROVE  RangeOK(q, All', slices', chosen, rows, asked)
    OBVIOUS
  <2>1. RangeOK(q, body, slices, chosen, rows, asked)
    BY <1>4, <1>5, <1>11 DEF SlicesOK, q
  <2>2. RangeOK(q, body \o source', Tail(slices), chosen, rows, asked)
    BY <2>1, <1>1, <1>5, <1>6, <1>7, <1>9, RangeRead
  <2> QED
    BY <2>2, <1>1, <1>11
<1>14. SlicesOK'
  BY <1>1, <1>12, <1>13 DEF SlicesOK, q
<1>15. RowsOK'
  BY <1>1, <1>10 DEF IInv, RowsOK
<1>16. PhaseOK'
  BY <1>1, <1>5 DEF PhaseOK, Active, Sending
<1> QED
  BY <1>1, <1>4, <1>14, <1>15, <1>16 DEF IInv, QueryOK

\* The last messages are read.
LEMMA ReadTakeStep == ASSUME IInv, ReadTake PROVE IInv'
<1> DEFINE c == Count(req)
<1>1. /\ Sending /\ slices = <<"take">> /\ slices' = <<>>
      /\ source' = cassandraTake(rows, Part, TakeCount(req), chosen)
      /\ UNCHANGED <<adapter, rows, req, phase, asked, chosen, body>>
  BY DEF ReadTake
<1>2. req.type = "last" /\ LastOK /\ ~Malformed(req) /\ Active
  BY <1>1, WhatIsRead
<1>3. <<"take">> # <<>>
  OBVIOUS
<1>4. body = <<>> /\ ~Local /\ chosen = takeBuckets(asked, Part, TakeCount(req))
  BY <1>1, <1>2, <1>3 DEF LastOK
<1>5. rows \in SUBSET Rows /\ asked \in SUBSET rows /\ req \in Requests
  BY DEF IInv, RowsOK
<1>6. c \in Int /\ TakeCount(req) = -c
  BY <1>2, <1>5, CountIs
<1>7. PICK T \in SUBSET rows : asked \subseteq T /\ IsTake(source', takeLimit(-c), c, T)
  BY <1>1, <1>4, <1>5, <1>6, TakeRead
<1>8. source' \in Seq(T)
  BY <1>7 DEF IsTake
<1>9. source' \in Seq(rows)
  BY <1>7, <1>8
<1>10. All' = source'
  BY <1>1, <1>4, <1>9, NothingAdded DEF All
<1>11. Most' = takeLimit(-c) /\ Count(req)' = c /\ ~Local'
  BY <1>1, <1>4, <1>6 DEF Most, Local
<1> HIDE DEF c
<1>12. T \in SUBSET rows' /\ asked' \subseteq T /\ IsTake(All', Most', Count(req)', T)
  BY <1>1, <1>7, <1>10, <1>11
<1>13. LastOK'
  BY <1>1, <1>11, <1>12 DEF LastOK
<1>14. RowsOK'
  BY <1>1, <1>9 DEF IInv, RowsOK
<1>15. PhaseOK'
  BY <1>1, <1>2 DEF PhaseOK, Active, Sending
<1> QED
  BY <1>1, <1>2, <1>13, <1>14, <1>15 DEF IInv, QueryOK

\* A row is sent, or the limit is met.
LEMMA SendStep == ASSUME IInv, Send PROVE IInv'
<1>1. CASE UNCHANGED <<phase, source, status, body>>
  BY <1>1, QuietStep DEF Send, IInv, PhaseOK, Active
<1>3. CASE phase' = "overrun" /\ UNCHANGED <<source, status, body>>
  BY <1>3, QuietStep DEF Send, IInv, PhaseOK, Active
<1>2. CASE /\ PassesLimit(MessageLimit(req), Len(body))
           /\ body' = Append(body, Head(source)) /\ source' = Tail(source) /\ phase' = phase
  <2>1. Sending /\ source # <<>> /\ UNCHANGED <<adapter, rows, req, phase, asked, chosen, slices>>
    BY <1>2 DEF Send
  <2>2. body \in Seq(rows) /\ source \in Seq(rows)
    BY DEF IInv, RowsOK
  <2>3. /\ body' \in Seq(rows) /\ source' \in Seq(rows) /\ All' = All /\ Len(body') = Len(body) + 1
    BY <1>2, <2>1, <2>2, Sent DEF All
  <2>4. MessageLimit(req) # NoLimit => Len(body') <= Limit
    BY <1>2, <2>2, <2>3, Limits DEF PassesLimit
  <2>5. RowsOK'
    BY <2>1, <2>3, <2>4 DEF IInv, RowsOK
  <2>6. PhaseOK'
    BY <2>1, WhatIsRead DEF PhaseOK, Active, Sending
  <2>7. (Active' <=> Active) /\ (Local' <=> Local) /\ Most' = Most
    BY <2>1 DEF Active, Local, Most
  <2>8. LastOK => LastOK'
    BY <2>1, <2>3, <2>7 DEF LastOK
  <2>9. SlicesOK => SlicesOK'
    BY <2>1, <2>3 DEF SlicesOK
  <2> QED
    BY <2>1, <2>5, <2>6, <2>7, <2>8, <2>9 DEF IInv, QueryOK
<1> QED
  BY <1>1, <1>2, <1>3 DEF Send

\* The invariant is inductive.
LEMMA NextIInv == IInv /\ [Next]_vars => IInv'
<1> SUFFICES ASSUME IInv, [Next]_vars PROVE IInv'
  OBVIOUS
<1>1. CASE UNCHANGED vars
  BY <1>1, QuietStep DEF vars, IInv, PhaseOK, Active
<1>2. CASE Handle
  BY <1>2, EarlySteps, FailureSteps, CallSteps, FindBucketsStep, ReadSliceStep, ReadTakeStep,
     SendStep, EndStep DEF Handle
<1>3. CASE ClientGone
  BY <1>3, FailureSteps
<1>4. CASE \E m \in Rows : Store(m)
  BY <1>4, StoreStep
<1> QED
  BY <1>1, <1>2, <1>3, <1>4 DEF Next

\* The inductive invariant holds.
THEOREM Invariance == Spec => []IInv
  BY InitIInv, NextIInv, PTL DEF Spec

-----------------------------------------------------------------------------
(* Complete responses *)

\* What a complete response has: everything read was sent, and it is within the limit.
LEMMA CompleteIs ==
  ASSUME IInv, phase = "complete", req.endpoint # "ready"
  PROVE  /\ Active /\ ~Malformed(req) /\ req \in Requests /\ All = body /\ slices = <<>>
         /\ rows \in SUBSET Rows /\ asked \in SUBSET rows
         /\ body \in Seq(rows) /\ Len(body) \in Nat /\ ToSet(body) \subseteq rows
         /\ MessageLimit(req) # NoLimit => Len(body) <= Limit
<1>1. Active
  BY DEF Active
<1>2. source = <<>> /\ slices = <<>> /\ ~Malformed(req)
  BY <1>1 DEF IInv, PhaseOK
<1>3. body \in Seq(rows)
  BY DEF IInv, RowsOK
<1>4. Len(body) \in Nat /\ ToSet(body) \subseteq rows
  BY <1>3, SeqIsFunction
<1>5. All = body
  BY <1>2, <1>3, NothingAdded DEF All
<1> QED
  BY <1>1, <1>2, <1>3, <1>4, <1>5 DEF IInv, RowsOK

\* The rows a query may have seen.
LEMMA MayBeSeen ==
  ASSUME NEW T \in SUBSET rows, asked \subseteq T
  PROVE  T \in Seen
<1>1. T = asked \cup (T \ asked) /\ T \ asked \in SUBSET (rows \ asked)
  OBVIOUS
<1> QED
  BY <1>1 DEF Seen

\* The ends of the range a client means.
MeantFrom(r) == [ts |-> r.fromTs, seq |-> IF r.fromSeq \in {Absent, NaN} THEN MinSeq ELSE r.fromSeq]
MeantTo(r) == [ts |-> IF r.type = "from" THEN MaxTs ELSE r.toTs,
               seq |-> IF r.type = "from" \/ r.toSeq \in {Absent, NaN} THEN MaxSeq ELSE r.toSeq]

\* What the query selects is what the client means: it has its start, its end unless the
\* sequence number of the end is 0, and its publisher and chain.
LEMMA MeantIsSelected ==
  ASSUME NEW r \in Requests, ~Malformed(r), r.type # "last", Proper(QueryOf(r)),
         NEW R \in SUBSET Rows, NEW m \in R
  PROVE  /\ m \in Meant(R, r) => Selected(QueryOf(r), m)
         /\ r.toSeq # 0 => (Selected(QueryOf(r), m) => m \in Meant(R, r))
<1> DEFINE q == QueryOf(r)
           from == MeantFrom(r)
           to == MeantTo(r)
           chain == IF r.type = "from" THEN None ELSE r.chain
<1>1. /\ r.type \in {"from", "range"} /\ r.fromTs \in Int /\ (r.type = "range" => r.toTs \in Int) /\ IsQuery(q)
  BY QueryIs
<1>2. m \in Meant(R, r) <=> m.part = Part /\ InRange(m, from, to) /\ Matches(m, r.publisher, chain)
  BY DEF Meant, Of, MeantFrom, MeantTo
<1>3. q.publisher = r.publisher /\ q.chain = chain
  BY <1>1 DEF QueryOf, requestFrom, requestRange
<1>4. /\ q.from.ts = from.ts /\ q.from.seq = from.seq /\ q.to.ts = to.ts
      /\ q.to.seq = IF r.type = "from" \/ r.toSeq \in {Absent, NaN, 0} THEN MaxSeq ELSE r.toSeq
  BY <1>1 DEF QueryOf, requestFrom, requestRange, MeantFrom, MeantTo, OrDefault, MinSeq
<1>5. /\ to.seq = q.to.seq \/ (r.toSeq = 0 /\ q.to.seq = MaxSeq)
  BY <1>4 DEF MeantTo
<1>6. /\ m.ts \in Int /\ m.ts < MaxTs /\ MaxTs \in Int /\ m.seq \in Int /\ m.seq <= MaxSeq /\ MaxSeq \in Int
      /\ IsMessage(m)
  BY RowIsMessage, MaxSeqAssumption
<1>7. q.from.ts \in Int /\ q.to.ts \in Int /\ q.from.seq \in Int /\ q.to.seq \in Int
  BY <1>1 DEF IsQuery, IsRef
<1>8. TemporalCondition(m, q.from, q.to) <=> InRange(m, q.from, q.to)
  <2>1. CASE q.from.ts <= q.to.ts
    BY <2>1, <1>1, <1>6, ConditionIsExact DEF IsQuery
  <2>2. CASE ~(q.from.ts <= q.to.ts)
    <3>1. q.to.ts = MaxTs /\ q.from.ts > m.ts
      BY <2>2, <1>6, <1>7 DEF Proper
    <3>2. ~InRange(m, q.from, q.to)
      BY <3>1, <1>6, <1>7 DEF InRange, LexLeq
    <3>3. ~TemporalCondition(m, q.from, q.to)
      BY <3>1, <2>2, <1>6, <1>7 DEF TemporalCondition
    <3> QED
      BY <3>2, <3>3
  <2> QED
    BY <2>1, <2>2
<1> HIDE DEF q, from, to, chain
<1>9. InRange(m, from, to) => InRange(m, q.from, q.to)
  BY <1>4, <1>5, <1>6, <1>7 DEF InRange, LexLeq
<1>10. to.seq = q.to.seq => (InRange(m, q.from, q.to) => InRange(m, from, to))
  BY <1>4 DEF InRange, LexLeq
<1>11. (m \in Meant(R, r) => Selected(q, m)) /\ (to.seq = q.to.seq => (Selected(q, m) => m \in Meant(R, r)))
  BY <1>2, <1>3, <1>8, <1>9, <1>10 DEF Selected
<1> QED
  BY <1>5, <1>11 DEF q

\* A complete response to a range has every message of the range, each once, in order within
\* a bucket, whatever was stored while the slices were read (CassandraDBAdapter.queryRange,
\* SQLiteDBAdapter.queryRange and the transforms of the response).
THEOREM RangeTheorem == Spec => []RangeIsExact
<1>1. IInv => RangeIsExact
  <2> SUFFICES ASSUME IInv, Complete("from") \/ (Complete("range") /\ req.fromTs <= req.toTs)
               PROVE  /\ IsOnce(body)
                      /\ IsOrdered(body) \/ Cardinality(chosen) > 1
                      /\ \E R \in Seen : IF req.toSeq = 0 THEN Meant(R, req) \subseteq ToSet(body)
                                                          ELSE Meant(R, req) = ToSet(body)
    BY DEF RangeIsExact
  <2> DEFINE q == QueryOf(req)
  <2>1. phase = "complete" /\ req.endpoint # "ready" /\ req.type \in {"from", "range"} /\ req.type # "last"
    BY DEF Complete
  <2>2. /\ Active /\ ~Malformed(req) /\ req \in Requests /\ All = body /\ slices = <<>>
        /\ rows \in SUBSET Rows /\ asked \in SUBSET rows
        /\ body \in Seq(rows) /\ Len(body) \in Nat /\ ToSet(body) \subseteq rows
        /\ MessageLimit(req) # NoLimit => Len(body) <= Limit
    BY <2>1, CompleteIs
  <2>3. Proper(q)
    <3>1. req.type = "from" => q.to.ts = MaxTs
      BY DEF QueryOf, requestFrom
    <3>2. req.type = "range" => q.from.ts = req.fromTs /\ q.to.ts = req.toTs
      BY DEF QueryOf, requestRange
    <3> QED
      BY <3>1, <3>2 DEF Proper, Complete
  <2>4. RangeOK(q, body, <<>>, chosen, rows, asked)
    <3>1. SlicesOK
      BY <2>1, <2>2 DEF IInv, QueryOK
    <3>2. <<"buckets">> # <<>>
      OBVIOUS
    <3> QED
      BY <3>1, <3>2, <2>2, <2>3 DEF SlicesOK
  <2>5. q.limit = RequestLimit(req)
    BY <2>1, <2>2, QueryIs
  <2>6. ~(q.limit # NoLimit /\ Len(body) >= q.limit)
    BY <2>2, <2>5, Limits
  <2> DEFINE R == asked \cup ToSet(body)
  <2>7. R \in SUBSET rows /\ asked \subseteq R /\ R \in SUBSET Rows
    BY <2>2
  <2>8. R \in Seen
    BY <2>7, MayBeSeen
  <2>9. \A m \in ToSet(body) : Selected(q, m)
    BY <2>4 DEF RangeOK
  <2>10. \A m \in R : Selected(q, m) => m \in ToSet(body)
    BY <2>4, <2>6, NoSlices DEF RangeOK
  <2>11. IsOnce(body) /\ (IsOrdered(body) \/ Cardinality(chosen) > 1)
    BY <2>2, <2>4, DistinctIsOnce DEF RangeOK
  <2>12. Meant(R, req) \subseteq R
    BY DEF Meant, Of
  <2>13. \A m \in R : /\ m \in Meant(R, req) => Selected(q, m)
                      /\ req.toSeq # 0 => (Selected(q, m) => m \in Meant(R, req))
    BY <2>1, <2>2, <2>3, <2>7, MeantIsSelected
  <2> HIDE DEF q
  <2>14. Meant(R, req) \subseteq ToSet(body)
    BY <2>10, <2>12, <2>13
  <2>15. req.toSeq # 0 => ToSet(body) \subseteq Meant(R, req)
    BY <2>9, <2>13
  <2>16. IF req.toSeq = 0 THEN Meant(R, req) \subseteq ToSet(body) ELSE Meant(R, req) = ToSet(body)
    BY <2>14, <2>15
  <2> QED
    BY <2>8, <2>11, <2>16
<1> QED
  BY <1>1, Invariance, PTL

\* A complete response to "last n" has the last n messages, or all, in order, from whichever
\* buckets they are in (CassandraDBAdapter.queryTake and SQLiteDBAdapter.queryTake), whatever
\* was stored between finding the buckets and reading them.
THEOREM TakeTheorem == Spec => []TakeIsExact
<1>1. IInv => TakeIsExact
  <2> DEFINE n == Asked(req)
             c == Count(req)
             most(k) == IF Local THEN k ELSE Min({k, MaxResendLast})
  <2> SUFFICES ASSUME IInv, Complete("last")
               PROVE  /\ IsOnce(body) /\ IsOrdered(body)
                      /\ \E R \in Seen :
                           /\ Len(body) = Min({most(IF n < 0 THEN -n ELSE n), Cardinality(Of(R, Part))})
                           /\ n > 0 => AreLast(body, Of(R, Part))
                           /\ n < 0 /\ Local => AreFirst(body, Of(R, Part))
    BY DEF TakeIsExact, Asked, Local, AreLast, AreFirst
  <2>1. phase = "complete" /\ req.endpoint # "ready" /\ req.type = "last"
    BY DEF Complete
  <2>2. /\ Active /\ ~Malformed(req) /\ req \in Requests /\ All = body /\ slices = <<>>
        /\ rows \in SUBSET Rows /\ asked \in SUBSET rows
        /\ body \in Seq(rows) /\ Len(body) \in Nat /\ ToSet(body) \subseteq rows
        /\ MessageLimit(req) # NoLimit => Len(body) <= Limit
    BY <2>1, CompleteIs
  <2>3. PICK T \in SUBSET rows :
           /\ asked \subseteq T /\ IsTake(body, Most, c, T)
           /\ Local /\ c < 0 => AreFirst(body, Of(T, Part))
    <3>1. LastOK
      BY <2>1, <2>2 DEF IInv, QueryOK
    <3>2. <<"take">> # <<>>
      OBVIOUS
    <3> QED
      BY <3>1, <3>2, <2>2 DEF LastOK
  <2> DEFINE N == Cardinality(Of(T, Part))
  <2>4. T \in Seen /\ N \in Nat
    <3>1. Of(T, Part) \in SUBSET Rows
      BY <2>2 DEF Of
    <3>2. IsFiniteSet(Of(T, Part))
      BY <3>1, EndpointAssumption, FS_Subset
    <3> QED
      BY <2>3, <3>2, MayBeSeen, FS_CardinalityType
  <2>5. IsOrdered(body) /\ Distinct(body) /\ Len(body) = Min({Most, N}) /\ (c > 0 => AreLast(body, Of(T, Part)))
    BY <2>3 DEF IsTake
  <2>6. /\ n \in Int /\ c \in Int /\ TakeCount(req) = -c
        /\ c = IF RequestLimit(req) = NoLimit \/ n <= RequestLimit(req) THEN n ELSE RequestLimit(req)
    BY <2>1, <2>2, CountIs
  <2>7. /\ Limit \in Nat \ {0} /\ RequestLimit(req) \in Nat
        /\ MessageLimit(req) = NoLimit => RequestLimit(req) = NoLimit
        /\ MessageLimit(req) # NoLimit => RequestLimit(req) = Limit + 1
    BY Limits
  <2>8. Most = most(Abs(c))
    BY <2>6, TakeLimitIs DEF Most
  <2> HIDE DEF n, c, N
  <2>9. (c > 0 <=> n > 0) /\ (c < 0 <=> n < 0)
    BY <2>6, <2>7 DEF NoLimit
  <2>10. Min({most(Abs(c)), N}) = Min({most(Abs(n)), N})
    <3>1. CASE c = n
      BY <3>1
    <3>2. CASE c # n
      <4>1. c = Limit + 1 /\ n > c /\ Len(body) <= Limit
        BY <3>2, <2>2, <2>6, <2>7 DEF NoLimit
      <4>2. MaxResendLast \in Nat
        BY BucketAssumption
      <4>3. Abs(c) = c /\ Abs(n) = n
        BY <4>1, <2>6, <2>7 DEF Abs
      <4>4. Min({c, MaxResendLast}) \in Nat /\ Min({n, MaxResendLast}) \in Nat
        BY <4>1, <4>2, <2>6, <2>7, TwoNumbers
      <4>5. /\ Min({c, MaxResendLast}) = IF c <= MaxResendLast THEN c ELSE MaxResendLast
            /\ Min({n, MaxResendLast}) = IF n <= MaxResendLast THEN n ELSE MaxResendLast
        BY <4>2, <2>6, TwoNumbers
      <4> DEFINE k == most(c)
                 l == most(n)
      <4>6. /\ k \in Nat /\ l \in Nat
            /\ k = l \/ (k = Limit + 1 /\ l >= k)
        BY <4>1, <4>2, <4>4, <4>5, <2>6, <2>7
      <4> HIDE DEF most
      <4> HIDE DEF k, l
      <4>7. Min({k, N}) = (IF k <= N THEN k ELSE N) /\ Min({l, N}) = IF l <= N THEN l ELSE N
        BY <4>6, <2>4, TwoNumbers
      <4>8. Len(body) = Min({k, N})
        BY <2>5, <2>8, <4>3 DEF k
      <4>9. Min({k, N}) = Min({l, N})
        BY <4>1, <4>6, <4>7, <4>8, <2>4, <2>7
      <4> QED
        BY <4>3, <4>9 DEF k, l
    <3> QED
      BY <3>1, <3>2
  <2>11. IsOnce(body)
    BY <2>2, <2>5, DistinctIsOnce
  <2>12. /\ Len(body) = Min({most(IF n < 0 THEN -n ELSE n), N})
         /\ n > 0 => AreLast(body, Of(T, Part))
         /\ n < 0 /\ Local => AreFirst(body, Of(T, Part))
    <3> HIDE DEF most
    <3> QED
      BY <2>3, <2>5, <2>8, <2>9, <2>10 DEF Abs
  <2> QED
    BY <2>4, <2>5, <2>11, <2>12 DEF N
<1> QED
  BY <1>1, Invariance, PTL

-----------------------------------------------------------------------------
(* The two adapters, for the same rows, in any buckets created up to their times *)

\* The buckets of the rows are finitely many dates, none after the rows in it.
LEMMA PlacedInBuckets ==
  ASSUME NEW R \in SUBSET Rows, NEW B \in Placements(R)
  PROVE  /\ \A m \in Of(R, Part) : B[m] \in SavedBy(B, R, Part) /\ B[m] \in Nat /\ B[m] <= m.ts
         /\ \A d \in SavedBy(B, R, Part) : \E m \in Of(R, Part) : B[m] = d
         /\ SavedBy(B, R, Part) \subseteq Nat /\ \A d \in SavedBy(B, R, Part) : d <= MaxTs
         /\ IsFiniteSet(SavedBy(B, R, Part))
<1> DEFINE S == Of(R, Part)
           D == SavedBy(B, R, Part)
<1>1. S \subseteq R /\ S \subseteq Rows
  BY DEF Of
<1>2. \A m \in S : B[m] \in BucketDates /\ B[m] <= m.ts
  BY <1>1 DEF Placements
<1>3. \A m \in S : m.ts \in Nat /\ m.ts <= MaxTs /\ MaxTs \in Nat
  BY <1>1, RowIsMessage, EndpointAssumption
<1>4. (\A m \in S : B[m] \in D) /\ (\A d \in D : \E m \in S : B[m] = d)
  BY DEF SavedBy
<1> HIDE DEF S, D
<1>5. \A m \in S : B[m] \in Nat
  BY <1>2, BucketAssumption
<1>6. \A m \in S : B[m] <= MaxTs
  BY <1>2, <1>3, <1>5
<1>7. D \subseteq Nat /\ \A d \in D : d <= MaxTs
  BY <1>4, <1>5, <1>6
<1>8. IsFiniteSet(D)
  <2>1. MaxTs \in Nat
    BY EndpointAssumption
  <2>2. D \subseteq 0 .. MaxTs
    BY <1>7, <2>1
  <2>3. IsFiniteSet(0 .. MaxTs)
    BY <2>1, FS_Interval
  <2> QED
    BY <2>2, <2>3, FS_Subset
<1> QED
  BY <1>2, <1>4, <1>5, <1>7, <1>8 DEF S, D

\* The rows of some buckets are those of one of them and those of the others.
LEMMA RowsOfBuckets ==
  ASSUME NEW R \in SUBSET Rows, NEW B \in Placements(R)
  PROVE  /\ \A U : IsFiniteSet(HeldBy(B, R, Part, U)) /\ Cardinality(HeldBy(B, R, Part, U)) \in Nat
         /\ Cardinality(HeldBy(B, R, Part, {})) = 0
         /\ \A U : \A d \in U : Cardinality(HeldBy(B, R, Part, U)) =
               Cardinality(HeldBy(B, R, Part, U \ {d})) + Cardinality(HeldBy(B, R, Part, {d}))
<1>1. ASSUME NEW U
      PROVE  IsFiniteSet(HeldBy(B, R, Part, U)) /\ Cardinality(HeldBy(B, R, Part, U)) \in Nat
  <2>1. HeldBy(B, R, Part, U) \in SUBSET Rows
    BY DEF HeldBy, Of
  <2>2. IsFiniteSet(HeldBy(B, R, Part, U))
    BY <2>1, EndpointAssumption, FS_Subset
  <2> QED
    BY <2>2, FS_CardinalityType
<1>2. HeldBy(B, R, Part, {}) = {}
  BY DEF HeldBy
<1>3. ASSUME NEW U, NEW d \in U
      PROVE  Cardinality(HeldBy(B, R, Part, U)) =
               Cardinality(HeldBy(B, R, Part, U \ {d})) + Cardinality(HeldBy(B, R, Part, {d}))
  <2> DEFINE X == HeldBy(B, R, Part, U \ {d})
             Y == HeldBy(B, R, Part, {d})
  <2>1. HeldBy(B, R, Part, U) = X \cup Y /\ X \cap Y = {}
    BY DEF HeldBy
  <2>2. IsFiniteSet(X) /\ IsFiniteSet(Y) /\ Cardinality(X) \in Nat /\ Cardinality(Y) \in Nat
    BY <1>1
  <2> HIDE DEF X, Y
  <2>3. Cardinality(X \cup Y) = Cardinality(X) + Cardinality(Y) - Cardinality(X \cap Y)
    BY <2>2, FS_Union
  <2>4. Cardinality(X \cap Y) = 0
    BY <2>1, FS_EmptySet
  <2>5. Cardinality(HeldBy(B, R, Part, U)) = Cardinality(X) + Cardinality(Y)
    BY <2>1, <2>2, <2>3, <2>4
  <2> QED
    BY <2>5 DEF X, Y
<1> QED
  BY <1>1, <1>2, <1>3, FS_EmptySet

\* The sum over the buckets counts every row once.
LEMMA SumCountsRows ==
  ASSUME NEW R \in SUBSET Rows, NEW B \in Placements(R)
  PROVE  cassandraNumberOfMessages(B, R, Part) = Cardinality(Of(R, Part))
<1> DEFINE D == SavedBy(B, R, Part)
           count(s) == Cardinality(HeldBy(B, R, Part, s))
           g == [s \in SUBSET D |-> count(s)]
           iter == CHOOSE f : f = [s \in SUBSET D |->
                      IF s = {} THEN 0
                      ELSE f[s \ {CHOOSE x \in s : TRUE}] + count({CHOOSE x \in s : TRUE})]
<1>1. cassandraNumberOfMessages(B, R, Part) = iter[D]
  BY Zenon DEF cassandraNumberOfMessages, FoldSet, MapThenFoldSet
<1>2. \A s : s # {} => (CHOOSE x \in s : TRUE) \in s
  BY Zenon
<1>3. /\ \A s : IsFiniteSet(HeldBy(B, R, Part, s)) /\ count(s) \in Nat
      /\ count({}) = 0 /\ \A s : \A d \in s : count(s) = count(s \ {d}) + count({d})
  BY RowsOfBuckets
<1> HIDE DEF count
<1>4. g = [s \in SUBSET D |-> IF s = {} THEN 0
                              ELSE g[s \ {CHOOSE x \in s : TRUE}] + count({CHOOSE x \in s : TRUE})]
  <2> SUFFICES ASSUME NEW s \in SUBSET D
               PROVE  count(s) = IF s = {} THEN 0
                                 ELSE g[s \ {CHOOSE x \in s : TRUE}] + count({CHOOSE x \in s : TRUE})
    BY Zenon
  <2>1. CASE s = {}
    BY <2>1, <1>3
  <2>2. CASE s # {}
    <3> DEFINE d == CHOOSE x \in s : TRUE
    <3>1. d \in s
      BY <2>2, <1>2
    <3> HIDE DEF d
    <3>2. g[s \ {d}] = count(s \ {d})
      BY <3>1
    <3>3. count(s) = g[s \ {d}] + count({d})
      BY <3>1, <3>2, <1>3
    <3> QED
      BY <3>3, <2>2 DEF d
  <2> QED
    BY <2>1, <2>2
<1>5. iter = [s \in SUBSET D |-> IF s = {} THEN 0
                                 ELSE iter[s \ {CHOOSE x \in s : TRUE}] + count({CHOOSE x \in s : TRUE})]
  <2> HIDE DEF g
  <2> QED
    BY <1>4, Zenon
<1> HIDE DEF iter, g
<1>6. IsFiniteSet(D)
  BY PlacedInBuckets
<1> DEFINE Sizes == {n \in Nat : \E s \in SUBSET D : Cardinality(s) = n /\ iter[s] # count(s)}
<1>7. ASSUME Sizes # {}
      PROVE  FALSE
  <2>1. PICK n \in Sizes : \A k \in Sizes : n <= k
    BY <1>7, LeastNatural
  <2>2. PICK s \in SUBSET D : Cardinality(s) = n /\ iter[s] # count(s)
    BY <2>1
  <2>3. s # {}
    BY <2>2, <1>3, <1>5
  <2> DEFINE d == CHOOSE x \in s : TRUE
             t == s \ {d}
  <2>4. d \in s
    BY <2>3, <1>2
  <2>5. iter[s] = iter[t] + count({d})
    BY <2>3, <1>5
  <2> HIDE DEF d
  <2>6. IsFiniteSet(s) /\ Cardinality(t) = n - 1 /\ t \in SUBSET D /\ n \in Nat
    BY <1>6, <2>1, <2>2, <2>4, FS_Subset, FS_RemoveElement
  <2>7. n - 1 \in Nat
    <3>1. IsFiniteSet(t)
      BY <2>6, <1>6, FS_Subset
    <3> QED
      BY <3>1, <2>6, FS_CardinalityType
  <2>8. n - 1 \notin Sizes
    BY <2>1, <2>6, <2>7
  <2>9. iter[t] = count(t)
    BY <2>6, <2>7, <2>8
  <2>10. count(s) = count(t) + count({d})
    BY <2>4, <1>3
  <2> QED
    BY <2>2, <2>5, <2>9, <2>10
<1>8. Cardinality(D) \in Nat
  BY <1>6, FS_CardinalityType
<1>9. iter[D] = count(D)
  BY <1>7, <1>8
<1>10. HeldBy(B, R, Part, D) = Of(R, Part)
  BY DEF HeldBy, SavedBy
<1> QED
  BY <1>1, <1>9, <1>10 DEF count

\* Of some natural numbers one is the least.
LEMMA Least ==
  ASSUME NEW S, S \subseteq Nat, S # {}
  PROVE  Min(S) \in S /\ \A y \in S : Min(S) <= y
<1>1. \E x \in S : \A y \in S : x =< y
  BY LeastNatural
<1> QED
  BY <1>1, Zenon DEF Min

\* Where buckets do not overlap, the first row of the earliest one and the last row of the
\* latest one are the first and the last row.
LEMMA SameDates ==
  ASSUME NEW R \in SUBSET Rows, NEW B \in Placements(R), Of(R, Part) # {}, Disjoint(B, R)
  PROVE  sqliteDates(R, Part) = cassandraDates(B, R, Part)
<1> DEFINE S == Of(R, Part)
           times == {m.ts : m \in S}
           D == SavedBy(B, R, Part)
           tsIn(d) == {m.ts : m \in HeldBy(B, R, Part, {d})}
<1>1. S \subseteq Rows /\ (\A m \in S : m.ts \in Nat /\ m.ts <= MaxTs) /\ MaxTs \in Nat
  BY RowIsMessage, EndpointAssumption DEF Of
<1>2. \A d, m : m \in HeldBy(B, R, Part, {d}) <=> m \in S /\ B[m] = d
  BY DEF HeldBy
<1>3. \A m \in S : B[m] \in D
  BY DEF SavedBy
<1>4. \A d \in D : \E m \in S : B[m] = d
  BY DEF SavedBy
<1>0. \A m, o \in S : B[m] < B[o] => m.ts <= o.ts
  BY DEF Disjoint
<1> HIDE DEF S, D
<1>5. times \subseteq Nat /\ times # {} /\ \A t \in times : t <= MaxTs
  BY <1>1 DEF S
<1>6. D \subseteq Nat /\ D # {} /\ \A d \in D : d <= MaxTs
  <2>1. D \subseteq Nat /\ \A d \in D : d <= MaxTs
    BY PlacedInBuckets DEF D
  <2>2. D # {}
    BY <1>3 DEF S
  <2> QED
    BY <2>1, <2>2
<1>7. \A d : tsIn(d) \subseteq times
  BY <1>2
<1>8. Min(times) = Min(tsIn(Min(D)))
  <2>1. Min(times) \in times /\ \A t \in times : Min(times) <= t
    BY <1>5, Least
  <2>2. PICK m \in S : m.ts = Min(times)
    BY <2>1
  <2>3. Min(D) \in D /\ \A d \in D : Min(D) <= d
    BY <1>6, Least
  <2>4. PICK o \in S : B[o] = Min(D) /\ o.ts = Min(times)
    <3>1. PICK o \in S : B[o] = Min(D)
      BY <2>3, <1>4
    <3>2. m.ts <= o.ts /\ m.ts \in Nat /\ o.ts \in Nat
      BY <2>1, <2>2, <1>1
    <3>3. Min(D) <= B[m] /\ B[m] \in Nat /\ Min(D) \in Nat
      BY <2>3, <1>3, <1>6
    <3>4. CASE B[m] = Min(D)
      BY <3>4, <2>2
    <3>5. CASE B[m] # Min(D)
      <4>1. B[o] < B[m]
        BY <3>1, <3>3, <3>5
      <4>2. o.ts <= m.ts
        BY <4>1, <1>0
      <4>3. o.ts = m.ts
        BY <4>2, <3>2
      <4> QED
        BY <4>3, <3>1, <2>2
    <3> QED
      BY <3>4, <3>5
  <2> DEFINE a == Min(D)
             T == tsIn(a)
  <2>5. o.ts \in T
    BY <1>2, <2>4
  <2>6. T \subseteq times /\ T \subseteq Nat /\ T # {}
    BY <1>5, <1>7, <2>5
  <2>7. Min(T) \in T /\ \A t \in T : Min(T) <= t
    <3> HIDE DEF T
    <3> QED
      BY <2>6, Least
  <2> HIDE DEF T, times
  <2>8. Min(T) <= Min(times) /\ Min(times) <= Min(T) /\ Min(T) \in Nat /\ Min(times) \in Nat
    BY <2>1, <2>4, <2>5, <2>6, <2>7, <1>5
  <2>9. Min(T) = Min(times)
    BY <2>8
  <2> QED
    BY <2>9 DEF T
<1>9. Max(times) = Max(tsIn(Max(D)))
  <2>1. Max(times) \in times /\ \A t \in times : t <= Max(times)
    BY <1>1, <1>5, Greatest
  <2>2. PICK m \in S : m.ts = Max(times)
    BY <2>1
  <2>3. Max(D) \in D /\ \A d \in D : d <= Max(D)
    BY <1>1, <1>6, Greatest
  <2>4. PICK o \in S : B[o] = Max(D) /\ o.ts = Max(times)
    <3>1. PICK o \in S : B[o] = Max(D)
      BY <2>3, <1>4
    <3>2. o.ts <= m.ts /\ m.ts \in Nat /\ o.ts \in Nat
      BY <2>1, <2>2, <1>1
    <3>3. B[m] <= Max(D) /\ B[m] \in Nat /\ Max(D) \in Nat
      BY <2>3, <1>3, <1>6
    <3>4. CASE B[m] = Max(D)
      BY <3>4, <2>2
    <3>5. CASE B[m] # Max(D)
      <4>1. B[m] < B[o]
        BY <3>1, <3>3, <3>5
      <4>2. m.ts <= o.ts
        BY <4>1, <1>0
      <4>3. o.ts = m.ts
        BY <4>2, <3>2
      <4> QED
        BY <4>3, <3>1, <2>2
    <3> QED
      BY <3>4, <3>5
  <2> DEFINE a == Max(D)
             T == tsIn(a)
  <2>5. o.ts \in T
    BY <1>2, <2>4
  <2>6. T \subseteq times /\ T \subseteq Nat /\ T # {} /\ \A t \in T : t <= MaxTs
    BY <1>5, <1>7, <2>5
  <2>7. Max(T) \in T /\ \A t \in T : t <= Max(T)
    <3> HIDE DEF T
    <3> QED
      BY <2>6, <1>1, Greatest
  <2> HIDE DEF T, times
  <2>8. Max(T) <= Max(times) /\ Max(times) <= Max(T) /\ Max(T) \in Nat /\ Max(times) \in Nat
    BY <2>1, <2>4, <2>5, <2>6, <2>7, <1>5
  <2>9. Max(T) = Max(times)
    BY <2>8
  <2> QED
    BY <2>9 DEF T
<1>10. sqliteDates(R, Part) = <<Min(times), Max(times)>>
  BY DEF sqliteDates, S
<1>11. cassandraDates(B, R, Part) = <<Min(tsIn(Min(D))), Max(tsIn(Max(D)))>>
  BY DEF cassandraDates, D
<1> HIDE DEF times, tsIn
<1> QED
  BY <1>8, <1>9, <1>10, <1>11

\* The references of all rows of the part, in order.
AllRefs(R) == [i \in 1 .. Cardinality(Of(R, Part)) |-> Ordered(Of(R, Part))[i]]

\* They are as many as the rows, and each row is among them.
LEMMA AllRefsAre ==
  ASSUME NEW R \in SUBSET Rows
  PROVE  /\ Len(AllRefs(R)) \in Nat /\ \A i \in 1 .. Len(AllRefs(R)) : AllRefs(R)[i] \in Of(R, Part)
         /\ \A m \in Of(R, Part) : \E i \in 1 .. Len(AllRefs(R)) : AllRefs(R)[i] = m
<1> DEFINE S == Of(R, Part)
           s == Ordered(S)
           n == Cardinality(S)
<1>1. S \in SUBSET Rows
  BY DEF Of
<1>2. s \in Seq(S) /\ \A m \in S : \E i \in 1 .. Len(s) : s[i] = m
  BY <1>1, OrderedLists DEF Lists
<1>3. Len(s) = n
  BY <1>1, OrderedLists, ListsCounts
<1>4. n \in Nat /\ \A i \in 1 .. n : s[i] \in S
  BY <1>2, <1>3, SeqIsFunction
<1> HIDE DEF s
<1>5. Len(AllRefs(R)) = n /\ \A i \in 1 .. n : AllRefs(R)[i] = s[i]
  BY <1>4 DEF AllRefs, s
<1> HIDE DEF S, n
<1>6. \A m \in S : \E i \in 1 .. n : s[i] = m
  BY <1>2, <1>3
<1>7. /\ Len(AllRefs(R)) \in Nat /\ \A i \in 1 .. Len(AllRefs(R)) : AllRefs(R)[i] \in S
      /\ \A m \in S : \E i \in 1 .. Len(AllRefs(R)) : AllRefs(R)[i] = m
  BY <1>4, <1>5, <1>6
<1> QED
  BY <1>7 DEF S

\* What FlattenSeq gives has the elements of all pieces, also if there is no piece.
LEMMA FlattenHas ==
  ASSUME NEW S, NEW ss, Len(ss) \in Nat, DOMAIN ss = 1 .. Len(ss), \A i \in 1 .. Len(ss) : ss[i] \in Seq(S)
  PROVE  \A x : x \in ToSet(FlattenSeq(ss)) <=> \E i \in 1 .. Len(ss) : x \in ToSet(ss[i])
<1>1. CASE Len(ss) = 0
  <2>1. FlattenSeq(ss) = ss
    BY <1>1, FlattenFew
  <2>2. ToSet(ss) = {}
    BY <1>1 DEF ToSet
  <2>3. 1 .. Len(ss) = {}
    BY <1>1
  <2> QED
    BY <2>1, <2>2, <2>3
<1>2. CASE Len(ss) # 0
  BY <1>2, FlattenIsFlat DEF IsFlat
<1> QED
  BY <1>1, <1>2

\* SQLite finds every row by its reference, and nothing else.
LEMMA SqliteFindsAll ==
  ASSUME NEW R \in SUBSET Rows
  PROVE  ToSet(sqliteByRefs(R, Part, AllRefs(R))) = Of(R, Part)
<1> DEFINE S == Of(R, Part)
           refs == AllRefs(R)
           at(r) == {m \in S : m.ts = r.ts /\ m.seq = r.seq}
           ss == [i \in 1 .. Len(refs) |-> Ordered(at(refs[i]))]
<1>1. /\ Len(refs) \in Nat /\ \A i \in 1 .. Len(refs) : refs[i] \in S
      /\ \A m \in S : \E i \in 1 .. Len(refs) : refs[i] = m
  BY AllRefsAre
<1>2. sqliteByRefs(R, Part, refs) = FlattenSeq(ss)
  BY DEF sqliteByRefs
<1>3. S \subseteq Rows
  BY DEF Of
<1> HIDE DEF S, refs
<1>4. \A r : Ordered(at(r)) \in Seq(S) /\ ToSet(Ordered(at(r))) = at(r)
  <2> SUFFICES ASSUME NEW r PROVE Ordered(at(r)) \in Seq(S) /\ ToSet(Ordered(at(r))) = at(r)
    OBVIOUS
  <2> DEFINE T == at(r)
  <2>1. T \in SUBSET Rows /\ T \subseteq S
    BY <1>3
  <2> HIDE DEF T
  <2>2. Lists(Ordered(T), T)
    BY <2>1, OrderedLists
  <2>3. ToSet(Ordered(T)) = T
    BY <2>2, ListsCounts
  <2>4. Ordered(T) \in Seq(T)
    BY <2>2 DEF Lists
  <2>5. Ordered(T) \in Seq(S)
    BY <2>1, <2>4
  <2> QED
    BY <2>3, <2>5 DEF T
<1>5. Len(ss) = Len(refs) /\ DOMAIN ss = 1 .. Len(refs) /\ \A i \in 1 .. Len(refs) : ss[i] = Ordered(at(refs[i]))
  BY <1>1
<1> HIDE DEF ss
<1>6. \A i \in 1 .. Len(refs) : ss[i] \in Seq(S) /\ ToSet(ss[i]) = at(refs[i])
  BY <1>4, <1>5
<1>7. \A x : x \in ToSet(FlattenSeq(ss)) <=> \E i \in 1 .. Len(ss) : x \in ToSet(ss[i])
  BY <1>1, <1>5, <1>6, FlattenHas
<1>8. \A x : x \in ToSet(FlattenSeq(ss)) <=> x \in S
  <2>1. \A x : x \in ToSet(FlattenSeq(ss)) <=> \E i \in 1 .. Len(refs) : x \in at(refs[i])
    BY <1>5, <1>6, <1>7
  <2>2. \A m \in S : m \in at(m)
    OBVIOUS
  <2> QED
    BY <2>1, <2>2, <1>1
<1> QED
  BY <1>2, <1>8 DEF S, refs

\* The bucket of a row is the one that is looked up for its time, unless a later one was
\* created up to then.
LEMMA BucketAt ==
  ASSUME NEW R \in SUBSET Rows, NEW B \in Placements(R), NEW r \in Of(R, Part)
  PROVE  B[r] \in getBucketsByTimestamp(SavedBy(B, R, Part), r.ts, r.ts) <=> ~Hidden(B, R, r)
<1> DEFINE D == SavedBy(B, R, Part)
           earlier == {d \in D : d <= r.ts}
           b == B[r]
           e == Max(earlier)
<1>1. b \in D /\ b \in Nat /\ b <= r.ts /\ D \subseteq Nat /\ \A d \in D : d <= MaxTs
  BY PlacedInBuckets
<1>2. r.ts \in Nat /\ MaxTs \in Nat
  BY RowIsMessage, EndpointAssumption DEF Of
<1>3. Hidden(B, R, r) <=> \E d \in D : b < d /\ d <= r.ts
  BY DEF Hidden
<1>4. getBucketsByTimestamp(D, r.ts, r.ts) =
        {d \in D : r.ts < d /\ d <= r.ts} \cup (IF earlier = {} THEN {} ELSE {Max(earlier)})
  BY DEF getBucketsByTimestamp
<1> HIDE DEF D, b
<1>5. {d \in D : r.ts < d /\ d <= r.ts} = {}
  <2>1. \A d \in D : d \in Nat
    BY <1>1
  <2> QED
    BY <1>2, <2>1
<1>6. b \in earlier /\ earlier # {} /\ earlier \subseteq Nat /\ \A d \in earlier : d <= MaxTs
  BY <1>1
<1>7. Hidden(B, R, r) <=> \E d \in earlier : b < d
  BY <1>3
<1> HIDE DEF earlier
<1>8. e \in earlier /\ \A d \in earlier : d <= e
  BY <1>2, <1>6, Greatest
<1>9. getBucketsByTimestamp(D, r.ts, r.ts) = {e}
  BY <1>4, <1>5, <1>6
<1> HIDE DEF e
<1>10. b = e <=> ~\E d \in earlier : b < d
  <2>1. b \in Nat /\ e \in Nat /\ b <= e
    BY <1>1, <1>6, <1>8
  <2>2. CASE b = e
    <3>1. \A d \in earlier : ~(b < d)
      BY <2>1, <2>2, <1>6, <1>8
    <3> QED
      BY <2>2, <3>1
  <2>3. CASE b # e
    <3>1. b < e
      BY <2>1, <2>3
    <3> QED
      BY <2>3, <3>1, <1>8
  <2> QED
    BY <2>2, <2>3
<1>11. b \in getBucketsByTimestamp(D, r.ts, r.ts) <=> ~Hidden(B, R, r)
  BY <1>7, <1>9, <1>10
<1> QED
  BY <1>11 DEF b, D

\* Cassandra finds a row for a reference if and only if one of those that have it is not
\* hidden by a later bucket, and nothing else.
LEMMA CassandraFinds ==
  ASSUME NEW R \in SUBSET Rows, NEW B \in Placements(R)
  PROVE  LET found == ToSet(cassandraByRefs(B, R, Part, AllRefs(R))) IN
         /\ found \subseteq Of(R, Part)
         /\ \A m \in Of(R, Part) : (\E o \in found : SameRef(o, m))
                                    <=> \E o \in Of(R, Part) : SameRef(o, m) /\ ~Hidden(B, R, o)
<1> DEFINE S == Of(R, Part)
           refs == AllRefs(R)
           at(r) == {m \in HeldBy(B, R, Part, getBucketsByTimestamp(SavedBy(B, R, Part), r.ts, r.ts)) :
                        m.ts = r.ts /\ m.seq = r.seq}
           one(r) == IF at(r) = {} THEN <<>> ELSE <<CHOOSE m \in at(r) : TRUE>>
           ss == [i \in 1 .. Len(refs) |-> one(refs[i])]
<1>1. /\ Len(refs) \in Nat /\ \A i \in 1 .. Len(refs) : refs[i] \in S
      /\ \A m \in S : \E i \in 1 .. Len(refs) : refs[i] = m
  BY AllRefsAre
<1>2. cassandraByRefs(B, R, Part, refs) = FlattenSeq(ss)
  BY Zenon DEF cassandraByRefs
<1>3. \A r : \A m : m \in at(r) <=> m \in S /\ SameRef(m, r) /\ ~Hidden(B, R, m)
  <2> SUFFICES ASSUME NEW r, NEW m
               PROVE  m \in at(r) <=> m \in S /\ SameRef(m, r) /\ ~Hidden(B, R, m)
    OBVIOUS
  <2>1. m \in at(r) <=> /\ m \in S /\ SameRef(m, r)
                        /\ B[m] \in getBucketsByTimestamp(SavedBy(B, R, Part), r.ts, r.ts)
    BY DEF HeldBy, SameRef
  <2>2. SameRef(m, r) => m.ts = r.ts
    BY DEF SameRef
  <2>3. m \in S => (B[m] \in getBucketsByTimestamp(SavedBy(B, R, Part), m.ts, m.ts) <=> ~Hidden(B, R, m))
    BY BucketAt
  <2> HIDE DEF S, at
  <2> QED
    BY <2>1, <2>2, <2>3
<1> HIDE DEF S, refs, at
<1>4. \A r : at(r) # {} => \E m \in at(r) : one(r) = <<m>>
  <2> SUFFICES ASSUME NEW r, at(r) # {} PROVE \E m \in at(r) : one(r) = <<m>>
    OBVIOUS
  <2>1. (CHOOSE m \in at(r) : TRUE) \in at(r)
    BY Zenon
  <2> QED
    BY <2>1
<1>5. \A r : at(r) = {} => one(r) = <<>>
  OBVIOUS
<1>7. Len(ss) = Len(refs) /\ DOMAIN ss = 1 .. Len(refs) /\ \A i \in 1 .. Len(refs) : ss[i] = one(refs[i])
  BY <1>1
<1> HIDE DEF ss, one
<1>8. (\A m \in S : <<m>> \in Seq(S) /\ ToSet(<<m>>) = {m}) /\ <<>> \in Seq(S) /\ ToSet(<<>>) = {}
  BY DEF ToSet
<1>9. \A i \in 1 .. Len(refs) : /\ ss[i] \in Seq(S) /\ ToSet(ss[i]) \subseteq at(refs[i])
                                /\ at(refs[i]) # {} => ToSet(ss[i]) # {}
  <2> SUFFICES ASSUME NEW i \in 1 .. Len(refs)
               PROVE  /\ ss[i] \in Seq(S) /\ ToSet(ss[i]) \subseteq at(refs[i])
                      /\ at(refs[i]) # {} => ToSet(ss[i]) # {}
    OBVIOUS
  <2>1. CASE at(refs[i]) = {}
    <3>1. ss[i] = <<>>
      BY <2>1, <1>5, <1>7
    <3> QED
      BY <3>1, <2>1, <1>8
  <2>2. CASE at(refs[i]) # {}
    <3>1. PICK m \in at(refs[i]) : one(refs[i]) = <<m>>
      BY <2>2, <1>4
    <3>2. ss[i] = <<m>> /\ m \in S
      BY <3>1, <1>3, <1>7
    <3> QED
      BY <3>1, <3>2, <1>8
  <2> QED
    BY <2>1, <2>2
<1>10. \A x : x \in ToSet(FlattenSeq(ss)) <=> \E i \in 1 .. Len(ss) : x \in ToSet(ss[i])
  BY <1>1, <1>7, <1>9, FlattenHas
<1> DEFINE found == ToSet(FlattenSeq(ss))
<1>11. \A x \in found : x \in S /\ ~Hidden(B, R, x)
  BY <1>3, <1>7, <1>9, <1>10
<1>12. \A m \in S : (\E o \in found : SameRef(o, m)) <=> \E o \in S : SameRef(o, m) /\ ~Hidden(B, R, o)
  <2> SUFFICES ASSUME NEW m \in S
               PROVE  (\E o \in found : SameRef(o, m)) <=> \E o \in S : SameRef(o, m) /\ ~Hidden(B, R, o)
    OBVIOUS
  <2>1. ASSUME NEW o \in found, SameRef(o, m)
        PROVE  \E p \in S : SameRef(p, m) /\ ~Hidden(B, R, p)
    <3> HIDE DEF found
    <3> QED
      BY <2>1, <1>11
  <2>2. ASSUME NEW o \in S, SameRef(o, m), ~Hidden(B, R, o)
        PROVE  \E p \in found : SameRef(p, m)
    <3>1. PICK i \in 1 .. Len(refs) : refs[i] = m
      BY <1>1
    <3>2. at(refs[i]) # {}
      BY <3>1, <2>2, <1>3
    <3>3. PICK p \in ToSet(ss[i]) : p \in at(refs[i])
      BY <3>2, <1>9
    <3>4. p \in found
      BY <3>3, <1>7, <1>10
    <3>5. SameRef(p, m)
      BY <3>1, <3>3, <1>3
    <3> QED
      BY <3>4, <3>5
  <2> QED
    BY <2>1, <2>2
<1>13. found \subseteq S
  BY <1>11
<1> QED
  BY <1>2, <1>12, <1>13 DEF S, refs

\* For the same rows, in whichever buckets created up to their times they are, Cassandra
\* answers a list of references as SQLite does, except precisely for those that a later
\* bucket hides; the number of messages is the same, and so are the first and the last date
\* where buckets do not overlap (queryByMessageRefs, getFirst- and
\* getLastMessageDateInStream, getNumberOfMessagesInStream).
THEOREM AgreementTheorem == Spec => []AdaptersAgree
<1>1. IInv => AdaptersAgree
  <2> SUFFICES ASSUME IInv PROVE AdaptersAgree
    OBVIOUS
  <2> DEFINE S == Of(rows, Part)
             found(B) == ToSet(cassandraByRefs(B, rows, Part, AllRefs(rows)))
  <2>1. rows \in SUBSET Rows
    BY DEF IInv, RowsOK
  <2>2. ToSet(sqliteByRefs(rows, Part, AllRefs(rows))) = S
    BY <2>1, SqliteFindsAll
  <2>3. \A B \in Placements(rows) :
          /\ found(B) \subseteq S
          /\ \A m \in S : (\E o \in found(B) : SameRef(o, m))
                           <=> \E o \in S : SameRef(o, m) /\ ~Hidden(B, rows, o)
    BY <2>1, CassandraFinds
  <2>4. \A B \in Placements(rows) :
          S # {} /\ Disjoint(B, rows) => sqliteDates(rows, Part) = cassandraDates(B, rows, Part)
    BY <2>1, SameDates
  <2>5. \A B \in Placements(rows) :
          S = rows /\ S # {} =>
             sqliteNumberOfMessages(rows, Part) = cassandraNumberOfMessages(B, rows, Part)
    BY <2>1, SumCountsRows DEF sqliteNumberOfMessages
  <2>6. AllRefs(rows) = [i \in 1 .. Cardinality(S) |-> Ordered(S)[i]]
    BY DEF AllRefs
  <2> QED
    BY <2>2, <2>3, <2>4, <2>5, <2>6, Zenon DEF AdaptersAgree
<1> QED
  BY <1>1, Invariance, PTL

=============================================================================
