------------------------- MODULE BucketManagerProofs -------------------------
(***************************************************************************)
(* Proofs about BucketManager: the heap and the index of buckets agree, a  *)
(* bucket marked stored is in the table, and no message is in a bucket     *)
(* that queries would not look into, for any limits and any number of      *)
(* messages, timestamps, buckets and expiries.                             *)
(***************************************************************************)
EXTENDS BucketManager, FiniteSetTheorems, WellFoundedInduction, TLAPS

\* The creation time of a bucket, and 0 for the free place of an array.
Date(bs, id) == IF id = NoBucket THEN 0 ELSE bs[id].dateCreate

\* No bucket is younger than the one above it.
Ordered(h, bs) == \A k \in 2 .. Len(h) : Date(bs, h[k]) <= Date(bs, h[k \div 2])

\* h is a heap of exactly the buckets S.
IsHeap(h, bs, S) ==
    /\ h \in Seq(S)
    /\ \A id \in S : \E k \in 1 .. Len(h) : h[k] = id
    /\ \A k, l \in 1 .. Len(h) : h[k] = h[l] => k = l
    /\ Ordered(h, bs)

\* What a bucket is known by: every copy of its creation time, in memory, in the table, in
\* an answer and in a call under way, is the one it was created with; and a message is in
\* a bucket that was created no later.
DatesOK ==
    /\ \A id \in DOMAIN buckets : buckets[id].dateCreate = created[id]
    /\ \A date \in Timestamps : rows[date] # NoRow =>
          rows[date].id \in DOMAIN created /\ created[rows[date].id] = date
    /\ check.found # NoRow =>
          check.found.id \in DOMAIN created /\ created[check.found.id] = check.date
    /\ check.step \in {"asking", "answered"} => check.min # Undefined
    /\ \A m \in Bucketed :
          /\ messages[m].bucket \in DOMAIN created
          /\ created[messages[m].bucket] <= messages[m].timestamp

\* A bucket that is being written stays in memory, unstored; it has what the call has or,
\* with more records, what was added since; and what the call has written is in the table.
SavingOK ==
    /\ saver # "running" => saving = {}
    /\ \A call, other \in saving : call.id = other.id => call = other
    /\ \A call \in saving :
          /\ call.id \in DOMAIN buckets /\ ~buckets[call.id].stored
          /\ call.dateCreate = created[call.id]
          /\ call.records <= buckets[call.id].records
          /\ call.records = buckets[call.id].records => call.size = buckets[call.id].size
          /\ call.outcome = "fulfilled" /\ NoTwin(call.id) =>
                rows[call.dateCreate] =
                    [id |-> call.id, size |-> call.size, records |-> call.records]

\* The bucket of a message is in memory or in the table.
Kept ==
    \A m \in Bucketed :
        LET id == messages[m].bucket
        IN  NoTwin(id) => id \in DOMAIN buckets \/ rows[created[id]].id = id

IInv ==
    /\ TypeOK /\ IsHeap(heap, buckets, DOMAIN buckets)
    /\ DatesOK /\ SavingOK /\ StoredMeansSaved /\ Kept

-----------------------------------------------------------------------------
(* Least numbers, and what the recursive functions compute *)

\* A nonempty set of natural numbers has a least element.
LEMMA LeastNatural ==
  ASSUME NEW S, S \subseteq Nat, S # {}
  PROVE  \E x \in S : \A y \in S : x <= y
<1>1. PICK x \in S : \A y \in S : ~(<<y, x>> \in OpToRel(<, Nat))
  BY NatLessThanWellFounded, WFMin
<1>2. \A y, z \in Nat : y < z => <<y, z>> \in OpToRel(<, Nat)
  BY DEF OpToRel
<1>3. \A y \in S : ~(y < x)
  BY <1>1, <1>2
<1> QED
  BY <1>3

\* One step of siftUp, with f for the function that is being defined.
Up(f, h, bs, id, k) ==
    IF k > 1 /\ isYounger(bs[id], bs[h[k \div 2]])
    THEN [f[k \div 2] EXCEPT ![k] = h[k \div 2]]
    ELSE [Append(h, NoBucket) EXCEPT ![k] = id]

\* The place above another one.
LEMMA Above ==
  ASSUME NEW k \in Nat, k > 1
  PROVE  k \div 2 \in Nat /\ 1 <= k \div 2 /\ k \div 2 < k
OBVIOUS

\* siftUp satisfies its defining equation: the recursion ends, as it goes up.
LEMMA SiftUpDef ==
  ASSUME NEW h, NEW bs, NEW id, Len(h) \in Nat
  PROVE  siftUp(h, bs, id) =
            [k \in 1 .. Len(h) + 1 |-> Up(siftUp(h, bs, id), h, bs, id, k)]
<1> DEFINE Solution(f, m) == f = [k \in 1 .. m |-> Up(f, h, bs, id, k)]
<1> DEFINE Unsolved == {m \in Nat : \A f : ~Solution(f, m)}
<1>1. Unsolved = {}
  <2> SUFFICES ASSUME Unsolved # {} PROVE FALSE
    OBVIOUS
  <2>1. PICK m \in Unsolved : \A n \in Unsolved : m <= n
    BY LeastNatural
  <2>2. m # 0
    <3>1. Solution([k \in 1 .. 0 |-> 0], 0)
      OBVIOUS
    <3> QED
      BY <3>1, <2>1
  <2>3. m \in Nat /\ m - 1 \in Nat /\ m - 1 \notin Unsolved
    BY <2>1, <2>2
  <2>4. PICK g : Solution(g, m - 1)
    BY <2>3
  <2> DEFINE f == [k \in 1 .. m |-> IF k < m THEN g[k] ELSE Up(g, h, bs, id, m)]
  <2>5. ASSUME NEW k \in 1 .. m
        PROVE  f[k] = Up(f, h, bs, id, k)
    <3>1. k > 1 => f[k \div 2] = g[k \div 2]
      BY Above, <2>3
    <3>2. Up(f, h, bs, id, k) = Up(g, h, bs, id, k)
      <4> HIDE DEF f
      <4> QED
        BY <3>1 DEF Up
    <3>3. k < m => g[k] = Up(g, h, bs, id, k)
      <4>1. k < m => k \in 1 .. m - 1
        BY <2>3
      <4> HIDE DEF f
      <4> QED
        BY <4>1, <2>4
    <3>4. f[k] = IF k < m THEN g[k] ELSE Up(g, h, bs, id, m)
      OBVIOUS
    <3>5. ~(k < m) => k = m
      BY <2>3
    <3> HIDE DEF f
    <3> QED
      BY <3>2, <3>3, <3>4, <3>5
  <2>6. f = [k \in 1 .. m |-> f[k]]
    OBVIOUS
  <2>7. Solution(f, m)
    <3> HIDE DEF f
    <3> QED
      BY <2>5, <2>6
  <2> QED
    BY <2>7, <2>1
<1>2. Len(h) + 1 \notin Unsolved
  BY <1>1
<1>3. PICK f : f = [k \in 1 .. Len(h) + 1 |-> Up(f, h, bs, id, k)]
  BY <1>2
<1> QED
  BY <1>3, Zenon DEF siftUp, Up

-----------------------------------------------------------------------------
(* Heaps *)

\* The array with its free place, a.
IsArray(a, bs, n) ==
    /\ \A k, l \in 1 .. n : a[k] = a[l] => k = l
    /\ \A k \in 2 .. n : Date(bs, a[k]) <= Date(bs, a[k \div 2])

\* What becomes of an array a, of length n, if place k is free for bucket id: below k it is
\* as it was, nothing at k is younger than what was there, it is in order, and it has what
\* was in the other places, and id, each once.
IsSifted(b, a, bs, id, n, k) ==
    /\ DOMAIN b = 1 .. n
    /\ b = [i \in 1 .. n |-> b[i]]
    /\ \A i \in 1 .. n : i > k => b[i] = a[i]
    /\ Date(bs, a[k]) <= Date(bs, b[k])
    /\ IsArray(b, bs, n)
    /\ \A i \in 1 .. n : b[i] = id \/ \E j \in 1 .. n : j # k /\ b[i] = a[j]
    /\ \E i \in 1 .. n : b[i] = id
    /\ \A j \in 1 .. n : j # k => \E i \in 1 .. n : b[i] = a[j]

\* The bucket comes to rest at place k.
LEMMA SiftRests ==
  ASSUME NEW n \in Nat, NEW a, DOMAIN a = 1 .. n, a = [i \in 1 .. n |-> a[i]],
         NEW bs, NEW id, NEW k \in 1 .. n,
         IsArray(a, bs, n), \A i \in 1 .. n : Date(bs, a[i]) \in Nat /\ a[i] # id,
         Date(bs, id) \in Nat,
         Date(bs, a[k]) <= Date(bs, id),
         k = 1 \/ Date(bs, id) <= Date(bs, a[k \div 2])
  PROVE  IsSifted([a EXCEPT ![k] = id], a, bs, id, n, k)
<1> DEFINE b == [a EXCEPT ![k] = id]
<1>1. /\ DOMAIN b = 1 .. n /\ b = [i \in 1 .. n |-> b[i]]
      /\ b[k] = id /\ \A i \in 1 .. n : i # k => b[i] = a[i]
  OBVIOUS
<1> HIDE DEF b
<1>2. \A i \in 1 .. n : i > k => b[i] = a[i]
  BY <1>1
<1>3. \A i, j \in 1 .. n : b[i] = b[j] => i = j
  BY <1>1 DEF IsArray
<1>4. ASSUME NEW i \in 2 .. n
      PROVE  Date(bs, b[i]) <= Date(bs, b[i \div 2])
  <2>1. i \in 1 .. n /\ i \div 2 \in 1 .. n /\ i # i \div 2
    BY Above
  <2>2. Date(bs, a[i]) <= Date(bs, a[i \div 2])
    BY DEF IsArray
  <2>3. CASE i = k
    BY <2>1, <2>3, <1>1
  <2>4. CASE i # k /\ i \div 2 = k
    BY <2>1, <2>2, <2>4, <1>1
  <2>5. CASE i # k /\ i \div 2 # k
    BY <2>1, <2>2, <2>5, <1>1
  <2> QED
    BY <2>3, <2>4, <2>5
<1>5. \A i \in 1 .. n : b[i] = id \/ \E j \in 1 .. n : j # k /\ b[i] = a[j]
  BY <1>1
<1>6. \A j \in 1 .. n : j # k => \E i \in 1 .. n : b[i] = a[j]
  BY <1>1
<1>7. IsSifted(b, a, bs, id, n, k)
  BY <1>1, <1>2, <1>3, <1>4, <1>5, <1>6 DEF IsSifted, IsArray
<1> QED
  BY <1>7 DEF b

\* What is at place p, above k, has moved down to k.
LEMMA SiftMoves ==
  ASSUME NEW n \in Nat, NEW a, NEW bs, NEW id, NEW k \in 2 .. n, NEW p, p = k \div 2, NEW c,
         IsArray(a, bs, n), \A i \in 1 .. n : Date(bs, a[i]) \in Nat /\ a[i] # id,
         Date(bs, id) \in Nat,
         IsSifted(c, a, bs, id, n, p)
  PROVE  IsSifted([c EXCEPT ![k] = a[p]], a, bs, id, n, k)
<1> DEFINE b == [c EXCEPT ![k] = a[p]]
<1>1. k \in 1 .. n /\ p \in 1 .. n /\ p < k
  BY Above
<1>2. /\ DOMAIN b = 1 .. n /\ b = [i \in 1 .. n |-> b[i]]
      /\ b[k] = a[p] /\ \A i \in 1 .. n : i # k => b[i] = c[i]
  BY <1>1 DEF IsSifted
<1> HIDE DEF b
<1>3. c[k] = a[k]
  BY <1>1 DEF IsSifted
<1>4. Date(bs, a[k]) <= Date(bs, a[p])
  BY <1>1 DEF IsArray
<1>5. ASSUME NEW i \in 1 .. n, c[i] = a[p]
      PROVE  FALSE
  <2>1. PICK j \in 1 .. n : j # p /\ c[i] = a[j]
    BY <1>1, <1>5 DEF IsSifted
  <2> QED
    BY <2>1, <1>1, <1>5 DEF IsArray
<1>6. ASSUME NEW i \in 1 .. n, NEW j \in 1 .. n, b[i] = b[j]
      PROVE  i = j
  <2>1. c[i] = c[j] => i = j
    BY DEF IsSifted, IsArray
  <2> QED
    BY <1>1, <1>2, <1>5, <1>6, <2>1
<1>7. \A i \in 1 .. n : Date(bs, c[i]) \in Nat
  BY DEF IsSifted
<1>8. ASSUME NEW i \in 2 .. n
      PROVE  Date(bs, b[i]) <= Date(bs, b[i \div 2])
  <2>1. i \in 1 .. n /\ i \div 2 \in 1 .. n /\ i \div 2 < i
    BY Above
  <2>2. Date(bs, c[i]) <= Date(bs, c[i \div 2]) /\ Date(bs, a[i]) <= Date(bs, a[i \div 2])
    BY DEF IsSifted, IsArray
  <2>3. CASE i = k
    <3>1. b[i \div 2] = c[p] /\ b[i] = a[p]
      BY <1>1, <1>2, <2>3
    <3> QED
      BY <3>1 DEF IsSifted
  <2>4. CASE i # k /\ i \div 2 = k
    <3>1. b[i] = a[i] /\ b[i \div 2] = a[p]
      BY <1>1, <1>2, <2>1, <2>4 DEF IsSifted
    <3>2. Date(bs, a[i]) <= Date(bs, a[k])
      BY <2>2, <2>4
    <3> QED
      BY <3>1, <3>2, <1>1, <1>4
  <2>5. CASE i # k /\ i \div 2 # k
    BY <2>1, <2>2, <2>5, <1>2
  <2> QED
    BY <2>3, <2>4, <2>5
<1>9. \A i \in 1 .. n : i > k => b[i] = a[i]
  BY <1>1, <1>2 DEF IsSifted
<1>10. ASSUME NEW i \in 1 .. n
       PROVE  b[i] = id \/ \E j \in 1 .. n : j # k /\ b[i] = a[j]
  <2>1. CASE i = k
    BY <1>1, <1>2, <2>1
  <2>2. CASE i # k
    <3>1. b[i] = c[i] /\ c[i] # c[k]
      BY <1>1, <1>2, <2>2 DEF IsSifted, IsArray
    <3>2. c[i] = id \/ \E j \in 1 .. n : c[i] = a[j]
      BY DEF IsSifted
    <3> QED
      BY <3>1, <3>2, <1>3
  <2> QED
    BY <2>1, <2>2
<1>11. \E i \in 1 .. n : b[i] = id
  <2>1. PICK i \in 1 .. n : c[i] = id
    BY DEF IsSifted
  <2>2. i # k
    BY <2>1, <1>1, <1>3
  <2> QED
    BY <2>1, <2>2, <1>2
<1>12. ASSUME NEW j \in 1 .. n, j # k
       PROVE  \E i \in 1 .. n : b[i] = a[j]
  <2>1. CASE j = p
    BY <2>1, <1>1, <1>2
  <2>2. CASE j # p
    <3>1. PICK i \in 1 .. n : c[i] = a[j]
      BY <2>2 DEF IsSifted
    <3>2. i # k
      BY <3>1, <1>1, <1>3, <1>12 DEF IsArray
    <3> QED
      BY <3>1, <3>2, <1>2
  <2> QED
    BY <2>1, <2>2
<1>13. IsSifted(b, a, bs, id, n, k)
  BY <1>2, <1>4, <1>6, <1>8, <1>9, <1>10, <1>11, <1>12 DEF IsSifted, IsArray
<1> QED
  BY <1>13 DEF b

\* A sequence is a function.
LEMMA SeqIsFunction ==
  ASSUME NEW T, NEW s \in Seq(T)
  PROVE  s \in [1 .. Len(s) -> T]
OBVIOUS

\* Buckets S, known by numbers other than NoBucket, with their creation times in bs.
AreDated(bs, S) == \A id \in S : id # NoBucket /\ bs[id].dateCreate \in Nat

\* The bucket, coming in at the free place, rises to where it belongs.
LEMMA SiftUpSifts ==
  ASSUME NEW S, NEW bs, AreDated(bs, S), NEW h, IsHeap(h, bs, S),
         NEW id, id \notin S, AreDated(bs, {id}),
         NEW n, n = Len(h) + 1, NEW a, a = Append(h, NoBucket)
  PROVE  /\ n \in Nat /\ n >= 1
         /\ a[n] = NoBucket /\ \A i \in 1 .. n - 1 : a[i] = h[i]
         /\ IsSifted(siftUp(h, bs, id)[n], a, bs, id, n, n)
<1> DEFINE f == siftUp(h, bs, id)
<1>1. h \in Seq(S) /\ Len(h) \in Nat /\ n \in Nat /\ n >= 1 /\ n - 1 = Len(h)
  BY DEF IsHeap
<1>2. /\ DOMAIN a = 1 .. n /\ a = [i \in 1 .. n |-> a[i]]
      /\ a[n] = NoBucket /\ \A i \in 1 .. n - 1 : a[i] = h[i]
  <2>1. h \in Seq(S \cup {NoBucket})
    BY <1>1
  <2>2. a \in Seq(S \cup {NoBucket}) /\ Len(a) = n
    BY <2>1, <1>1
  <2>3. DOMAIN a = 1 .. n /\ a = [i \in 1 .. n |-> a[i]]
    <3> DEFINE T == S \cup {NoBucket}
    <3>1. a \in Seq(T)
      BY <2>2
    <3> HIDE DEF T
    <3>2. a \in [1 .. Len(a) -> T]
      BY <3>1, SeqIsFunction
    <3> QED
      BY <3>2, <2>2
  <2>4. a[n] = NoBucket
    BY <2>1, <1>1
  <2>5. \A i \in 1 .. n - 1 : a[i] = h[i]
    BY <2>1, <1>1
  <2> QED
    BY <2>3, <2>4, <2>5
<1>3. f = [k \in 1 .. n |-> Up(f, h, bs, id, k)]
  BY <1>1, SiftUpDef
<1> HIDE DEF f
<1>4. \A i \in 1 .. n - 1 : h[i] \in S /\ h[i] # id /\ h[i] # NoBucket
  BY <1>1 DEF AreDated
<1>5. id # NoBucket /\ Date(bs, id) = bs[id].dateCreate /\ Date(bs, id) \in Nat
  BY DEF AreDated, Date
<1>6. \A i \in 1 .. n - 1 : Date(bs, h[i]) = bs[h[i]].dateCreate /\ Date(bs, h[i]) \in Nat
  BY <1>4 DEF AreDated, Date
<1>7. Date(bs, a[n]) = 0
  BY <1>2 DEF Date
<1>8. \A i \in 1 .. n : Date(bs, a[i]) \in Nat /\ a[i] # id
  <2>1. \A i \in 1 .. n : i = n \/ i \in 1 .. n - 1
    BY <1>1
  <2> QED
    BY <2>1, <1>2, <1>4, <1>5, <1>6, <1>7
<1>9. IsArray(a, bs, n)
  <2>1. ASSUME NEW k \in 1 .. n, NEW l \in 1 .. n, a[k] = a[l]
        PROVE  k = l
    <3>1. (k = n \/ k \in 1 .. n - 1) /\ (l = n \/ l \in 1 .. n - 1)
      BY <1>1
    <3>2. k \in 1 .. n - 1 /\ l \in 1 .. n - 1 => h[k] = h[l]
      BY <1>2, <2>1
    <3>3. k \in 1 .. n - 1 /\ l \in 1 .. n - 1 => k = l
      BY <3>2, <1>1 DEF IsHeap
    <3> QED
      BY <3>1, <3>3, <2>1, <1>2, <1>4
  <2>2. ASSUME NEW k \in 2 .. n
        PROVE  Date(bs, a[k]) <= Date(bs, a[k \div 2])
    <3>1. k \div 2 \in 1 .. n - 1 /\ (k = n \/ k \in 2 .. n - 1)
      BY <1>1, Above
    <3>2. CASE k = n
      BY <3>1, <3>2, <1>2, <1>6, <1>7
    <3>3. CASE k \in 2 .. n - 1
      <4>1. Date(bs, h[k]) <= Date(bs, h[k \div 2])
        BY <3>3, <1>1 DEF IsHeap, Ordered
      <4>2. a[k] = h[k] /\ a[k \div 2] = h[k \div 2]
        BY <3>1, <3>3, <1>1, <1>2
      <4> QED
        BY <4>1, <4>2
    <3> QED
      BY <3>1, <3>2, <3>3
  <2> QED
    BY <2>1, <2>2 DEF IsArray
<1> DEFINE Wrong == {k \in 1 .. n : /\ Date(bs, a[k]) <= Date(bs, id)
                                    /\ ~IsSifted(f[k], a, bs, id, n, k)}
<1>10. Wrong = {}
  <2> SUFFICES ASSUME Wrong # {} PROVE FALSE
    OBVIOUS
  <2>1. Wrong \subseteq Nat
    BY <1>1
  <2>2. PICK k \in Wrong : \A l \in Wrong : k <= l
    BY <2>1, LeastNatural
  <2>3. k \in 1 .. n /\ Date(bs, a[k]) <= Date(bs, id) /\ ~IsSifted(f[k], a, bs, id, n, k)
    BY <2>2
  <2>4. f[k] = Up(f, h, bs, id, k)
    BY <1>3, <2>3
  <2>5. CASE k > 1 /\ isYounger(bs[id], bs[h[k \div 2]])
    <3>1. k \in 2 .. n /\ k \div 2 \in 1 .. n /\ k \div 2 \in 1 .. n - 1 /\ k \div 2 < k
      BY <1>1, <2>3, <2>5, Above
    <3>2. a[k \div 2] = h[k \div 2]
      BY <3>1, <1>2
    <3>3. Date(bs, a[k \div 2]) <= Date(bs, id)
      <4>1. bs[id].dateCreate > bs[h[k \div 2]].dateCreate
        BY <2>5 DEF isYounger
      <4> QED
        BY <4>1, <3>1, <3>2, <1>5, <1>6
    <3>4. k \div 2 \notin Wrong
      BY <2>2, <2>3, <3>1
    <3>5. IsSifted(f[k \div 2], a, bs, id, n, k \div 2)
      BY <3>1, <3>3, <3>4
    <3>6. IsSifted([f[k \div 2] EXCEPT ![k] = a[k \div 2]], a, bs, id, n, k)
      BY <3>1, <3>5, <1>1, <1>5, <1>8, <1>9, SiftMoves
    <3>7. f[k] = [f[k \div 2] EXCEPT ![k] = h[k \div 2]]
      BY <2>4, <2>5 DEF Up
    <3> QED
      BY <3>2, <3>6, <3>7, <2>3
  <2>6. CASE ~(k > 1 /\ isYounger(bs[id], bs[h[k \div 2]]))
    <3>1. f[k] = [a EXCEPT ![k] = id]
      BY <2>4, <2>6 DEF Up
    <3>2. k = 1 \/ Date(bs, id) <= Date(bs, a[k \div 2])
      <4> SUFFICES ASSUME k # 1 PROVE Date(bs, id) <= Date(bs, a[k \div 2])
        OBVIOUS
      <4>1. k > 1 /\ k \div 2 \in 1 .. n - 1
        BY <1>1, <2>3, Above
      <4>2. ~(bs[id].dateCreate > bs[h[k \div 2]].dateCreate)
        BY <4>1, <2>6 DEF isYounger
      <4> QED
        BY <4>1, <4>2, <1>2, <1>5, <1>6
    <3>3. IsSifted([a EXCEPT ![k] = id], a, bs, id, n, k)
      BY <3>2, <2>3, <1>1, <1>2, <1>5, <1>8, <1>9, SiftRests
    <3> QED
      BY <3>1, <3>3, <2>3
  <2> QED
    BY <2>5, <2>6
<1>11. IsSifted(f[n], a, bs, id, n, n)
  <2>1. n \in 1 .. n /\ Date(bs, a[n]) <= Date(bs, id)
    BY <1>1, <1>5, <1>7
  <2> QED
    BY <2>1, <1>10
<1> QED
  BY <1>1, <1>2, <1>11 DEF f

\* A bucket that is pushed is added to the heap, and nothing else changes in it.
LEMMA HeapPushIsHeap ==
  ASSUME NEW S, NEW bs, AreDated(bs, S), NEW h, IsHeap(h, bs, S),
         NEW id, id \notin S, AreDated(bs, {id})
  PROVE  IsHeap(HeapPush(h, bs, id), bs, S \cup {id})
<1> DEFINE n == Len(h) + 1
           a == Append(h, NoBucket)
           b == siftUp(h, bs, id)[n]
<1>1. /\ n \in Nat /\ n >= 1
      /\ a[n] = NoBucket /\ \A i \in 1 .. n - 1 : a[i] = h[i]
      /\ IsSifted(b, a, bs, id, n, n)
  BY SiftUpSifts
<1>2. HeapPush(h, bs, id) = b
  BY DEF HeapPush
<1>3. h \in Seq(S) /\ Len(h) = n - 1 /\ Len(h) \in Nat
  BY DEF IsHeap
<1> HIDE DEF n, a, b
<1>4. \A j \in 1 .. n : j # n => j \in 1 .. n - 1 /\ a[j] = h[j] /\ h[j] \in S
  BY <1>1, <1>3
<1>5. \A i \in 1 .. n : b[i] \in S \cup {id}
  BY <1>1, <1>4 DEF IsSifted
<1>6. b \in [1 .. n -> S \cup {id}]
  BY <1>1, <1>5 DEF IsSifted
<1>7. b \in Seq(S \cup {id}) /\ Len(b) = n
  BY <1>1, <1>6
<1>8. ASSUME NEW x \in S \cup {id}
      PROVE  \E k \in 1 .. n : b[k] = x
  <2>1. CASE x = id
    BY <2>1, <1>1 DEF IsSifted
  <2>2. CASE x \in S
    <3>1. PICK j \in 1 .. n - 1 : h[j] = x
      BY <2>2, <1>3 DEF IsHeap
    <3>2. j \in 1 .. n /\ j # n /\ a[j] = x
      BY <3>1, <1>1
    <3> QED
      BY <3>2, <1>1 DEF IsSifted
  <2> QED
    BY <2>1, <2>2
<1>9. /\ \A k, l \in 1 .. n : b[k] = b[l] => k = l
      /\ \A k \in 2 .. n : Date(bs, b[k]) <= Date(bs, b[k \div 2])
  BY <1>1 DEF IsSifted, IsArray
<1> QED
  BY <1>2, <1>7, <1>8, <1>9 DEF IsHeap, Ordered

\* The first bucket of a heap is a youngest one.
LEMMA YoungestFirst ==
  ASSUME NEW S, NEW bs, AreDated(bs, S), NEW h, IsHeap(h, bs, S), NEW id \in S
  PROVE  Len(h) \in Nat /\ Len(h) >= 1 /\ h[1] \in S /\ bs[id].dateCreate <= bs[h[1]].dateCreate
<1>1. h \in Seq(S) /\ Len(h) \in Nat /\ \A k \in 1 .. Len(h) : h[k] \in S
  BY DEF IsHeap
<1>2. \A k \in 1 .. Len(h) : Date(bs, h[k]) = bs[h[k]].dateCreate /\ Date(bs, h[k]) \in Nat
  BY <1>1 DEF AreDated, Date
<1>3. PICK n \in 1 .. Len(h) : h[n] = id
  BY DEF IsHeap
<1>4. 1 \in 1 .. Len(h)
  BY <1>1, <1>3
<1> DEFINE Wrong == {k \in 1 .. Len(h) : ~(Date(bs, h[k]) <= Date(bs, h[1]))}
<1>5. Wrong = {}
  <2> SUFFICES ASSUME Wrong # {} PROVE FALSE
    OBVIOUS
  <2>1. Wrong \subseteq Nat
    BY <1>1
  <2>2. PICK k \in Wrong : \A l \in Wrong : k <= l
    BY <2>1, LeastNatural
  <2>3. k \in 1 .. Len(h) /\ ~(Date(bs, h[k]) <= Date(bs, h[1]))
    BY <2>2
  <2>4. k # 1
    BY <2>3, <1>2, <1>4
  <2>5. k \in 2 .. Len(h) /\ k \div 2 \in 1 .. Len(h) /\ k \div 2 < k
    BY <1>1, <2>3, <2>4, Above
  <2>6. k \div 2 \notin Wrong
    BY <2>2, <2>3, <2>5
  <2>7. Date(bs, h[k]) <= Date(bs, h[k \div 2])
    BY <2>5 DEF IsHeap, Ordered
  <2> QED
    BY <2>3, <2>5, <2>6, <2>7, <1>2, <1>4
<1> QED
  BY <1>1, <1>2, <1>3, <1>4, <1>5

-----------------------------------------------------------------------------
(* Heaps from which buckets are removed *)

\* One step of rebuild, with f for the function that is being defined.
Rebuilt(f, h, bs, id, n) ==
    IF n = 0 THEN <<>>
    ELSE IF h[n] = id THEN f[n - 1] ELSE HeapPush(f[n - 1], bs, h[n])

\* rebuild satisfies its defining equation: the recursion ends at 0.
LEMMA RebuildDef ==
  ASSUME NEW h, NEW bs, NEW id, Len(h) \in Nat
  PROVE  rebuild(h, bs, id) =
            [n \in 0 .. Len(h) |-> Rebuilt(rebuild(h, bs, id), h, bs, id, n)]
<1> DEFINE Solution(f, m) == f = [k \in 0 .. m |-> Rebuilt(f, h, bs, id, k)]
<1> DEFINE Unsolved == {m \in Nat : \A f : ~Solution(f, m)}
<1>1. Unsolved = {}
  <2> SUFFICES ASSUME Unsolved # {} PROVE FALSE
    OBVIOUS
  <2>1. PICK m \in Unsolved : \A n \in Unsolved : m <= n
    BY LeastNatural
  <2>2. m # 0
    <3>1. Solution([k \in 0 .. 0 |-> <<>>], 0)
      BY DEF Rebuilt
    <3> QED
      BY <3>1, <2>1
  <2>3. m \in Nat /\ m - 1 \in Nat /\ m - 1 \notin Unsolved
    BY <2>1, <2>2
  <2>4. PICK g : Solution(g, m - 1)
    BY <2>3
  <2> DEFINE f == [k \in 0 .. m |-> IF k < m THEN g[k] ELSE Rebuilt(g, h, bs, id, m)]
  <2>5. ASSUME NEW k \in 0 .. m
        PROVE  f[k] = Rebuilt(f, h, bs, id, k)
    <3>1. k # 0 => f[k - 1] = g[k - 1]
      BY <2>3
    <3>2. Rebuilt(f, h, bs, id, k) = Rebuilt(g, h, bs, id, k)
      <4> HIDE DEF f
      <4> QED
        BY <3>1 DEF Rebuilt
    <3>3. k < m => g[k] = Rebuilt(g, h, bs, id, k)
      <4>1. k < m => k \in 0 .. m - 1
        BY <2>3
      <4> HIDE DEF f
      <4> QED
        BY <4>1, <2>4
    <3>4. f[k] = IF k < m THEN g[k] ELSE Rebuilt(g, h, bs, id, m)
      OBVIOUS
    <3>5. ~(k < m) => k = m
      BY <2>3
    <3> HIDE DEF f
    <3> QED
      BY <3>2, <3>3, <3>4, <3>5
  <2>6. f = [k \in 0 .. m |-> f[k]]
    OBVIOUS
  <2>7. Solution(f, m)
    <3> HIDE DEF f
    <3> QED
      BY <2>5, <2>6
  <2> QED
    BY <2>7, <2>1
<1>2. Len(h) \notin Unsolved
  BY <1>1
<1>3. PICK f : f = [k \in 0 .. Len(h) |-> Rebuilt(f, h, bs, id, k)]
  BY <1>2
<1> QED
  BY <1>3, Zenon DEF rebuild, Rebuilt

\* The heap of no buckets.
LEMMA EmptyHeap ==
  ASSUME NEW bs
  PROVE  IsHeap(<<>>, bs, {})
BY DEF IsHeap, Ordered

\* Removing a bucket takes it, and nothing else, from the heap.
LEMMA RemoveBucketIsHeap ==
  ASSUME NEW S, NEW bs, AreDated(bs, S), NEW h, IsHeap(h, bs, S), NEW id
  PROVE  IsHeap(removeBucket(h, bs, id), bs, S \ {id})
<1> DEFINE f == rebuild(h, bs, id)
           First(n) == {x \in S : x # id /\ \E k \in 1 .. n : h[k] = x}
           Good(n) == IsHeap(f[n], bs, First(n))
           Wrong == {n \in 0 .. Len(h) : ~Good(n)}
<1>1. h \in Seq(S) /\ Len(h) \in Nat /\ \A k \in 1 .. Len(h) : h[k] \in S
  BY DEF IsHeap
<1>2. f = [n \in 0 .. Len(h) |-> Rebuilt(f, h, bs, id, n)]
  BY <1>1, RebuildDef
<1> HIDE DEF f
<1>3. Wrong = {}
  <2> SUFFICES ASSUME Wrong # {} PROVE FALSE
    OBVIOUS
  <2>1. Wrong \subseteq Nat
    BY <1>1
  <2>2. PICK n \in Wrong : \A l \in Wrong : n <= l
    <3> HIDE DEF Wrong
    <3> QED
      BY <2>1, LeastNatural
  <2>3. n \in 0 .. Len(h) /\ ~IsHeap(f[n], bs, First(n))
    BY <2>2
  <2>4. f[n] = Rebuilt(f, h, bs, id, n)
    BY <1>2, <2>3
  <2>5. n # 0
    <3> SUFFICES ASSUME n = 0 PROVE FALSE
      OBVIOUS
    <3>1. f[n] = <<>>
      BY <2>4 DEF Rebuilt
    <3>2. First(n) = {}
      OBVIOUS
    <3> HIDE DEF First
    <3> QED
      BY <3>1, <3>2, <2>3, EmptyHeap
  <2>6. n \in 1 .. Len(h) /\ n - 1 \in 0 .. Len(h) /\ n - 1 < n
    BY <1>1, <2>3, <2>5
  <2>7. IsHeap(f[n - 1], bs, First(n - 1))
    <3>1. n - 1 \notin Wrong
      <4> HIDE DEF Wrong
      <4> QED
        BY <2>2, <2>3, <2>6
    <3> HIDE DEF Good
    <3>2. Good(n - 1)
      BY <3>1, <2>6
    <3> QED
      BY <3>2 DEF Good
  <2>8. CASE h[n] = id
    <3>1. f[n] = f[n - 1]
      BY <2>4, <2>5, <2>8 DEF Rebuilt
    <3>2. First(n) = First(n - 1)
      <4>1. \A k \in 1 .. n : k = n \/ k \in 1 .. n - 1
        BY <2>6
      <4>2. \A k \in 1 .. n - 1 : k \in 1 .. n
        BY <2>6
      <4> QED
        BY <4>1, <4>2, <2>8
    <3> HIDE DEF First
    <3> QED
      BY <3>1, <3>2, <2>3, <2>7
  <2>9. CASE h[n] # id
    <3>1. f[n] = HeapPush(f[n - 1], bs, h[n])
      BY <2>4, <2>5, <2>9 DEF Rebuilt
    <3>2. First(n) = First(n - 1) \cup {h[n]}
      <4>1. \A k \in 1 .. n : k = n \/ k \in 1 .. n - 1
        BY <2>6
      <4>2. \A k \in 1 .. n - 1 : k \in 1 .. n
        BY <2>6
      <4>3. h[n] \in S /\ n \in 1 .. n
        BY <1>1, <2>6
      <4> QED
        BY <4>1, <4>2, <4>3, <2>9
    <3>3. h[n] \notin First(n - 1)
      <4>1. \A k \in 1 .. n - 1 : k \in 1 .. Len(h) /\ k # n
        BY <1>1, <2>6
      <4>2. \A k \in 1 .. n - 1 : h[k] # h[n]
        BY <4>1, <2>6 DEF IsHeap
      <4> QED
        BY <4>2
    <3>4. AreDated(bs, First(n - 1)) /\ AreDated(bs, {h[n]})
      BY <1>1, <2>6 DEF AreDated
    <3> HIDE DEF First
    <3>5. IsHeap(HeapPush(f[n - 1], bs, h[n]), bs, First(n - 1) \cup {h[n]})
      BY <3>3, <3>4, <2>7, HeapPushIsHeap
    <3> QED
      BY <3>1, <3>2, <3>5, <2>3
  <2> QED
    BY <2>8, <2>9
<1>4. IsHeap(f[Len(h)], bs, First(Len(h)))
  <2> HIDE DEF Good
  <2>1. Good(Len(h))
    BY <1>1, <1>3
  <2> QED
    BY <2>1 DEF Good
<1>5. First(Len(h)) = S \ {id}
  BY DEF IsHeap
<1> HIDE DEF First
<1> QED
  BY <1>4, <1>5 DEF f, removeBucket

\* One step of removeBuckets, with f for the function that is being defined.
Removed(f, h, bs, order, n) ==
    IF n = 0 THEN h ELSE removeBucket(f[n - 1], bs, order[n])

\* removeBuckets satisfies its defining equation: the recursion ends at 0.
LEMMA RemoveBucketsDef ==
  ASSUME NEW h, NEW bs, NEW order, Len(order) \in Nat
  PROVE  removeBuckets(h, bs, order) =
            [n \in 0 .. Len(order) |-> Removed(removeBuckets(h, bs, order), h, bs, order, n)]
<1> DEFINE Solution(f, m) == f = [k \in 0 .. m |-> Removed(f, h, bs, order, k)]
<1> DEFINE Unsolved == {m \in Nat : \A f : ~Solution(f, m)}
<1>1. Unsolved = {}
  <2> SUFFICES ASSUME Unsolved # {} PROVE FALSE
    OBVIOUS
  <2>1. PICK m \in Unsolved : \A n \in Unsolved : m <= n
    BY LeastNatural
  <2>2. m # 0
    <3>1. Solution([k \in 0 .. 0 |-> h], 0)
      BY DEF Removed
    <3> QED
      BY <3>1, <2>1
  <2>3. m \in Nat /\ m - 1 \in Nat /\ m - 1 \notin Unsolved
    BY <2>1, <2>2
  <2>4. PICK g : Solution(g, m - 1)
    BY <2>3
  <2> DEFINE f == [k \in 0 .. m |-> IF k < m THEN g[k] ELSE Removed(g, h, bs, order, m)]
  <2>5. ASSUME NEW k \in 0 .. m
        PROVE  f[k] = Removed(f, h, bs, order, k)
    <3>1. k # 0 => f[k - 1] = g[k - 1]
      BY <2>3
    <3>2. Removed(f, h, bs, order, k) = Removed(g, h, bs, order, k)
      <4> HIDE DEF f
      <4> QED
        BY <3>1 DEF Removed
    <3>3. k < m => g[k] = Removed(g, h, bs, order, k)
      <4>1. k < m => k \in 0 .. m - 1
        BY <2>3
      <4> HIDE DEF f
      <4> QED
        BY <4>1, <2>4
    <3>4. f[k] = IF k < m THEN g[k] ELSE Removed(g, h, bs, order, m)
      OBVIOUS
    <3>5. ~(k < m) => k = m
      BY <2>3
    <3> HIDE DEF f
    <3> QED
      BY <3>2, <3>3, <3>4, <3>5
  <2>6. f = [k \in 0 .. m |-> f[k]]
    OBVIOUS
  <2>7. Solution(f, m)
    <3> HIDE DEF f
    <3> QED
      BY <2>5, <2>6
  <2> QED
    BY <2>7, <2>1
<1>2. Len(order) \notin Unsolved
  BY <1>1
<1>3. PICK f : f = [k \in 0 .. Len(order) |-> Removed(f, h, bs, order, k)]
  BY <1>2
<1> QED
  BY <1>3, Zenon DEF removeBuckets, Removed

\* The buckets that an order lists are taken, and nothing else, from the heap.
LEMMA RemoveBucketsIsHeap ==
  ASSUME NEW S, NEW bs, AreDated(bs, S), NEW h, IsHeap(h, bs, S),
         NEW order, Len(order) \in Nat,
         NEW gone, gone = {order[k] : k \in 1 .. Len(order)}
  PROVE  IsHeap(removeBuckets(h, bs, order)[Len(order)], bs, S \ gone)
<1> DEFINE f == removeBuckets(h, bs, order)
           Left(n) == S \ {order[k] : k \in 1 .. n}
           Good(n) == IsHeap(f[n], bs, Left(n))
           Wrong == {n \in 0 .. Len(order) : ~Good(n)}
<1>1. f = [n \in 0 .. Len(order) |-> Removed(f, h, bs, order, n)]
  BY RemoveBucketsDef
<1> HIDE DEF f
<1>2. Wrong = {}
  <2> SUFFICES ASSUME Wrong # {} PROVE FALSE
    OBVIOUS
  <2>1. Wrong \subseteq Nat
    OBVIOUS
  <2>2. PICK n \in Wrong : \A l \in Wrong : n <= l
    <3> HIDE DEF Wrong
    <3> QED
      BY <2>1, LeastNatural
  <2>3. n \in 0 .. Len(order) /\ ~IsHeap(f[n], bs, Left(n))
    BY <2>2
  <2>4. f[n] = Removed(f, h, bs, order, n)
    BY <1>1, <2>3
  <2>5. n # 0
    <3> SUFFICES ASSUME n = 0 PROVE FALSE
      OBVIOUS
    <3>1. f[n] = h
      BY <2>4 DEF Removed
    <3>2. Left(n) = S
      OBVIOUS
    <3> HIDE DEF Left
    <3> QED
      BY <3>1, <3>2, <2>3
  <2>6. n \in 1 .. Len(order) /\ n - 1 \in 0 .. Len(order) /\ n - 1 < n
    BY <2>3, <2>5
  <2>7. IsHeap(f[n - 1], bs, Left(n - 1))
    <3>1. n - 1 \notin Wrong
      <4> HIDE DEF Wrong
      <4> QED
        BY <2>2, <2>3, <2>6
    <3> HIDE DEF Good
    <3>2. Good(n - 1)
      BY <3>1, <2>6
    <3> QED
      BY <3>2 DEF Good
  <2>8. f[n] = removeBucket(f[n - 1], bs, order[n])
    BY <2>4, <2>5 DEF Removed
  <2>9. Left(n) = Left(n - 1) \ {order[n]}
    <3>1. \A k \in 1 .. n : k = n \/ k \in 1 .. n - 1
      BY <2>6
    <3>2. n \in 1 .. n /\ \A k \in 1 .. n - 1 : k \in 1 .. n
      BY <2>6
    <3> QED
      BY <3>1, <3>2
  <2>10. AreDated(bs, Left(n - 1))
    BY DEF AreDated
  <2> HIDE DEF Left
  <2>11. IsHeap(removeBucket(f[n - 1], bs, order[n]), bs, Left(n - 1) \ {order[n]})
    BY <2>7, <2>10, RemoveBucketIsHeap
  <2> QED
    BY <2>3, <2>8, <2>9, <2>11
<1>3. IsHeap(f[Len(order)], bs, Left(Len(order)))
  <2> HIDE DEF Good
  <2>1. Good(Len(order))
    BY <1>2
  <2> QED
    BY <2>1 DEF Good
<1> HIDE DEF Left
<1> QED
  BY <1>3 DEF f, Left

\* An order of the buckets of a set lists them all.
LEMMA OrderLists ==
  ASSUME NEW S, IsFiniteSet(S), NEW order \in SetToSeqs(S)
  PROVE  Len(order) \in Nat /\ {order[k] : k \in 1 .. Len(order)} = S
<1> DEFINE n == Cardinality(S)
<1>1. n \in Nat
  BY FS_CardinalityType
<1>2. order \in [1 .. n -> S] /\ \A i, j \in 1 .. n : i # j => order[i] # order[j]
  BY DEF SetToSeqs
<1>3. IsFiniteSet(1 .. n) /\ Cardinality(1 .. n) = n
  BY <1>1, FS_Interval
<1>4. order \in Injection(1 .. n, S)
  BY <1>2 DEF Injection, IsInjective
<1>5. order \in Surjection(1 .. n, S)
  BY <1>3, <1>4, FS_Injection
<1>6. \A x \in S : \E k \in 1 .. n : order[k] = x
  BY <1>5 DEF Surjection
<1>7. Len(order) = n
  BY <1>1, <1>2
<1> HIDE DEF n
<1> QED
  BY <1>1, <1>2, <1>6, <1>7

-----------------------------------------------------------------------------
(* Latest dates, and the bucket a message is put into *)

\* A nonempty set of timestamps has a latest one.
LEMMA LatestDate ==
  ASSUME NEW S, S \subseteq Timestamps, S # {}
  PROVE  Max(S) \in S /\ \A y \in S : y <= Max(S)
<1> DEFINE U == {n \in Nat : \A y \in S : y <= n}
<1>1. MaxTimestamp \in Nat /\ \A y \in S : y \in Nat /\ 1 <= y /\ y <= MaxTimestamp
  BY BucketAssumption DEF Timestamps
<1>2. MaxTimestamp \in U
  BY <1>1
<1>3. PICK u \in U : \A v \in U : u <= v
  BY <1>2, LeastNatural
<1>4. ASSUME u \notin S
      PROVE  FALSE
  <2>1. u \in Nat /\ \A y \in S : y \in Nat /\ 1 <= y /\ y <= u /\ y # u
    BY <1>1, <1>3, <1>4
  <2>2. u - 1 \in U
    BY <2>1
  <2> QED
    BY <2>1, <2>2, <1>3
<1>5. \E x \in S : \A y \in S : x >= y
  BY <1>1, <1>3, <1>4
<1>6. Max(S) \in S /\ \A y \in S : Max(S) >= y
  BY <1>5, Zenon DEF Max
<1> QED
  BY <1>6, <1>1

\* The first place of an array is one of its places.
LEMMA FirstPlace ==
  ASSUME NEW S, S \subseteq Nat, S # {}
  PROVE  Min(S) \in S /\ \A y \in S : Min(S) <= y
<1>1. \E x \in S : \A y \in S : x =< y
  BY LeastNatural
<1> QED
  BY <1>1, Zenon DEF Min

\* The bucket found for a message is one of the heap, created no later than the message.
LEMMA FoundIsOlder ==
  ASSUME NEW S, NEW bs, NEW h \in Seq(S), NEW timestamp
  PROVE  LET id == findBucketId(h, bs, timestamp)
         IN  id = NoBucket \/ (id \in S /\ bs[id].dateCreate <= timestamp)
<1> DEFINE id == findBucketId(h, bs, timestamp)
           OldEnough(x) == bs[x].dateCreate <= timestamp
           past == SelectInSeq(Tail(h), OldEnough)
<1>1. CASE h = <<>>
  <2>1. id = NoBucket
    BY <1>1, Zenon DEF findBucketId
  <2> QED
    BY <2>1
<1>2. CASE h # <<>> /\ OldEnough(h[1])
  <2>1. id = IF isAlmostFull(bs[h[1]]) THEN NoBucket ELSE h[1]
    BY <1>2, Zenon DEF findBucketId
  <2>2. h[1] \in S
    BY <1>2
  <2> HIDE DEF id
  <2>3. id = NoBucket \/ (id \in S /\ bs[id].dateCreate <= timestamp)
    BY <2>1, <2>2, <1>2
  <2> QED
    BY <2>3 DEF id
<1>3. CASE h # <<>> /\ ~OldEnough(h[1])
  <2>1. id = IF past = 0 THEN NoBucket ELSE Tail(h)[past]
    BY <1>3, Zenon DEF findBucketId
  <2> DEFINE I == {i \in 1 .. Len(Tail(h)) : OldEnough(Tail(h)[i])}
  <2>2. past = IF I # {} THEN Min(I) ELSE 0
    BY DEF SelectInSeq
  <2>3. I \subseteq Nat
    OBVIOUS
  <2>4. past # 0 => past \in I
    <3> HIDE DEF I, past
    <3> QED
      BY <2>2, <2>3, FirstPlace
  <2>5. Tail(h) \in Seq(S)
    BY <1>3
  <2>6. past # 0 => Tail(h)[past] \in S /\ OldEnough(Tail(h)[past])
    <3> HIDE DEF past
    <3> QED
      BY <2>4, <2>5
  <2> HIDE DEF id, past
  <2>7. id = NoBucket \/ (id \in S /\ bs[id].dateCreate <= timestamp)
    BY <2>1, <2>6
  <2> QED
    BY <2>7 DEF id
<1> QED
  BY <1>1, <1>2, <1>3

\* A heap stays one when its buckets keep their creation times.
LEMMA SameDates ==
  ASSUME NEW S, NEW h, NEW bs, NEW other, IsHeap(h, bs, S),
         \A id \in S : other[id].dateCreate = bs[id].dateCreate
  PROVE  IsHeap(h, other, S)
<1>1. h \in Seq(S) /\ \A k \in 1 .. Len(h) : h[k] \in S
  BY DEF IsHeap
<1>2. ASSUME NEW k \in 1 .. Len(h)
      PROVE  Date(other, h[k]) = Date(bs, h[k])
  BY <1>1 DEF Date
<1>3. ASSUME NEW k \in 2 .. Len(h)
      PROVE  Date(other, h[k]) <= Date(other, h[k \div 2])
  <2>1. k \in 1 .. Len(h) /\ k \div 2 \in 1 .. Len(h)
    BY <1>1, Above
  <2>2. Date(bs, h[k]) <= Date(bs, h[k \div 2])
    BY DEF IsHeap, Ordered
  <2> QED
    BY <2>1, <2>2, <1>2
<1> QED
  BY <1>3 DEF IsHeap, Ordered

-----------------------------------------------------------------------------
(* The invariant, action by action *)

Message == [timestamp : Timestamps, length : Lengths, bucket : Ids \cup {NoBucket, Dropped}]

\* What the types say of the sequences and the buckets.
LEMMA Typed ==
  ASSUME TypeOK
  PROVE  /\ MaxTimestamp \in Nat /\ MaxBuckets \in Nat /\ Lengths \subseteq Nat
         /\ messages \in Seq(Message) /\ Len(messages) \in Nat
         /\ DOMAIN messages = 1 .. Len(messages)
         /\ \A m \in DOMAIN messages : messages[m] \in Message
         /\ created \in Seq(Timestamps) /\ Len(created) \in Nat
         /\ DOMAIN created = 1 .. Len(created) /\ DOMAIN created \subseteq Ids
         /\ \A id \in DOMAIN created : created[id] \in Timestamps
         /\ DOMAIN buckets \subseteq DOMAIN created
         /\ \A id \in DOMAIN buckets : buckets[id] \in Bucket
         /\ AreDated(buckets, DOMAIN buckets)
<1>1. MaxTimestamp \in Nat /\ MaxBuckets \in Nat /\ Lengths \subseteq Nat
  BY BucketAssumption
<1>2. messages \in Seq(Message) /\ Len(messages) \in Nat
  BY DEF TypeOK, Message
<1>3. DOMAIN messages = 1 .. Len(messages) /\ \A m \in DOMAIN messages : messages[m] \in Message
  <2> HIDE DEF Message
  <2> QED
    BY <1>2
<1>4. created \in Seq(Timestamps) /\ Len(created) \in Nat /\ Len(created) <= MaxBuckets
  BY DEF TypeOK
<1>5. DOMAIN created = 1 .. Len(created) /\ \A id \in DOMAIN created : created[id] \in Timestamps
  BY <1>4
<1>6. DOMAIN created \subseteq Ids
  BY <1>1, <1>4, <1>5 DEF Ids
<1>7. DOMAIN buckets \subseteq DOMAIN created /\ \A id \in DOMAIN buckets : buckets[id] \in Bucket
  BY <1>5 DEF TypeOK
<1>8. AreDated(buckets, DOMAIN buckets)
  BY <1>1, <1>4, <1>5, <1>7 DEF AreDated, NoBucket, Bucket, Timestamps
<1> QED
  BY <1>1, <1>2, <1>3, <1>4, <1>5, <1>6, <1>7, <1>8

\* The buckets known by id, without a twin, are the same as long as none is created.
LEMMA SameTwins ==
  ASSUME created' = created, NEW id
  PROVE  NoTwin(id)' = NoTwin(id)
BY DEF NoTwin

\* Initially there is nothing.
LEMMA InitIInv == Init => IInv
<1> SUFFICES ASSUME Init PROVE IInv
  OBVIOUS
<1> USE DEF Init
<1>1. DOMAIN buckets = {} /\ DOMAIN messages = {} /\ DOMAIN created = {} /\ Len(created) = 0
  OBVIOUS
<1>2. rows \in [Timestamps -> Row \cup {NoRow}]
  OBVIOUS
<1>3. check \in [step : {"timer", "asking", "answered", "stopped"}, query : {"last", "before"},
                 min : Timestamps \cup {Undefined}, insertNewBucket : BOOLEAN,
                 found : Row \cup {NoRow}, date : Timestamps \cup {Undefined}]
  BY DEF Idle
<1>4. MaxBuckets \in Nat /\ MaxExpiries \in Nat
  BY BucketAssumption
<1>5. TypeOK
  <2>1. messages \in Seq([timestamp : Timestamps, length : Lengths,
                          bucket : Ids \cup {NoBucket, Dropped}])
    OBVIOUS
  <2>2. heap \in Seq(DOMAIN buckets) /\ created \in Seq(Timestamps) /\ Len(created) <= MaxBuckets
    BY <1>4
  <2>3. expiries \in 0 .. MaxExpiries
    BY <1>4
  <2>4. /\ minTimestamp \in Timestamps \cup {Undefined} /\ saving \subseteq Calls
        /\ saver \in {"timer", "running", "stopped"}
        /\ stopped \in BOOLEAN /\ exited \in BOOLEAN
    OBVIOUS
  <2>5. DOMAIN buckets \subseteq 1 .. Len(created)
    BY <1>1
  <2>6. \A id \in DOMAIN buckets : buckets[id] \in Bucket
    BY <1>1
  <2> QED
    BY <2>1, <2>2, <2>3, <2>4, <2>5, <2>6, <1>2, <1>3, Zenon DEF TypeOK
<1>6. IsHeap(heap, buckets, DOMAIN buckets)
  BY <1>1, EmptyHeap
<1>7. DatesOK
  BY <1>1 DEF DatesOK, Bucketed, Idle
<1>8. SavingOK /\ StoredMeansSaved /\ Kept
  BY <1>1 DEF SavingOK, StoredMeansSaved, Kept, Bucketed
<1> QED
  BY <1>5, <1>6, <1>7, <1>8 DEF IInv

\* The places of a sequence of messages, with m among them or the next one.
LEMMA Places ==
  ASSUME NEW len \in Nat, NEW m \in 1 .. len + 1
  PROVE  /\ Max({m, len}) \in Nat
         /\ \A k \in 1 .. Max({m, len}) : k = m \/ k \in 1 .. len
<1> DEFINE n == Max({m, len})
<1>1. m \in Nat /\ 1 <= m /\ m <= len + 1
  OBVIOUS
<1>2. \E x \in {m, len} : \A y \in {m, len} : x >= y
  BY <1>1
<1>3. n \in {m, len} /\ \A y \in {m, len} : n >= y
  BY <1>2, Zenon DEF Max
<1> HIDE DEF n
<1>4. n \in Nat /\ (n = m \/ n = len)
  BY <1>1, <1>3
<1>5. ASSUME NEW k \in 1 .. n
      PROVE  k = m \/ k \in 1 .. len
  BY <1>1, <1>4
<1> QED
  BY <1>4, <1>5 DEF n

\* Message m, given for the first time or again, is put into an older bucket or waits.
LEMMA StoreMessageStep ==
  ASSUME IInv, NEW m \in 1 .. Len(messages) + 1, NEW message \in Message,
         StoreMessage(m, message),
         UNCHANGED <<heap, rows, check, saving, saver, created, expiries, stopped, exited>>
  PROVE  IInv'
<1> DEFINE id == findBucketId(heap, buckets, message.timestamp)
<1>1. TypeOK /\ IsHeap(heap, buckets, DOMAIN buckets) /\ DatesOK /\ SavingOK
      /\ StoredMeansSaved /\ Kept
  BY DEF IInv
<1>2. id = NoBucket \/ (id \in DOMAIN buckets /\ buckets[id].dateCreate <= message.timestamp)
  BY <1>1, FoundIsOlder DEF TypeOK
<1>3. /\ messages' = [k \in 1 .. Max({m, Len(messages)}) |->
                        IF k = m THEN [message EXCEPT !.bucket = id] ELSE messages[k]]
      /\ \/ /\ id # NoBucket
            /\ buckets' = [buckets EXCEPT ![id] = incrementBucket(@, message.length)]
            /\ UNCHANGED minTimestamp
         \/ /\ id = NoBucket
            /\ noteTimestamp(message.timestamp)
            /\ UNCHANGED buckets
  BY DEF StoreMessage
<1> HIDE DEF id
<1>4. /\ Len(messages) \in Nat /\ DOMAIN messages = 1 .. Len(messages)
      /\ \A k \in DOMAIN messages : messages[k] \in Message
      /\ DOMAIN buckets \subseteq DOMAIN created /\ DOMAIN created \subseteq Ids
      /\ \A x \in DOMAIN buckets : buckets[x] \in Bucket
  BY <1>1, Typed
<1> DEFINE n == Max({m, Len(messages)})
<1>5. n \in Nat /\ \A k \in 1 .. n : k = m \/ k \in 1 .. Len(messages)
  BY <1>4, Places
<1> HIDE DEF n
<1>6. \A k \in 1 .. n : k = m \/ k \in DOMAIN messages
  BY <1>4, <1>5
<1>7. message.timestamp \in Timestamps /\ message.length \in Lengths /\ id \in Ids \cup {NoBucket}
  BY <1>2, <1>4 DEF Message
<1>8. [message EXCEPT !.bucket = id] \in Message
  BY <1>7 DEF Message
<1>9. DOMAIN messages' = 1 .. n
      /\ \A k \in 1 .. n : messages'[k] = IF k = m THEN [message EXCEPT !.bucket = id] ELSE messages[k]
  BY <1>3 DEF n
<1>10. messages' \in Seq(Message)
  <2>1. \A k \in 1 .. n : messages'[k] \in Message
    BY <1>4, <1>6, <1>8, <1>9
  <2>2. messages' = [k \in 1 .. n |-> messages'[k]]
    BY <1>3 DEF n
  <2> HIDE DEF Message
  <2>3. messages' \in [1 .. n -> Message]
    BY <2>1, <2>2
  <2> QED
    BY <2>3, <1>5
<1>11. minTimestamp' \in Timestamps \cup {Undefined}
  <2>1. minTimestamp \in Timestamps \cup {Undefined}
    BY <1>1 DEF TypeOK
  <2>2. CASE noteTimestamp(message.timestamp) /\ minTimestamp # Undefined
    <3>1. minTimestamp' = Min({minTimestamp, message.timestamp})
      BY <2>2 DEF noteTimestamp
    <3>2. {minTimestamp, message.timestamp} \subseteq Nat /\ {minTimestamp, message.timestamp} # {}
      BY <1>7, <2>1, <2>2 DEF Timestamps
    <3>3. Min({minTimestamp, message.timestamp}) \in {minTimestamp, message.timestamp}
      BY <3>2, FirstPlace
    <3> QED
      BY <3>1, <3>3, <1>7, <2>1
  <2>3. CASE noteTimestamp(message.timestamp) /\ minTimestamp = Undefined
    BY <1>7, <2>3 DEF noteTimestamp
  <2> QED
    BY <2>1, <2>2, <2>3, <1>3
<1>12. /\ DOMAIN buckets' = DOMAIN buckets
       /\ \A x \in DOMAIN buckets : x # id => buckets'[x] = buckets[x]
       /\ id \in DOMAIN buckets => buckets'[id] = incrementBucket(buckets[id], message.length)
  <2>1. NoBucket \notin DOMAIN buckets
    BY <1>4 DEF NoBucket, Ids
  <2> QED
    BY <2>1, <1>2, <1>3
<1>13. id \in DOMAIN buckets =>
          /\ buckets'[id].dateCreate = buckets[id].dateCreate
          /\ buckets'[id].records = buckets[id].records + 1
          /\ ~buckets'[id].stored
          /\ buckets'[id] \in Bucket
  <2> SUFFICES ASSUME id \in DOMAIN buckets
               PROVE  /\ buckets'[id].dateCreate = buckets[id].dateCreate
                      /\ buckets'[id].records = buckets[id].records + 1
                      /\ ~buckets'[id].stored
                      /\ buckets'[id] \in Bucket
    OBVIOUS
  <2>1. buckets[id] \in Bucket /\ message.length \in Nat
    BY <1>1, <1>4, <1>7, Typed
  <2>2. buckets'[id] = [buckets[id] EXCEPT !.size = @ + message.length, !.records = @ + 1,
                                          !.stored = FALSE, !.alive = TRUE]
    BY <1>12 DEF incrementBucket
  <2>3. /\ buckets'[id].dateCreate = buckets[id].dateCreate
        /\ buckets'[id].records = buckets[id].records + 1
        /\ buckets'[id].stored = FALSE
    BY <2>1, <2>2 DEF Bucket
  <2>4. buckets'[id] \in Bucket
    <3>1. buckets[id].size + message.length \in Nat /\ buckets[id].records + 1 \in Nat
      BY <2>1 DEF Bucket
    <3> QED
      BY <3>1, <2>1, <2>2 DEF Bucket
  <2> QED
    BY <2>3, <2>4
<1>14. \A x \in DOMAIN buckets : /\ buckets'[x] \in Bucket
                                /\ buckets'[x].dateCreate = buckets[x].dateCreate
  BY <1>4, <1>12, <1>13
<1>15. TypeOK'
  BY <1>1, <1>10, <1>11, <1>12, <1>14 DEF TypeOK, Message
<1>16. IsHeap(heap, buckets, DOMAIN buckets)'
  <2>1. IsHeap(heap, buckets', DOMAIN buckets)
    BY <1>1, <1>14, SameDates
  <2> QED
    BY <2>1, <1>12
<1>17. DatesOK'
  <2>1. ASSUME NEW k \in Bucketed'
        PROVE  messages'[k].bucket \in DOMAIN created
               /\ created[messages'[k].bucket] <= messages'[k].timestamp
    <3>1. k \in 1 .. n /\ messages'[k].bucket \in Ids
      BY <2>1, <1>9 DEF Bucketed
    <3>2. CASE k = m
      <4>1. messages'[k].bucket = id /\ messages'[k].timestamp = message.timestamp
        BY <3>1, <3>2, <1>9 DEF Message
      <4>2. id \in DOMAIN buckets /\ buckets[id].dateCreate <= message.timestamp
        BY <3>1, <4>1, <1>2 DEF NoBucket, Ids
      <4>3. buckets[id].dateCreate = created[id]
        BY <4>2, <1>1 DEF DatesOK
      <4> QED
        BY <4>1, <4>2, <4>3, <1>4
    <3>3. CASE k # m
      <4>1. messages'[k] = messages[k] /\ k \in DOMAIN messages
        BY <3>1, <3>3, <1>6, <1>9
      <4>2. k \in Bucketed
        BY <3>1, <4>1 DEF Bucketed
      <4> QED
        BY <4>1, <4>2, <1>1 DEF DatesOK
    <3> QED
      BY <3>2, <3>3
  <2>2. \A x \in DOMAIN buckets' : buckets'[x].dateCreate = created[x]
    BY <1>1, <1>12, <1>14 DEF DatesOK
  <2> QED
    BY <2>1, <2>2, <1>1 DEF DatesOK
<1>18. SavingOK'
  <2>1. ASSUME NEW call \in saving
        PROVE  /\ call.id \in DOMAIN buckets' /\ ~buckets'[call.id].stored
               /\ call.records <= buckets'[call.id].records
               /\ call.records = buckets'[call.id].records => call.size = buckets'[call.id].size
    <3>1. /\ call.id \in DOMAIN buckets /\ ~buckets[call.id].stored
          /\ call.records <= buckets[call.id].records
          /\ call.records = buckets[call.id].records => call.size = buckets[call.id].size
      BY <1>1 DEF SavingOK
    <3>2. call.records \in Nat /\ buckets[call.id].records \in Nat
      BY <3>1, <1>1, <1>4 DEF TypeOK, Calls, Bucket
    <3> QED
      BY <3>1, <3>2, <1>12, <1>13
  <2>2. \A call \in saving : NoTwin(call.id)' = NoTwin(call.id)
    BY SameTwins
  <2> QED
    BY <2>1, <2>2, <1>1 DEF SavingOK
<1>19. StoredMeansSaved'
  <2> SUFFICES ASSUME NEW x \in DOMAIN buckets', buckets'[x].stored, NoTwin(x)'
               PROVE  rows[buckets'[x].dateCreate] =
                        [id |-> x, size |-> buckets'[x].size, records |-> buckets'[x].records]
    BY DEF StoredMeansSaved
  <2>1. x \in DOMAIN buckets /\ x # id /\ buckets'[x] = buckets[x]
    BY <1>12, <1>13
  <2>2. NoTwin(x)
    BY SameTwins
  <2> QED
    BY <2>1, <2>2, <1>1 DEF StoredMeansSaved
<1>20. Kept'
  <2> SUFFICES ASSUME NEW k \in Bucketed', NoTwin(messages[k].bucket)'
               PROVE  \/ messages'[k].bucket \in DOMAIN buckets'
                      \/ rows[created[messages'[k].bucket]].id = messages'[k].bucket
    BY DEF Kept
  <2>1. k \in 1 .. n /\ messages'[k].bucket \in Ids
    BY <1>9 DEF Bucketed
  <2>2. CASE k = m
    <3>1. messages'[k].bucket = id
      BY <2>1, <2>2, <1>9 DEF Message
    <3> QED
      BY <2>1, <3>1, <1>2, <1>12 DEF NoBucket, Ids
  <2>3. CASE k # m
    <3>1. messages'[k] = messages[k] /\ k \in DOMAIN messages
      BY <2>1, <2>3, <1>6, <1>9
    <3>2. k \in Bucketed
      BY <2>1, <3>1 DEF Bucketed
    <3>3. NoTwin(messages[k].bucket)
      BY <3>1 DEF NoTwin
    <3> QED
      BY <3>1, <3>2, <3>3, <1>1, <1>12 DEF Kept
  <2> QED
    BY <2>2, <2>3
<1> QED
  BY <1>15, <1>16, <1>17, <1>18, <1>19, <1>20 DEF IInv

\* store() is called for a new message.
LEMMA StoreStep ==
  ASSUME IInv, NEW timestamp \in Timestamps, NEW length \in Lengths, store(timestamp, length)
  PROVE  IInv'
<1> DEFINE message == [timestamp |-> timestamp, length |-> length, bucket |-> NoBucket]
<1>1. message \in Message
  BY DEF Message
<1>2. StoreMessage(Len(messages) + 1, message)
      /\ UNCHANGED <<heap, rows, check, saving, saver, created, expiries, stopped, exited>>
  BY DEF store
<1>3. Len(messages) + 1 \in 1 .. Len(messages) + 1
  BY Typed DEF IInv
<1> HIDE DEF message
<1> QED
  BY <1>1, <1>2, <1>3, StoreMessageStep

\* A message that waits tries again.
LEMMA RetryStep ==
  ASSUME IInv, NEW m \in DOMAIN messages, RetryStore(m)
  PROVE  IInv'
<1>1. messages[m] \in Message /\ m \in 1 .. Len(messages) + 1
  BY Typed DEF IInv
<1>2. StoreMessage(m, messages[m])
      /\ UNCHANGED <<heap, rows, check, saving, saver, created, expiries, stopped, exited>>
  BY DEF RetryStore
<1> QED
  BY <1>1, <1>2, StoreMessageStep

\* What depends on the messages, the buckets, the table and the calls alone.
LEMMA Framed ==
  ASSUME IInv, UNCHANGED <<messages, heap, buckets, rows, saving, saver, created>>
  PROVE  /\ IsHeap(heap, buckets, DOMAIN buckets)'
         /\ SavingOK' /\ StoredMeansSaved' /\ Kept'
<1>1. IsHeap(heap, buckets, DOMAIN buckets) /\ SavingOK /\ StoredMeansSaved /\ Kept
  BY DEF IInv
<1>2. IsHeap(heap, buckets, DOMAIN buckets)'
  BY <1>1
<1>3. SavingOK'
  BY <1>1 DEF SavingOK, NoTwin
<1>4. StoredMeansSaved'
  BY <1>1 DEF StoredMeansSaved, NoTwin
<1>5. Kept'
  BY <1>1 DEF Kept, Bucketed, NoTwin
<1> QED
  BY <1>2, <1>3, <1>4, <1>5

\* The state of checkFullBuckets.
CheckType == [step : {"timer", "asking", "answered", "stopped"}, query : {"last", "before"},
              min : Timestamps \cup {Undefined}, insertNewBucket : BOOLEAN,
              found : Row \cup {NoRow}, date : Timestamps \cup {Undefined}]

CheckDated ==
    /\ check.found # NoRow =>
          check.found.id \in DOMAIN created /\ created[check.found.id] = check.date
    /\ check.step \in {"asking", "answered"} => check.min # Undefined

\* A step of checkFullBuckets that changes nothing but its own state.
LEMMA CheckStep ==
  ASSUME IInv, check' \in CheckType, CheckDated',
         UNCHANGED <<messages, minTimestamp, heap, buckets, rows, saving, saver, created,
                     expiries, stopped>>, exited' \in BOOLEAN
  PROVE  IInv'
<1>1. TypeOK /\ DatesOK
  BY DEF IInv
<1>2. TypeOK'
  BY <1>1 DEF TypeOK, CheckType
<1>3. DatesOK'
  BY <1>1 DEF DatesOK, CheckDated, Bucketed
<1> QED
  BY <1>2, <1>3, Framed DEF IInv

\* The timer of checkFullBuckets goes off: the minTimestamp is noted.
LEMMA CheckFullBucketsStep ==
  ASSUME IInv, checkFullBuckets
  PROVE  IInv'
<1> DEFINE Asking(q, full) == [step |-> "asking", query |-> q, min |-> minTimestamp,
                               insertNewBucket |-> full, found |-> NoRow, date |-> Undefined]
<1>1. minTimestamp \in Timestamps /\ exited \in BOOLEAN /\ minTimestamp # Undefined
  BY DEF IInv, TypeOK, checkFullBuckets
<1>2. PICK q \in {"last", "before"}, full \in BOOLEAN :
        check' = Asking(q, full)
  <2> DEFINE f == heap # <<>> /\ isAlmostFull(buckets[heap[1]])
  <2>1. f \in BOOLEAN
    OBVIOUS
  <2>2. \/ check' = [Idle EXCEPT !.step = "asking", !.min = minTimestamp, !.insertNewBucket = f]
        \/ check' = [Idle EXCEPT !.step = "asking", !.query = "before", !.min = minTimestamp]
    BY DEF checkFullBuckets
  <2> HIDE DEF f
  <2>3. CASE check' = [Idle EXCEPT !.step = "asking", !.min = minTimestamp, !.insertNewBucket = f]
    <3>1. check' = Asking("last", f)
      BY <2>3 DEF Idle
    <3> QED
      BY <2>1, <3>1
  <2>4. CASE check' = [Idle EXCEPT !.step = "asking", !.query = "before", !.min = minTimestamp]
    <3>1. check' = Asking("before", FALSE)
      BY <2>4 DEF Idle
    <3> QED
      BY <3>1
  <2> QED
    BY <2>2, <2>3, <2>4
<1>3. check' \in CheckType
  BY <1>1, <1>2 DEF CheckType, Idle
<1>4. check'.found = NoRow /\ check'.min = minTimestamp
  BY <1>2 DEF Idle
<1>5. CheckDated'
  BY <1>1, <1>4 DEF CheckDated
<1>6. UNCHANGED <<messages, minTimestamp, heap, buckets, rows, saving, saver, created,
                  expiries, stopped, exited>>
  BY DEF checkFullBuckets
<1> QED
  BY <1>1, <1>3, <1>5, <1>6, CheckStep

\* The row that is found is the one of the date that is noted with it.
LEMMA LookUpStep ==
  ASSUME IInv, LookUp
  PROVE  IInv'
<1> DEFINE dates == {d \in Timestamps : rows[d] # NoRow
                                        /\ (check.query = "before" => d <= check.min)}
           date == LastRow(check.query, check.min)
           row == IF date = Undefined THEN NoRow ELSE rows[date]
<1>1. TypeOK /\ DatesOK
  BY DEF IInv
<1>2. date = IF dates = {} THEN Undefined ELSE Max(dates)
  BY DEF LastRow
<1>3. dates # {} => Max(dates) \in dates
  <2>1. dates \subseteq Timestamps
    OBVIOUS
  <2> HIDE DEF dates
  <2> QED
    BY <2>1, LatestDate
<1>4. /\ UNCHANGED <<messages, minTimestamp, heap, buckets, rows, saving, saver, created,
                     expiries, stopped, exited>>
      /\ check.step = "asking"
      /\ check' = [check EXCEPT !.step = "answered", !.date = date, !.found = row]
  BY DEF LookUp
<1> HIDE DEF date
<1>5. date = Undefined \/ (date \in Timestamps /\ rows[date] # NoRow)
  BY <1>2, <1>3
<1>6. row \in Row \cup {NoRow}
  BY <1>1, <1>5 DEF TypeOK
<1>7. row # NoRow => row.id \in DOMAIN created /\ created[row.id] = date
  BY <1>1, <1>5 DEF DatesOK
<1>8. check \in CheckType /\ exited \in BOOLEAN
  BY <1>1 DEF TypeOK, CheckType
<1> HIDE DEF row
<1>9. check' \in CheckType
  BY <1>4, <1>5, <1>6, <1>8 DEF CheckType
<1>10. check'.found = row /\ check'.date = date /\ check'.min = check.min
  BY <1>4, <1>8 DEF CheckType
<1>11. check.min # Undefined
  BY <1>1, <1>4 DEF DatesOK
<1>12. CheckDated'
  BY <1>4, <1>7, <1>10, <1>11 DEF CheckDated
<1> QED
  BY <1>4, <1>8, <1>9, <1>12, CheckStep

\* The look-up fails and the process ends.
LEMMA LookUpFailedStep ==
  ASSUME IInv, LookUpFailed
  PROVE  IInv'
<1>1. /\ UNCHANGED <<messages, minTimestamp, heap, buckets, rows, check, saving, saver,
                     created, expiries, stopped>>
      /\ exited' \in BOOLEAN
  BY DEF LookUpFailed
<1>2. check' \in CheckType
  BY <1>1 DEF IInv, TypeOK, CheckType
<1>3. CheckDated'
  BY <1>1 DEF IInv, DatesOK, CheckDated
<1> QED
  BY <1>1, <1>2, <1>3, CheckStep

\* The calls carry what the buckets have at this moment.
LEMMA StoreBucketsStep ==
  ASSUME IInv, storeBuckets
  PROVE  IInv'
<1> DEFINE Call(id) == [id |-> id, dateCreate |-> buckets[id].dateCreate,
                        size |-> buckets[id].size, records |-> buckets[id].records,
                        outcome |-> "sent"]
<1>1. TypeOK /\ IsHeap(heap, buckets, DOMAIN buckets) /\ DatesOK /\ SavingOK
      /\ StoredMeansSaved /\ Kept
  BY DEF IInv
<1>2. /\ UNCHANGED <<messages, minTimestamp, heap, buckets, rows, check, created, expiries,
                     stopped, exited>>
      /\ saver' = "running"
      /\ saving' = {Call(id) : id \in {i \in DOMAIN buckets : ~buckets[i].stored}}
  BY DEF storeBuckets
<1>3. ASSUME NEW call \in saving'
      PROVE  /\ call.id \in DOMAIN buckets /\ ~buckets[call.id].stored
             /\ call = Call(call.id)
  <2>1. PICK id \in DOMAIN buckets : ~buckets[id].stored /\ call = Call(id)
    BY <1>2
  <2> QED
    BY <2>1
<1>4. DOMAIN buckets \subseteq Ids /\ \A id \in DOMAIN buckets : buckets[id] \in Bucket
  BY <1>1, Typed
<1>5. saving' \subseteq Calls
  <2> SUFFICES ASSUME NEW call \in saving' PROVE call \in Calls
    OBVIOUS
  <2>1. call.id \in Ids /\ buckets[call.id] \in Bucket /\ call = Call(call.id)
    BY <1>3, <1>4
  <2> QED
    BY <2>1 DEF Calls, Bucket
<1>6. TypeOK'
  BY <1>1, <1>2, <1>5 DEF TypeOK
<1>7. IsHeap(heap, buckets, DOMAIN buckets)' /\ DatesOK' /\ StoredMeansSaved' /\ Kept'
  BY <1>1, <1>2 DEF DatesOK, StoredMeansSaved, Kept, Bucketed, NoTwin
<1>8. SavingOK'
  <2>1. ASSUME NEW call \in saving'
        PROVE  /\ call.dateCreate = created[call.id]
               /\ call.records = buckets[call.id].records /\ call.size = buckets[call.id].size
               /\ call.records <= buckets[call.id].records
               /\ call.outcome = "sent"
    <3>1. /\ call.dateCreate = buckets[call.id].dateCreate /\ call.outcome = "sent"
          /\ call.records = buckets[call.id].records /\ call.size = buckets[call.id].size
      BY <1>3
    <3>2. buckets[call.id].records \in Nat
      BY <1>3, <1>4 DEF Bucket
    <3> QED
      BY <3>1, <3>2, <1>1, <1>3 DEF DatesOK
  <2>2. ASSUME NEW call \in saving', NEW other \in saving', call.id = other.id
        PROVE  call = other
    <3>1. call = Call(call.id) /\ other = Call(other.id)
      BY <1>3
    <3> HIDE DEF Call
    <3> QED
      BY <3>1, <2>2
  <2> HIDE DEF Call
  <2> QED
    BY <2>1, <2>2, <1>2, <1>3 DEF SavingOK
<1> QED
  BY <1>6, <1>7, <1>8 DEF IInv

\* A call settles; its row is written, or may not be if it was rejected.  The row of
\* another bucket without a twin stays as it is.
LEMMA SettleStep ==
  ASSUME IInv, NEW call \in saving, NEW outcome \in {"fulfilled", "rejected"},
         UpsertRow(call) \/ (outcome = "rejected" /\ UNCHANGED rows),
         Settle(call, outcome)
  PROVE  IInv'
<1> DEFINE row == [id |-> call.id, size |-> call.size, records |-> call.records]
           settled == [call EXCEPT !.outcome = outcome]
<1>1. TypeOK /\ IsHeap(heap, buckets, DOMAIN buckets) /\ DatesOK /\ SavingOK
      /\ StoredMeansSaved /\ Kept
  BY DEF IInv
<1>2. /\ UNCHANGED <<messages, minTimestamp, heap, buckets, check, saver, created, expiries,
                     stopped, exited>>
      /\ call.outcome = "sent"
      /\ saving' = (saving \ {call}) \cup {settled}
  BY DEF Settle
<1>3. /\ call \in Calls /\ DOMAIN buckets \subseteq DOMAIN created
      /\ \A id \in DOMAIN created : created[id] \in Timestamps
  BY <1>1, Typed DEF TypeOK
<1>4. /\ call.id \in DOMAIN buckets /\ ~buckets[call.id].stored
      /\ call.dateCreate = created[call.id]
      /\ call.records <= buckets[call.id].records
      /\ call.records = buckets[call.id].records => call.size = buckets[call.id].size
  BY <1>1 DEF SavingOK
<1>5. /\ call.id \in Ids /\ call.dateCreate \in Timestamps
      /\ call.size \in Nat /\ call.records \in Nat
  BY <1>3 DEF Calls
<1>6. /\ settled \in Calls /\ settled.id = call.id /\ settled.dateCreate = call.dateCreate
      /\ settled.size = call.size /\ settled.records = call.records
      /\ settled.outcome = outcome
  BY <1>3 DEF Calls
<1> HIDE DEF settled
<1>7. rows \in [Timestamps -> Row \cup {NoRow}]
  BY <1>1 DEF TypeOK
<1>8. row \in Row /\ row.id = call.id
  BY <1>5 DEF Row
<1>9. rows' = [rows EXCEPT ![call.dateCreate] = row] \/ (outcome = "rejected" /\ rows' = rows)
  BY DEF UpsertRow
<1> HIDE DEF row
<1>10. /\ rows' \in [Timestamps -> Row \cup {NoRow}]
       /\ \A date \in Timestamps : date # call.dateCreate => rows'[date] = rows[date]
       /\ rows'[call.dateCreate] = row \/ rows'[call.dateCreate] = rows[call.dateCreate]
       /\ outcome = "fulfilled" => rows'[call.dateCreate] = row
  BY <1>5, <1>7, <1>8, <1>9
<1>11. ASSUME NEW id \in DOMAIN created, NoTwin(id), id # call.id
       PROVE  created[id] \in Timestamps /\ rows'[created[id]] = rows[created[id]]
  <2>1. created[id] # call.dateCreate
    BY <1>3, <1>4, <1>11 DEF NoTwin
  <2> QED
    BY <2>1, <1>3, <1>10
<1>12. TypeOK'
  <2>1. saving' \subseteq Calls
    BY <1>1, <1>2, <1>6 DEF TypeOK
  <2> QED
    BY <2>1, <1>1, <1>2, <1>10 DEF TypeOK
<1>13. IsHeap(heap, buckets, DOMAIN buckets)'
  BY <1>1, <1>2
<1>14. DatesOK'
  <2>1. ASSUME NEW date \in Timestamps, rows'[date] # NoRow
        PROVE  rows'[date].id \in DOMAIN created /\ created[rows'[date].id] = date
    <3>1. rows'[date] = rows[date] \/ (date = call.dateCreate /\ rows'[date] = row)
      BY <1>10
    <3>2. CASE rows'[date] = rows[date]
      BY <2>1, <3>2, <1>1 DEF DatesOK
    <3>3. CASE date = call.dateCreate /\ rows'[date] = row
      BY <3>3, <1>3, <1>4, <1>8
    <3> QED
      BY <3>1, <3>2, <3>3
  <2> QED
    BY <2>1, <1>1, <1>2 DEF DatesOK, Bucketed
<1>15. SavingOK'
  <2>1. \A c \in saving' : c = settled \/ (c \in saving /\ c # call)
    BY <1>2
  <2>2. \A c \in saving : c # call => c.id # call.id
    BY <1>1 DEF SavingOK
  <2>3. ASSUME NEW c \in saving', NEW other \in saving', c.id = other.id
        PROVE  c = other
    BY <2>1, <2>2, <2>3, <1>1, <1>6 DEF SavingOK
  <2>4. ASSUME NEW c \in saving'
        PROVE  /\ c.id \in DOMAIN buckets /\ ~buckets[c.id].stored
               /\ c.dateCreate = created[c.id]
               /\ c.records <= buckets[c.id].records
               /\ c.records = buckets[c.id].records => c.size = buckets[c.id].size
    <3>1. CASE c = settled
      BY <3>1, <1>4, <1>6
    <3>2. CASE c \in saving /\ c # call
      BY <3>2, <1>1 DEF SavingOK
    <3> QED
      BY <2>1, <3>1, <3>2
  <2>5. ASSUME NEW c \in saving', c.outcome = "fulfilled", NoTwin(c.id)
        PROVE  rows'[c.dateCreate] = [id |-> c.id, size |-> c.size, records |-> c.records]
    <3>1. CASE c = settled
      BY <3>1, <2>5, <1>6, <1>10 DEF row
    <3>2. CASE c \in saving /\ c # call
      <4>1. /\ c.id \in DOMAIN created /\ c.id # call.id /\ c.dateCreate = created[c.id]
            /\ rows[c.dateCreate] = [id |-> c.id, size |-> c.size, records |-> c.records]
        BY <3>2, <2>2, <2>4, <2>5, <1>1, <1>3 DEF SavingOK
      <4>2. rows'[created[c.id]] = rows[created[c.id]]
        BY <4>1, <2>5, <1>11
      <4> QED
        BY <4>1, <4>2
    <3> QED
      BY <2>1, <3>1, <3>2
  <2>6. saver' # "running" => saving' = {}
    BY <1>1, <1>2 DEF SavingOK
  <2>7. \A c \in saving' : NoTwin(c.id)' = NoTwin(c.id)
    BY <1>2, SameTwins
  <2> QED
    BY <2>3, <2>4, <2>5, <2>6, <2>7, <1>2 DEF SavingOK
<1>16. StoredMeansSaved'
  <2> SUFFICES ASSUME NEW id \in DOMAIN buckets, buckets[id].stored, NoTwin(id)
               PROVE  rows'[buckets[id].dateCreate] =
                        [id |-> id, size |-> buckets[id].size, records |-> buckets[id].records]
    BY <1>2, SameTwins DEF StoredMeansSaved
  <2>1. id # call.id /\ id \in DOMAIN created /\ buckets[id].dateCreate = created[id]
    BY <1>1, <1>3, <1>4 DEF DatesOK
  <2>2. rows'[created[id]] = rows[created[id]]
    BY <2>1, <1>11
  <2> QED
    BY <2>1, <2>2, <1>1 DEF StoredMeansSaved
<1>17. Kept'
  <2> SUFFICES ASSUME NEW m \in Bucketed, NoTwin(messages[m].bucket),
                      messages[m].bucket \notin DOMAIN buckets
               PROVE  rows'[created[messages[m].bucket]].id = messages[m].bucket
    BY <1>2 DEF Kept, Bucketed, NoTwin
  <2>1. messages[m].bucket \in DOMAIN created /\ messages[m].bucket # call.id
    BY <1>1, <1>4 DEF DatesOK
  <2>2. rows'[created[messages[m].bucket]] = rows[created[messages[m].bucket]]
    BY <2>1, <1>11
  <2> QED
    BY <2>2, <1>1 DEF Kept
<1> QED
  BY <1>12, <1>13, <1>14, <1>15, <1>16, <1>17 DEF IInv

\* An upsertBucket call is fulfilled or rejected.
LEMMA UpsertsStep ==
  ASSUME IInv, Upserts
  PROVE  IInv'
<1>1. PICK call \in saving : UpsertFulfilled(call) \/ UpsertRejected(call)
  BY DEF Upserts
<1>2. CASE UpsertFulfilled(call)
  BY <1>2, SettleStep DEF UpsertFulfilled
<1>3. CASE UpsertRejected(call)
  BY <1>3, SettleStep DEF UpsertRejected
<1> QED
  BY <1>1, <1>2, <1>3

\* The buckets that are written and not used are dropped, and their rows remain.
LEMMA StoreBucketsSettledStep ==
  ASSUME IInv, StoreBucketsSettled
  PROVE  IInv'
<1> DEFINE bs == markStored
           gone == {id \in DOMAIN bs : isRemovable(bs[id])}
           Marked(id) == \E call \in saving : /\ call.id = id /\ call.outcome = "fulfilled"
                                              /\ call.records = buckets[id].records
<1>1. TypeOK /\ IsHeap(heap, buckets, DOMAIN buckets) /\ DatesOK /\ SavingOK
      /\ StoredMeansSaved /\ Kept
  BY DEF IInv
<1>2. /\ UNCHANGED <<messages, minTimestamp, rows, check, created, expiries, stopped, exited>>
      /\ saving' = {} /\ saver' = "timer"
      /\ buckets' = [id \in DOMAIN bs \ gone |-> bs[id]]
      /\ \E order \in SetToSeqs(gone) : heap' = removeBuckets(heap, bs, order)[Len(order)]
  BY DEF StoreBucketsSettled
<1>3. /\ DOMAIN bs = DOMAIN buckets
      /\ \A id \in DOMAIN buckets :
            bs[id] = IF Marked(id) THEN [buckets[id] EXCEPT !.stored = TRUE] ELSE buckets[id]
  BY DEF markStored
<1>4. gone = {id \in DOMAIN buckets : bs[id].stored /\ ~bs[id].alive}
  BY <1>3 DEF isRemovable
<1> HIDE DEF bs, gone, Marked
<1>5. /\ Len(created) \in Nat /\ DOMAIN created = 1 .. Len(created)
      /\ DOMAIN buckets \subseteq DOMAIN created
      /\ \A id \in DOMAIN buckets : buckets[id] \in Bucket
      /\ AreDated(buckets, DOMAIN buckets)
  BY <1>1, Typed
<1>6. ASSUME NEW id \in DOMAIN buckets
      PROVE  /\ bs[id] \in Bucket /\ bs[id].dateCreate = buckets[id].dateCreate
             /\ bs[id].size = buckets[id].size /\ bs[id].records = buckets[id].records
             /\ bs[id].stored => buckets[id].stored \/ Marked(id)
  <2>1. buckets[id] \in Bucket
    BY <1>5
  <2>2. CASE Marked(id)
    <3>1. bs[id] = [buckets[id] EXCEPT !.stored = TRUE]
      BY <1>3, <2>2
    <3> QED
      BY <3>1, <2>1, <2>2 DEF Bucket
  <2>3. CASE ~Marked(id)
    <3>1. bs[id] = buckets[id]
      BY <1>3, <2>3
    <3> QED
      BY <3>1, <2>1
  <2> QED
    BY <2>2, <2>3
<1>7. ASSUME NEW id \in DOMAIN buckets, bs[id].stored, NoTwin(id)
      PROVE  rows[buckets[id].dateCreate] =
                [id |-> id, size |-> buckets[id].size, records |-> buckets[id].records]
  <2>1. CASE buckets[id].stored
    BY <2>1, <1>1, <1>7 DEF StoredMeansSaved
  <2>2. CASE Marked(id)
    <3>1. PICK call \in saving : /\ call.id = id /\ call.outcome = "fulfilled"
                                 /\ call.records = buckets[id].records
      BY <2>2 DEF Marked
    <3>2. /\ call.size = buckets[id].size /\ call.dateCreate = created[id]
          /\ rows[call.dateCreate] = [id |-> call.id, size |-> call.size, records |-> call.records]
      BY <3>1, <1>1, <1>7 DEF SavingOK
    <3>3. buckets[id].dateCreate = created[id]
      BY <1>1 DEF DatesOK
    <3> QED
      BY <3>1, <3>2, <3>3
  <2> QED
    BY <2>1, <2>2, <1>6, <1>7
<1>8. /\ DOMAIN buckets' = DOMAIN buckets \ gone
      /\ \A id \in DOMAIN buckets' : id \in DOMAIN buckets /\ buckets'[id] = bs[id]
  BY <1>2, <1>3
<1>9. IsHeap(heap', buckets', DOMAIN buckets')
  <2>1. gone \subseteq 1 .. Len(created) /\ IsFiniteSet(1 .. Len(created))
    BY <1>4, <1>5, FS_Interval
  <2>2. IsFiniteSet(gone)
    BY <2>1, FS_Subset
  <2>3. PICK order \in SetToSeqs(gone) : heap' = removeBuckets(heap, bs, order)[Len(order)]
    BY <1>2
  <2>4. Len(order) \in Nat /\ gone = {order[k] : k \in 1 .. Len(order)}
    BY <2>2, OrderLists
  <2>5. IsHeap(heap, bs, DOMAIN buckets)
    BY <1>1, <1>6, SameDates
  <2>6. AreDated(bs, DOMAIN buckets)
    BY <1>5, <1>6 DEF AreDated
  <2>7. IsHeap(removeBuckets(heap, bs, order)[Len(order)], bs, DOMAIN buckets \ gone)
    BY <2>4, <2>5, <2>6, RemoveBucketsIsHeap
  <2>8. IsHeap(heap', bs, DOMAIN buckets')
    BY <2>3, <2>7, <1>8
  <2>9. \A id \in DOMAIN buckets' : buckets'[id].dateCreate = bs[id].dateCreate
    BY <1>8
  <2> QED
    BY <2>8, <2>9, SameDates
<1>10. TypeOK'
  <2>1. /\ DOMAIN buckets' \subseteq 1 .. Len(created)
        /\ \A id \in DOMAIN buckets' : buckets'[id] \in Bucket
    BY <1>5, <1>6, <1>8
  <2>2. heap' \in Seq(DOMAIN buckets')
    BY <1>9 DEF IsHeap
  <2> QED
    BY <2>1, <2>2, <1>1, <1>2 DEF TypeOK
<1>11. DatesOK'
  <2>1. \A id \in DOMAIN buckets' : buckets'[id].dateCreate = created[id]
    BY <1>1, <1>6, <1>8 DEF DatesOK
  <2> QED
    BY <2>1, <1>1, <1>2 DEF DatesOK, Bucketed
<1>12. SavingOK'
  BY <1>2 DEF SavingOK
<1>13. StoredMeansSaved'
  <2> SUFFICES ASSUME NEW id \in DOMAIN buckets', buckets'[id].stored, NoTwin(id)
               PROVE  rows[buckets'[id].dateCreate] =
                        [id |-> id, size |-> buckets'[id].size, records |-> buckets'[id].records]
    BY <1>2, SameTwins DEF StoredMeansSaved
  <2> QED
    BY <1>6, <1>7, <1>8
<1>14. Kept'
  <2> SUFFICES ASSUME NEW m \in Bucketed, NoTwin(messages[m].bucket),
                      messages[m].bucket \notin DOMAIN buckets'
               PROVE  rows[created[messages[m].bucket]].id = messages[m].bucket
    BY <1>2 DEF Kept, Bucketed, NoTwin
  <2>1. CASE messages[m].bucket \in DOMAIN buckets
    <3> DEFINE id == messages[m].bucket
    <3>1. id \in DOMAIN buckets /\ bs[id].stored /\ NoTwin(id)
      BY <2>1, <1>4, <1>8
    <3>2. buckets[id].dateCreate = created[id]
      BY <3>1, <1>1 DEF DatesOK
    <3>3. rows[buckets[id].dateCreate] =
             [id |-> id, size |-> buckets[id].size, records |-> buckets[id].records]
      BY <3>1, <1>7
    <3> QED
      BY <3>2, <3>3
  <2>2. CASE messages[m].bucket \notin DOMAIN buckets
    BY <2>2, <1>1 DEF Kept
  <2> QED
    BY <2>1, <2>2
<1> QED
  BY <1>9, <1>10, <1>11, <1>12, <1>13, <1>14 DEF IInv

\* A bucket gets older than its keep-alive.
LEMMA ExpireStep ==
  ASSUME IInv, NEW id \in DOMAIN buckets, Expire(id)
  PROVE  IInv'
<1>1. TypeOK /\ IsHeap(heap, buckets, DOMAIN buckets) /\ DatesOK /\ SavingOK
      /\ StoredMeansSaved /\ Kept
  BY DEF IInv
<1>2. /\ UNCHANGED <<messages, minTimestamp, heap, rows, check, saving, saver, created,
                     stopped, exited>>
      /\ buckets' = [buckets EXCEPT ![id].alive = FALSE]
      /\ expiries < MaxExpiries /\ expiries' = expiries + 1
  BY DEF Expire
<1>3. \A x \in DOMAIN buckets : buckets[x] \in Bucket
  BY <1>1, Typed
<1>4. /\ DOMAIN buckets' = DOMAIN buckets
      /\ \A x \in DOMAIN buckets :
            /\ buckets'[x] \in Bucket /\ buckets'[x].dateCreate = buckets[x].dateCreate
            /\ buckets'[x].size = buckets[x].size /\ buckets'[x].records = buckets[x].records
            /\ buckets'[x].stored = buckets[x].stored
  BY <1>2, <1>3 DEF Bucket
<1>5. TypeOK'
  <2>1. expiries' \in 0 .. MaxExpiries
    BY <1>1, <1>2, BucketAssumption DEF TypeOK
  <2> QED
    BY <2>1, <1>1, <1>2, <1>4 DEF TypeOK
<1>6. IsHeap(heap, buckets, DOMAIN buckets)'
  <2>1. IsHeap(heap, buckets', DOMAIN buckets)
    BY <1>1, <1>4, SameDates
  <2> QED
    BY <2>1, <1>2, <1>4
<1>7. DatesOK'
  BY <1>1, <1>2, <1>4 DEF DatesOK, Bucketed
<1>8. SavingOK'
  BY <1>1, <1>2, <1>4 DEF SavingOK, NoTwin
<1>9. StoredMeansSaved'
  BY <1>1, <1>2, <1>4 DEF StoredMeansSaved, NoTwin
<1>10. Kept'
  BY <1>1, <1>2, <1>4 DEF Kept, Bucketed, NoTwin
<1> QED
  BY <1>5, <1>6, <1>7, <1>8, <1>9, <1>10 DEF IInv

\* stop() clears the timers: the messages that wait are in no bucket.
LEMMA StopStep ==
  ASSUME IInv, stop
  PROVE  IInv'
<1>1. TypeOK /\ IsHeap(heap, buckets, DOMAIN buckets) /\ DatesOK /\ SavingOK
      /\ StoredMeansSaved /\ Kept
  BY DEF IInv
<1>2. /\ UNCHANGED <<minTimestamp, heap, buckets, rows, saving, created, expiries, exited>>
      /\ stopped' = TRUE
      /\ messages' = [m \in DOMAIN messages |->
                        IF messages[m].bucket = NoBucket
                        THEN [messages[m] EXCEPT !.bucket = Dropped] ELSE messages[m]]
      /\ check' = IF check.step = "timer" THEN [Idle EXCEPT !.step = "stopped"] ELSE check
      /\ saver' = IF saver = "timer" THEN "stopped" ELSE saver
  BY DEF stop
<1>3. /\ Len(messages) \in Nat /\ DOMAIN messages = 1 .. Len(messages)
      /\ \A m \in DOMAIN messages : messages[m] \in Message
  BY <1>1, Typed
<1>4. /\ DOMAIN messages' = DOMAIN messages
      /\ \A m \in DOMAIN messages :
            /\ messages'[m] \in Message
            /\ messages'[m].bucket \in Ids => messages'[m] = messages[m]
  <2> SUFFICES ASSUME NEW m \in DOMAIN messages
               PROVE  /\ messages'[m] \in Message
                      /\ messages'[m].bucket \in Ids => messages'[m] = messages[m]
    BY <1>2
  <2>1. Dropped \notin Ids
    BY DEF Dropped, Ids
  <2>2. CASE messages[m].bucket = NoBucket
    <3>1. messages'[m] = [messages[m] EXCEPT !.bucket = Dropped]
      BY <1>2, <2>2
    <3>2. messages'[m] \in Message /\ messages'[m].bucket = Dropped
      BY <3>1, <1>3 DEF Message
    <3> QED
      BY <3>2, <2>1
  <2>3. CASE messages[m].bucket # NoBucket
    BY <1>2, <1>3, <2>3
  <2> QED
    BY <2>2, <2>3
<1>5. messages' \in Seq(Message)
  <2> HIDE DEF Message
  <2>1. messages' \in [1 .. Len(messages) -> Message]
    BY <1>2, <1>3, <1>4
  <2> QED
    BY <2>1, <1>3
<1>6. \A m \in Bucketed' : m \in Bucketed /\ messages'[m] = messages[m]
  BY <1>4 DEF Bucketed
<1>7. check \in CheckType /\ CheckDated
  BY <1>1 DEF TypeOK, DatesOK, CheckType, CheckDated
<1>8. check' \in CheckType /\ CheckDated'
  <2>1. CASE check.step = "timer"
    <3>1. check' = [Idle EXCEPT !.step = "stopped"]
      BY <2>1, <1>2
    <3>2. check' \in CheckType
      BY <3>1 DEF CheckType, Idle
    <3>3. check'.found = NoRow /\ check'.step = "stopped"
      BY <3>1 DEF Idle
    <3> QED
      BY <3>2, <3>3 DEF CheckDated
  <2>2. CASE check.step # "timer"
    BY <2>2, <1>2, <1>7 DEF CheckDated
  <2> QED
    BY <2>1, <2>2
<1>9. saver' \in {"timer", "running", "stopped"} /\ (saver' # "running" => saver # "running")
  BY <1>1, <1>2 DEF TypeOK
<1>10. TypeOK'
  BY <1>1, <1>2, <1>5, <1>8, <1>9 DEF TypeOK, CheckType, Message
<1>11. IsHeap(heap, buckets, DOMAIN buckets)'
  BY <1>1, <1>2
<1>12. DatesOK'
  BY <1>1, <1>2, <1>6, <1>8 DEF DatesOK, CheckDated
<1>13. SavingOK'
  BY <1>1, <1>2, <1>9 DEF SavingOK, NoTwin
<1>14. StoredMeansSaved'
  BY <1>1, <1>2 DEF StoredMeansSaved, NoTwin
<1>15. Kept'
  BY <1>1, <1>2, <1>6 DEF Kept, NoTwin
<1> QED
  BY <1>10, <1>11, <1>12, <1>13, <1>14, <1>15 DEF IInv

\* What a sequence s of members of T is when e is appended to it.
IsAppended(t, T, s, e) ==
    /\ t \in Seq(T) /\ Len(t) = Len(s) + 1 /\ DOMAIN t = 1 .. Len(s) + 1
    /\ t[Len(s) + 1] = e
    /\ \A i \in 1 .. Len(s) : i \in 1 .. Len(s) + 1 /\ t[i] = s[i]

\* Append adds one element at the end.
LEMMA Appended ==
  ASSUME NEW T, NEW s \in Seq(T), NEW e \in T
  PROVE  IsAppended(Append(s, e), T, s, e)
<1> DEFINE t == Append(s, e)
<1>1. Len(s) \in Nat
  OBVIOUS
<1>2. t \in Seq(T) /\ Len(t) = Len(s) + 1
  OBVIOUS
<1>3. DOMAIN t = 1 .. Len(t)
  BY <1>2, SeqIsFunction
<1>4. t[Len(s) + 1] = e
  BY <1>1
<1>5. \A i \in 1 .. Len(s) : t[i] = s[i]
  BY <1>1
<1>6. \A i \in 1 .. Len(s) : i \in 1 .. Len(s) + 1
  BY <1>1
<1> QED
  BY <1>2, <1>3, <1>4, <1>5, <1>6 DEF IsAppended

\* What the index and the heap are with a bucket more.
IsPut(new, bs, h, id, bucket) ==
    /\ DOMAIN new = DOMAIN bs \cup {id} /\ new[id] = bucket
    /\ \A other \in DOMAIN bs : new[other] = bs[other]
    /\ AreDated(new, DOMAIN new)
    /\ IsHeap(HeapPush(h, new, id), new, DOMAIN new)

\* A bucket is put into the index and pushed onto the heap.
LEMMA PutIsHeap ==
  ASSUME NEW bs, NEW h, IsHeap(h, bs, DOMAIN bs), AreDated(bs, DOMAIN bs),
         NEW id, id \notin DOMAIN bs, id # NoBucket, NEW bucket, bucket.dateCreate \in Nat
  PROVE  IsPut(put(bs, id, bucket), bs, h, id, bucket)
<1> DEFINE new == put(bs, id, bucket)
<1>1. /\ DOMAIN new = DOMAIN bs \cup {id} /\ new[id] = bucket
      /\ \A other \in DOMAIN bs : new[other] = bs[other]
  BY DEF put
<1> HIDE DEF new
<1>2. AreDated(new, DOMAIN bs) /\ AreDated(new, {id}) /\ AreDated(new, DOMAIN new)
  BY <1>1 DEF AreDated
<1>3. IsHeap(h, new, DOMAIN bs)
  BY <1>1, SameDates
<1>4. IsHeap(HeapPush(h, new, id), new, DOMAIN bs \cup {id})
  BY <1>2, <1>3, HeapPushIsHeap
<1> QED
  BY <1>1, <1>2, <1>4 DEF IsPut, new

\* bs has, besides buckets old, only buckets that are not stored, each dated as cr says.
Added(old, bs, cr) ==
    /\ DOMAIN old \subseteq DOMAIN bs /\ DOMAIN bs \subseteq DOMAIN cr
    /\ \A id \in DOMAIN bs : bs[id] \in Bucket /\ bs[id].dateCreate = cr[id]
    /\ \A id \in DOMAIN old : bs[id] = old[id]
    /\ \A id \in DOMAIN bs : id \notin DOMAIN old => ~bs[id].stored

\* Buckets come into memory, not stored; those that are there stay as they are, and at most
\* one is new.
LEMMA BucketsAddedStep ==
  ASSUME IInv, check' \in CheckType, CheckDated', minTimestamp' = Undefined,
         UNCHANGED <<messages, rows, saving, saver, expiries, stopped, exited>>,
         NEW date \in Timestamps,
         created' = created \/ (created' = Append(created, date) /\ Len(created) + 1 <= MaxBuckets),
         Added(buckets, buckets', created'),
         IsHeap(heap', buckets', DOMAIN buckets')
  PROVE  IInv'
<1>1. TypeOK /\ DatesOK /\ SavingOK /\ StoredMeansSaved /\ Kept
  BY DEF IInv
<1>2. /\ created \in Seq(Timestamps) /\ Len(created) \in Nat /\ DOMAIN created = 1 .. Len(created)
      /\ DOMAIN buckets \subseteq DOMAIN created
  BY <1>1, Typed
<1>3. /\ created' \in Seq(Timestamps) /\ Len(created') <= MaxBuckets
      /\ DOMAIN created' = 1 .. Len(created')
      /\ \A id \in DOMAIN created : id \in DOMAIN created' /\ created'[id] = created[id]
  <2>1. CASE created' = created
    BY <2>1, <1>1, <1>2 DEF TypeOK
  <2>2. CASE created' = Append(created, date) /\ Len(created) + 1 <= MaxBuckets
    <3>1. /\ created' \in Seq(Timestamps) /\ Len(created') = Len(created) + 1
          /\ DOMAIN created' = 1 .. Len(created) + 1
          /\ \A id \in 1 .. Len(created) : id \in 1 .. Len(created) + 1 /\ created'[id] = created[id]
      <4>1. IsAppended(created', Timestamps, created, date)
        BY <2>2, <1>2, Appended
      <4> QED
        BY <4>1 DEF IsAppended
    <3> QED
      BY <3>1, <2>2, <1>2
  <2> QED
    BY <2>1, <2>2
<1>4. ASSUME NEW id \in DOMAIN created, NoTwin(id)'
      PROVE  NoTwin(id)
  <2> SUFFICES ASSUME NEW other \in DOMAIN created, created[other] = created[id]
               PROVE  other = id
    BY DEF NoTwin
  <2>1. other \in DOMAIN created' /\ created'[other] = created'[id]
    BY <1>3
  <2> QED
    BY <2>1, <1>4 DEF NoTwin
<1>5. TypeOK'
  <2>1. DOMAIN buckets' \subseteq 1 .. Len(created') /\ heap' \in Seq(DOMAIN buckets')
    BY <1>3 DEF IsHeap, Added
  <2> QED
    BY <2>1, <1>1, <1>3 DEF TypeOK, CheckType, Added
<1>6. DatesOK'
  <2>1. \A d \in Timestamps : rows[d] # NoRow =>
            rows[d].id \in DOMAIN created' /\ created'[rows[d].id] = d
    BY <1>1, <1>3 DEF DatesOK
  <2>2. \A m \in Bucketed' : /\ messages[m].bucket \in DOMAIN created'
                             /\ created'[messages[m].bucket] <= messages[m].timestamp
    BY <1>1, <1>3 DEF DatesOK, Bucketed
  <2> QED
    BY <2>1, <2>2 DEF DatesOK, CheckDated, Added
<1>7. SavingOK'
  <2>1. \A call \in saving : call.id \in DOMAIN buckets /\ call.id \in DOMAIN created
    BY <1>1, <1>2 DEF SavingOK
  <2>2. \A call \in saving : NoTwin(call.id)' => NoTwin(call.id)
    BY <2>1, <1>4
  <2>3. \A call \in saving : /\ call.id \in DOMAIN buckets'
                             /\ buckets'[call.id] = buckets[call.id]
                             /\ created'[call.id] = created[call.id]
    BY <2>1, <1>3 DEF Added
  <2> QED
    BY <2>2, <2>3, <1>1 DEF SavingOK
<1>8. StoredMeansSaved'
  <2> SUFFICES ASSUME NEW id \in DOMAIN buckets', buckets'[id].stored, NoTwin(id)'
               PROVE  rows[buckets'[id].dateCreate] =
                        [id |-> id, size |-> buckets'[id].size, records |-> buckets'[id].records]
    BY DEF StoredMeansSaved
  <2>1. id \in DOMAIN buckets /\ buckets'[id] = buckets[id] /\ NoTwin(id)
    BY <1>2, <1>4 DEF Added
  <2> QED
    BY <2>1, <1>1 DEF StoredMeansSaved
<1>9. Kept'
  <2> SUFFICES ASSUME NEW m \in Bucketed, NoTwin(messages[m].bucket)',
                      messages[m].bucket \notin DOMAIN buckets'
               PROVE  rows[created'[messages[m].bucket]].id = messages[m].bucket
    <3>1. Bucketed' = Bucketed
      BY DEF Bucketed
    <3> QED
      BY <3>1 DEF Kept, NoTwin
  <2> DEFINE id == messages[m].bucket
  <2>1. id \in DOMAIN created
    BY <1>1 DEF DatesOK
  <2>2. NoTwin(id) /\ created'[id] = created[id] /\ id \notin DOMAIN buckets
    <3>1. NoTwin(id)
      <4> SUFFICES ASSUME NEW other \in DOMAIN created, created[other] = created[id]
                   PROVE  other = id
        BY DEF NoTwin
      <4>1. other \in DOMAIN created' /\ created'[other] = created'[id]
        BY <2>1, <1>3
      <4>2. messages' = messages
        OBVIOUS
      <4> QED
        BY <4>1, <4>2 DEF NoTwin
    <3> QED
      BY <3>1, <2>1, <1>3 DEF Added
  <2> QED
    BY <2>2, <1>1 DEF Kept
<1> QED
  BY <1>5, <1>6, <1>7, <1>8, <1>9 DEF IInv

\* The bucket that was found is taken, and one is created, at the timestamp that was read
\* before the await.
LEMMA ResumeStep ==
  ASSUME IInv, Resume
  PROVE  IInv'
<1> DEFINE found   == check.found
           taken   == found # NoRow /\ found.id \notin DOMAIN buckets
           newId   == Len(created) + 1
           old     == NewBucket(check.date, found.size, found.records)
           new     == NewBucket(check.min, 0, 0)
           bs1     == IF taken THEN put(buckets, found.id, old) ELSE buckets
           h1      == IF taken THEN HeapPush(heap, bs1, found.id) ELSE heap
           bs2     == put(bs1, newId, new)
           h2      == HeapPush(h1, bs2, newId)
           before  == [check EXCEPT !.step = "asking", !.query = "before",
                                    !.found = NoRow, !.date = Undefined]
<1>1. TypeOK /\ IsHeap(heap, buckets, DOMAIN buckets) /\ DatesOK
  BY DEF IInv
<1>2. /\ check.step = "answered" /\ minTimestamp' = Undefined
      /\ UNCHANGED <<messages, rows, saving, saver, expiries, stopped, exited>>
      /\ \/ /\ newId <= MaxBuckets
            /\ buckets' = bs2 /\ heap' = h2
            /\ created' = Append(created, check.min)
            /\ check' = Idle
         \/ /\ buckets' = bs1 /\ heap' = h1
            /\ check' = before \/ check' = Idle
            /\ created' = created
  BY DEF Resume
<1>3. /\ created \in Seq(Timestamps) /\ Len(created) \in Nat /\ DOMAIN created = 1 .. Len(created)
      /\ DOMAIN buckets \subseteq DOMAIN created
      /\ \A id \in DOMAIN created : created[id] \in Timestamps
      /\ \A id \in DOMAIN buckets : buckets[id] \in Bucket
      /\ AreDated(buckets, DOMAIN buckets)
      /\ Timestamps \subseteq Nat
  BY <1>1, Typed DEF Timestamps
<1>4. check \in CheckType /\ check.min \in Timestamps
  BY <1>1, <1>2 DEF TypeOK, CheckType, DatesOK
<1>5. Added(buckets, bs1, created) /\ AreDated(bs1, DOMAIN bs1) /\ IsHeap(h1, bs1, DOMAIN bs1)
  <2>1. CASE ~taken
    <3>1. bs1 = buckets /\ h1 = heap
      BY <2>1
    <3> HIDE DEF bs1, h1
    <3> QED
      BY <3>1, <1>1, <1>3 DEF DatesOK, Added
  <2>2. CASE taken
    <3>1. found \in Row /\ found.id \in DOMAIN created /\ created[found.id] = check.date
      BY <2>2, <1>1 DEF TypeOK, DatesOK
    <3>2. /\ old \in Bucket /\ old.dateCreate = created[found.id] /\ old.stored = FALSE
          /\ old.dateCreate \in Nat
      BY <3>1, <1>3 DEF NewBucket, Row, Bucket
    <3>3. found.id # NoBucket /\ found.id \notin DOMAIN buckets
      BY <2>2, <3>1, <1>3 DEF NoBucket
    <3>4. bs1 = put(buckets, found.id, old) /\ h1 = HeapPush(heap, bs1, found.id)
      BY <2>2
    <3> HIDE DEF bs1, h1, old, found
    <3>5. /\ DOMAIN bs1 = DOMAIN buckets \cup {found.id} /\ bs1[found.id] = old
          /\ \A other \in DOMAIN buckets : bs1[other] = buckets[other]
          /\ AreDated(bs1, DOMAIN bs1)
          /\ IsHeap(HeapPush(heap, bs1, found.id), bs1, DOMAIN bs1)
      <4>1. IsPut(bs1, buckets, heap, found.id, old)
        BY <3>2, <3>3, <3>4, <1>1, <1>3, PutIsHeap
      <4> QED
        BY <4>1 DEF IsPut
    <3>6. \A id \in DOMAIN bs1 : bs1[id] \in Bucket /\ bs1[id].dateCreate = created[id]
      BY <3>2, <3>5, <1>1, <1>3 DEF DatesOK
    <3>7. IsHeap(h1, bs1, DOMAIN bs1)
      BY <3>4, <3>5
    <3> QED
      BY <3>1, <3>2, <3>5, <3>6, <3>7, <1>3 DEF Added
  <2> QED
    BY <2>1, <2>2
<1> HIDE DEF bs1, h1, taken, found, old
<1>6. CASE /\ newId <= MaxBuckets
           /\ buckets' = bs2 /\ heap' = h2
           /\ created' = Append(created, check.min)
           /\ check' = Idle
  <2>1. /\ created'[newId] = check.min /\ DOMAIN created' = 1 .. newId
        /\ \A id \in DOMAIN created : id \in DOMAIN created' /\ created'[id] = created[id]
    <3>1. IsAppended(created', Timestamps, created, check.min)
      BY <1>3, <1>4, <1>6, Appended
    <3> QED
      BY <3>1, <1>3 DEF IsAppended
  <2>2. new \in Bucket /\ new.dateCreate = check.min /\ new.stored = FALSE /\ new.dateCreate \in Nat
    BY <1>3, <1>4 DEF NewBucket, Bucket
  <2>3. newId # NoBucket /\ newId \notin DOMAIN bs1 /\ newId \in 1 .. newId
    BY <1>3, <1>5 DEF NoBucket, Added
  <2> HIDE DEF new, newId
  <2>4. /\ DOMAIN bs2 = DOMAIN bs1 \cup {newId} /\ bs2[newId] = new
        /\ \A other \in DOMAIN bs1 : bs2[other] = bs1[other]
        /\ IsHeap(h2, bs2, DOMAIN bs2)
    <3>1. bs2 = put(bs1, newId, new) /\ h2 = HeapPush(h1, bs2, newId)
      OBVIOUS
    <3> HIDE DEF bs2, h2
    <3>2. /\ DOMAIN bs2 = DOMAIN bs1 \cup {newId} /\ bs2[newId] = new
          /\ \A other \in DOMAIN bs1 : bs2[other] = bs1[other]
          /\ IsHeap(HeapPush(h1, bs2, newId), bs2, DOMAIN bs2)
      <4>1. IsPut(bs2, bs1, h1, newId, new)
        BY <3>1, <2>2, <2>3, <1>5, PutIsHeap
      <4> QED
        BY <4>1 DEF IsPut
    <3> QED
      BY <3>1, <3>2
  <2> HIDE DEF bs2, h2
  <2>5. Added(buckets, bs2, created')
    <3>1. DOMAIN buckets \subseteq DOMAIN bs2 /\ DOMAIN bs2 \subseteq DOMAIN created'
      BY <2>1, <2>3, <2>4, <1>5 DEF Added
    <3>2. \A id \in DOMAIN bs2 : bs2[id] \in Bucket /\ bs2[id].dateCreate = created'[id]
      BY <2>1, <2>2, <2>4, <1>5 DEF Added
    <3>3. \A id \in DOMAIN buckets : bs2[id] = buckets[id]
      BY <2>4, <1>5 DEF Added
    <3>4. \A id \in DOMAIN bs2 : id \notin DOMAIN buckets => ~bs2[id].stored
      BY <2>2, <2>4, <1>5 DEF Added
    <3> QED
      BY <3>1, <3>2, <3>3, <3>4 DEF Added
  <2>6. check' \in CheckType /\ CheckDated'
    BY <1>6 DEF CheckType, CheckDated, Idle
  <2> QED
    BY <2>4, <2>5, <2>6, <1>2, <1>4, <1>6, BucketsAddedStep DEF newId
<1>7. CASE /\ buckets' = bs1 /\ heap' = h1
           /\ check' = before \/ check' = Idle
           /\ created' = created
  <2>1. check' \in CheckType /\ CheckDated'
    <3>1. CASE check' = before
      <4>1. check' \in CheckType
        BY <3>1, <1>4 DEF CheckType
      <4>2. check'.found = NoRow /\ check'.min = check.min /\ check.min # Undefined
        BY <3>1, <1>1, <1>2, <1>4 DEF CheckType, DatesOK
      <4> QED
        BY <4>1, <4>2 DEF CheckDated
    <3>2. CASE check' = Idle
      BY <3>2 DEF CheckType, CheckDated, Idle
    <3> QED
      BY <1>7, <3>1, <3>2
  <2> QED
    BY <2>1, <1>2, <1>4, <1>5, <1>7, BucketsAddedStep
<1> HIDE DEF bs2, h2, before, newId
<1> QED
  BY <1>2, <1>6, <1>7

\* The invariant is inductive.
LEMMA NextIInv == IInv /\ [Next]_vars => IInv'
<1> SUFFICES ASSUME IInv, [Next]_vars PROVE IInv'
  OBVIOUS
<1>1. CASE \E timestamp \in Timestamps, length \in Lengths : store(timestamp, length)
  BY <1>1, StoreStep
<1>2. CASE Retries
  BY <1>2, RetryStep DEF Retries
<1>3. CASE Checking
  BY <1>3, CheckFullBucketsStep, LookUpStep, LookUpFailedStep, ResumeStep DEF Checking
<1>4. CASE storeBuckets
  BY <1>4, StoreBucketsStep
<1>5. CASE Upserts
  BY <1>5, UpsertsStep
<1>6. CASE StoreBucketsSettled
  BY <1>6, StoreBucketsSettledStep
<1>7. CASE \E id \in DOMAIN buckets : Expire(id)
  BY <1>7, ExpireStep
<1>8. CASE stop
  BY <1>8, StopStep
<1>9. CASE UNCHANGED vars
  <2>1. UNCHANGED <<messages, minTimestamp, heap, buckets, rows, check, saving, saver, created,
                    expiries, stopped, exited>>
    BY <1>9 DEF vars
  <2>2. check' \in CheckType /\ CheckDated' /\ exited' \in BOOLEAN
    BY <2>1 DEF IInv, TypeOK, DatesOK, CheckType, CheckDated
  <2> QED
    BY <2>1, <2>2, CheckStep
<1> QED
  BY <1>1, <1>2, <1>3, <1>4, <1>5, <1>6, <1>7, <1>8, <1>9 DEF Next

-----------------------------------------------------------------------------
(* What follows *)

\* The heap is in order and holds what the index holds, and what is stored is in the table:
\* the inductive invariant holds in every behaviour.
THEOREM Invariance == Spec => []IInv
BY InitIInv, NextIInv, PTL DEF Spec

\* Every variable keeps its type.
THEOREM TypeCorrect == Spec => []TypeOK
<1>1. IInv => TypeOK
  BY DEF IInv
<1> QED
  BY <1>1, Invariance, PTL

\* The heap and the index of buckets hold the same buckets, each once, with a latest one
\* first (BucketManager.ts 200-261, 322-347).
THEOREM HeapAndIndexAgree == Spec => []HeapMirrorsBuckets
<1>1. IInv => HeapMirrorsBuckets
  <2> SUFFICES ASSUME IInv PROVE HeapMirrorsBuckets
    OBVIOUS
  <2>1. IsHeap(heap, buckets, DOMAIN buckets) /\ AreDated(buckets, DOMAIN buckets)
    BY Typed DEF IInv
  <2>2. DOMAIN heap = 1 .. Len(heap) /\ \A k \in 1 .. Len(heap) : heap[k] \in DOMAIN buckets
    BY <2>1 DEF IsHeap
  <2>3. ToSet(heap) = DOMAIN buckets
    <3>1. \A id \in DOMAIN buckets : \E k \in 1 .. Len(heap) : heap[k] = id
      BY <2>1 DEF IsHeap
    <3>2. ToSet(heap) = {heap[k] : k \in 1 .. Len(heap)}
      BY <2>2 DEF ToSet
    <3> QED
      BY <3>1, <3>2, <2>2
  <2>4. IsInjective(heap)
    BY <2>1, <2>2 DEF IsInjective, IsHeap
  <2>5. \A id \in DOMAIN buckets : buckets[id].dateCreate <= buckets[heap[1]].dateCreate
    BY <2>1, YoungestFirst
  <2> QED
    BY <2>3, <2>4, <2>5 DEF HeapMirrorsBuckets
<1> QED
  BY <1>1, Invariance, PTL

\* A bucket marked stored is in the table as it is in memory, although messages are added
\* to it while it is being written (BucketManager.ts 280-307, Bucket.ts 83-107).
THEOREM StoredIsSaved == Spec => []StoredMeansSaved
<1>1. IInv => StoredMeansSaved
  BY DEF IInv
<1> QED
  BY <1>1, Invariance, PTL

\* The bucket of a message is in memory, to be written, or selected by every range that
\* starts no later than the bucket and ends no earlier than the message
\* (BucketManager.ts 144-181, 291-314, CassandraDBAdapter.ts 757-807).
THEOREM Findable == Spec => []MessagesAreFindable
<1>1. IInv => MessagesAreFindable
  <2> SUFFICES ASSUME IInv, NEW m \in Bucketed, NoTwin(messages[m].bucket),
                      messages[m].bucket \notin DOMAIN buckets,
                      NEW from \in 1 .. created[messages[m].bucket],
                      NEW to \in messages[m].timestamp .. MaxTimestamp
               PROVE  messages[m].bucket \in getBucketsByTimestamp(from, to)
    BY DEF MessagesAreFindable
  <2> DEFINE id == messages[m].bucket
             date == created[id]
             first == {d \in Timestamps : rows[d] # NoRow /\ d <= from}
             rest == {d \in Timestamps : rows[d] # NoRow /\ from < d /\ d <= to}
  <2>1. id \in Ids /\ id \in DOMAIN created /\ date <= messages[m].timestamp
    BY DEF IInv, DatesOK, Bucketed
  <2>2. date \in Timestamps /\ Timestamps \subseteq Nat /\ messages[m].timestamp \in Timestamps
    BY <2>1, Typed DEF IInv, Bucketed, Message, Timestamps
  <2>3. rows[date].id = id
    BY DEF IInv, Kept
  <2>4. rows[date] # NoRow
    BY <2>1, <2>3 DEF NoRow, Ids
  <2>5. from \in Nat /\ to \in Nat /\ from <= date /\ date <= to
    BY <2>1, <2>2, BucketAssumption DEF Timestamps
  <2>6. getBucketsByTimestamp(from, to) =
          {rows[d].id : d \in rest \cup (IF first = {} THEN {} ELSE {Max(first)})}
    BY DEF getBucketsByTimestamp
  <2> HIDE DEF date, id
  <2>7. CASE from < date
    <3>1. date \in rest
      BY <2>2, <2>4, <2>5, <2>7
    <3> HIDE DEF first, rest
    <3> QED
      BY <3>1, <2>3, <2>6 DEF id
  <2>8. CASE from = date
    <3>1. date \in first /\ first \subseteq Timestamps /\ \A d \in first : d <= date
      BY <2>2, <2>4, <2>5, <2>8
    <3> HIDE DEF first, rest
    <3>2. Max(first) \in first /\ \A d \in first : d <= Max(first)
      BY <3>1, LatestDate
    <3>3. Max(first) \in Nat /\ date \in Nat /\ Max(first) <= date /\ date <= Max(first)
      BY <3>1, <3>2, <2>2
    <3>4. Max(first) = date
      BY <3>3
    <3> QED
      BY <3>1, <3>4, <2>3, <2>6 DEF id
  <2> QED
    BY <2>2, <2>5, <2>7, <2>8
<1> QED
  BY <1>1, Invariance, PTL

=============================================================================
