--------------------------- MODULE PropagatorProofs ---------------------------
(***************************************************************************)
(* What module Propagator claims of a propagator, for any two stores in    *)
(* any order, any number and order of the primary's responses and any      *)
(* limit of items.                                                         *)
(***************************************************************************)
EXTENDS Propagator, FiniteSetTheorems, WellFoundedInduction, TLAPS

Has(c) == c.items \cup c.out

\* The responses on their way: what Chunker makes of the primary's store.  They are
\* numbered in the order they were sent, which is that of the primary's store, and the last
\* is final.
WireOK ==
    /\ IsFiniteSet(wire)
    /\ \A m \in wire : m.refs \subseteq primary
    /\ \A m, n \in wire : /\ m.no = n.no => m = n
                          /\ m.no < n.no => /\ ~m.isFinal
                                            /\ \A a \in m.refs, b \in n.refs : primaryAt[a] < primaryAt[b]
    /\ arrivals = 0 => \E m \in wire : m.isFinal

\* What the node has is still to be scanned or with the response Chunker; what waits in
\* the list has been scanned.
ScanOK ==
    /\ foreign = scan.left \cup Has(responseChunker)
    /\ foreignItems \cap scan.left = {}
    /\ isForeignFinalized <=> scan.state = "ended"
    /\ isForeignFinalized => scan.left = {}
    /\ responseChunker.isFinal => isForeignFinalized /\ responseChunker.items = {}

\* The primary's side of the list has been received.
ListOK ==
    /\ \A x \in primaryItems : x.ref \in Received /\ x.no <= arrivals
    /\ latestPrimary # Undefined => latestPrimary \in Received

\* Only when both sides are final is the stream ended, or a pipe told to end it.
StreamOK ==
    /\ propagationStream # "open" => isPrimaryFinalized /\ isForeignFinalized
    /\ \A q \in queryStreams : q.end => isPrimaryFinalized /\ isForeignFinalized
    /\ propagationStream = "closed" => propagationChunker.items = {}

\* Before the first response nothing is known of the primary.
Untouched ==
    arrivals = 0 => /\ ~isPrimaryFinalized /\ latestPrimary = Undefined
                    /\ queryStreams = {} /\ propagationStream = "open"

\* Ascending stores and responses in order.
Orderly == inOrder /\ Ascending

\* Then the responses that are still on the wire list what comes after all that was
\* received; what was received and is not scanned yet is waiting, in order, in the list.
OrderOK ==
    Orderly =>
        /\ \A m \in wire : \A a \in m.refs, x \in Received : x < a
        /\ isPrimaryFinalized => wire = {}
        /\ \A x, y \in primaryItems : y.ref < x.ref => y.no <= x.no
        /\ \A r \in Received \cap scan.left : \E x \in primaryItems : x.ref = r
        /\ foreignItems \cap Received = {}

\* A single response is final, so each doCheck after it empties the list, and only one
\* query is told to end the stream, or none.
SingleOK ==
    arrivals + Cardinality(wire) = 1 /\ arrivals # 0 =>
        /\ isPrimaryFinalized /\ foreignItems = {}
        /\ \A q \in queryStreams : q.end => queryStreams = {q}
        /\ propagationStream # "open" => queryStreams = {} /\ propagationStream # "destroyed"

IInv ==
    /\ TypeOK /\ WireOK /\ ScanOK /\ ListOK /\ StreamOK /\ Untouched
    /\ NothingForgotten /\ NeverAheadOfPrimary
    /\ OrderOK /\ OnlyMissingReleased
    /\ SingleOK

-----------------------------------------------------------------------------
(* Least and greatest references *)

\* A nonempty set of natural numbers has a least element.
LEMMA LeastNatural ==
  ASSUME NEW S, S \subseteq Nat, S # {}
  PROVE  \E x \in S : \A y \in S : x <= y
<1>1. PICK x \in S : \A y \in S : ~(<<y, x>> \in OpToRel(<, Nat))
  BY NatLessThanWellFounded, WFMin
<1>2. \A y, z \in Nat : y < z => <<y, z>> \in OpToRel(<, Nat)
  BY DEF OpToRel
<1>3. \A y \in S : ~(y < x)
  BY <1>1, <1>2
<1> QED
  BY <1>3

\* Some references have a greatest one.
LEMMA GreatestRef ==
  ASSUME NEW S, S \subseteq Refs, S # {}
  PROVE  \E x \in S : \A y \in S : y <= x
<1> DEFINE U == {n \in Nat : \A y \in S : y <= n}
<1>1. MaxRef \in U
  BY PropagatorAssumption DEF Refs
<1>2. PICK u \in U : \A v \in U : u <= v
  BY <1>1, LeastNatural
<1>3. ASSUME u \notin S
      PROVE  FALSE
  <2>1. u \in Nat /\ \A y \in S : y \in Nat /\ 1 <= y /\ y <= u /\ y # u
    BY <1>2, <1>3 DEF Refs
  <2>2. u - 1 \in U
    BY <2>1
  <2> QED
    BY <2>1, <2>2, <1>2
<1> QED
  BY <1>2, <1>3

\* The last of some references in the order of a store is one of them.
LEMMA LastIsIn ==
  ASSUME NEW S, NEW T, T \subseteq S, T # {}, NEW at \in [S -> Refs]
  PROVE  LastOf(T, at) \in T
<1> DEFINE U == {at[x] : x \in T}
<1>1. U \subseteq Refs /\ U # {}
  OBVIOUS
<1>2. PICK u \in U : \A v \in U : v <= u
  BY <1>1, GreatestRef
<1>3. \E x \in T : \A y \in T : at[y] <= at[x]
  BY <1>2
<1> QED
  BY <1>3 DEF LastOf

\* The reference the scan yields next: the first of those that are left.
LEMMA FirstIsIn ==
  ASSUME NEW S, NEW T, T \subseteq S, T # {}, NEW at \in [S -> Refs]
  PROVE  FirstOf(T, at) \in T /\ \A y \in T : at[FirstOf(T, at)] <= at[y]
<1> DEFINE U == {at[x] : x \in T}
<1>1. U \subseteq Nat /\ U # {}
  BY PropagatorAssumption DEF Refs
<1>2. PICK u \in U : \A v \in U : u <= v
  BY <1>1, LeastNatural
<1>3. \E x \in T : \A y \in T : at[x] <= at[y]
  BY <1>2
<1> QED
  BY <1>3 DEF FirstOf

\* In an ascending store the order of the positions is that of the references.
LEMMA SortedIsOrder ==
  ASSUME NEW S, S \subseteq Refs, NEW at \in [S -> Refs], Sorted(S, at), NEW a \in S, NEW b \in S
  PROVE  (at[a] < at[b] => a < b) /\ (at[a] <= at[b] => a <= b)
<1>1. a \in Int /\ b \in Int /\ at[a] \in Int /\ at[b] \in Int
  BY PropagatorAssumption DEF Refs
<1>2. (b < a => at[b] < at[a]) /\ (a < b => at[a] < at[b])
  BY DEF Sorted
<1> QED
  BY <1>1, <1>2

-----------------------------------------------------------------------------
(* The operators *)

\* What a Chunker has been given it still has or has handed over.
LEMMA ChunkerFields ==
  ASSUME NEW c \in ChunkerType(Refs), NEW r \in Refs, NEW full \in BOOLEAN
  PROVE  /\ Transform(c, r, full) \in ChunkerType(Refs)
         /\ Has(Transform(c, r, full)) = Has(c) \cup {r}
         /\ Transform(c, r, full).isFinal = c.isFinal
         /\ Finish(c) \in ChunkerType(Refs)
         /\ Has(Finish(c)) = Has(c)
         /\ Finish(c).items = {}
<1> DEFINE p == [c EXCEPT !.items = @ \cup {r}]
<1>1. p \in ChunkerType(Refs) /\ p.items = c.items \cup {r} /\ p.out = c.out
      /\ p.isFinal = c.isFinal
  BY DEF ChunkerType
<1>2. Transform(c, r, full) = p \/ Transform(c, r, full) = HandOver(p, FALSE)
  BY DEF Transform
<1>3. ASSUME NEW d \in ChunkerType(Refs), NEW final \in BOOLEAN
      PROVE  /\ HandOver(d, final) \in ChunkerType(Refs)
             /\ Has(HandOver(d, final)) = Has(d)
             /\ HandOver(d, final).items = {}
             /\ HandOver(d, final).isFinal = (d.isFinal \/ final)
  BY DEF HandOver, ChunkerType, Has
<1>4. Has(p) = Has(c) \cup {r}
  BY <1>1 DEF Has
<1> HIDE DEF p
<1>5. HandOver(p, FALSE).isFinal = c.isFinal
  BY <1>1, <1>3 DEF ChunkerType
<1>6. HandOver(p, FALSE) \in ChunkerType(Refs) /\ Has(HandOver(p, FALSE)) = Has(p)
  BY <1>1, <1>3
<1>7. /\ Transform(c, r, full) \in ChunkerType(Refs)
      /\ Has(Transform(c, r, full)) = Has(c) \cup {r}
      /\ Transform(c, r, full).isFinal = c.isFinal
  BY <1>1, <1>2, <1>4, <1>5, <1>6
<1> QED
  BY <1>3, <1>7 DEF Finish

\* What doCheck does with the references it takes off the list: a query of them is
\* started, told to end the stream if both sides are final; the stream is ended only if
\* there is nothing to query, both sides are final and no query runs.
Checked(items, latest, pf, ff, streams, stream, diff) ==
    /\ foreignItems' = items \ diff
    /\ \A r \in diff : pf \/ (latest \in Refs /\ r <= latest)
    /\ pf => diff = items
    /\ queryStreams' \subseteq QueryStream
    /\ Left(queryStreams') = Left(streams) \cup diff
    /\ \/ diff = {} /\ queryStreams' = streams
       \/ \E q \in QueryStream : /\ queryStreams' = streams \cup {q}
                                 /\ diff # {} /\ (q.end <=> pf /\ ff)
    /\ \/ propagationStream' = stream
       \/ /\ propagationStream' = "ending" /\ stream = "open"
          /\ diff = {} /\ pf /\ ff /\ streams = {}

\* doCheck does what Checked says.
LEMMA DoCheckFields ==
  ASSUME NEW items, items \subseteq Refs,
         NEW latest \in Refs \cup {Undefined}, NEW pf \in BOOLEAN, NEW ff \in BOOLEAN,
         NEW streams, streams \subseteq QueryStream, NEW stream,
         doCheck(items, latest, pf, ff, streams, stream)
  PROVE  \E diff \in SUBSET items :
            Checked(items, latest, pf, ff, streams, stream, diff)
<1> DEFINE diff == getDiff(items, latest, pf)
           q == [asked |-> diff, left |-> diff, end |-> pf /\ ff, failed |-> FALSE]
<1>1. /\ diff \in SUBSET items
      /\ pf => diff = items
      /\ \A r \in diff : pf \/ (latest \in Refs /\ r <= latest)
  BY DEF getDiff
<1>2. q \in QueryStream /\ q.left = diff /\ (q.end <=> pf /\ ff)
  <2>1. diff \in SUBSET Refs
    BY <1>1
  <2> HIDE DEF diff
  <2> QED
    BY <2>1 DEF QueryStream
<1>3. /\ foreignItems' = items \ diff
      /\ queryStreams' = IF diff = {} THEN streams ELSE streams \cup {q}
      /\ \/ propagationStream' = stream
         \/ /\ propagationStream' = "ending" /\ stream = "open"
            /\ diff = {} /\ pf /\ ff /\ streams = {}
  BY DEF doCheck
<1> HIDE DEF diff, q
<1>4. Left(streams \cup {q}) = Left(streams) \cup diff
  BY <1>2 DEF Left
<1>5. queryStreams' \subseteq QueryStream /\ Left(queryStreams') = Left(streams) \cup diff
  BY <1>2, <1>3, <1>4
<1>6. \/ diff = {} /\ queryStreams' = streams
      \/ \E p \in QueryStream : /\ queryStreams' = streams \cup {p}
                                /\ diff # {} /\ (p.end <=> pf /\ ff)
  BY <1>2, <1>3
<1> QED
  BY <1>1, <1>3, <1>5, <1>6 DEF Checked

\* The set of streams when one of them changes.
LEMMA LeftOfReplaced ==
  ASSUME NEW streams, NEW q \in streams, NEW p
  PROVE  /\ Left((streams \ {q}) \cup {p}) \subseteq Left(streams) \cup p.left
         /\ Left(streams) \subseteq Left((streams \ {q}) \cup {p}) \cup q.left
         /\ p.left \subseteq Left((streams \ {q}) \cup {p})
         /\ q.left \subseteq Left(streams)
  BY DEF Left

-----------------------------------------------------------------------------
(* The initial state *)

\* The responses are numbered in the order of their references.
LEMMA ResponsesAreOrdered ==
  ASSUME NEW S, S \subseteq Refs, NEW at \in [S -> Refs], NEW cuts, cuts \subseteq Refs,
         Cardinality(cuts) <= MaxCuts, wire = ResponsesOf(S, at, cuts)
  PROVE  /\ wire \subseteq [no : 0..MaxCuts, refs : SUBSET Refs, isFinal : BOOLEAN]
         /\ \A m \in wire : m.refs \subseteq S
         /\ \A m, n \in wire :
               /\ m.no = n.no => m = n
               /\ m.no < n.no => ~m.isFinal /\ \A a \in m.refs, b \in n.refs : at[a] < at[b]
         /\ \E m \in wire : m.isFinal
         /\ \A r \in S : \E m \in wire : r \in m.refs
<1> DEFINE ends == cuts \cup {MaxRef + 1}
           Below(e) == {c \in cuts : c < e}
           Group(e) == {r \in S : at[r] <= e /\ \A c \in cuts : c < e => c < at[r]}
           Resp(e) == [no |-> Cardinality(Below(e)), refs |-> Group(e),
                       isFinal |-> e = MaxRef + 1]
<1>1. wire = {Resp(e) : e \in ends}
  BY DEF ResponsesOf
<1>2. /\ MaxRef \in Nat /\ MaxCuts \in Nat
      /\ \A c \in cuts : c \in Nat /\ 1 <= c /\ c <= MaxRef
      /\ \A r \in S : at[r] \in Nat /\ at[r] <= MaxRef
      /\ \A e \in ends : e \in Nat
  BY PropagatorAssumption DEF Refs
<1>3. IsFiniteSet(cuts)
  <2>1. IsFiniteSet(Refs) /\ cuts \in SUBSET Refs
    BY <1>2, FS_Interval DEF Refs
  <2> QED
    BY <2>1, FS_Subset
<1>4. ASSUME NEW e \in ends
      PROVE  IsFiniteSet(Below(e)) /\ Cardinality(Below(e)) \in 0..MaxCuts
  <2>1. Below(e) \in SUBSET cuts
    OBVIOUS
  <2>2. IsFiniteSet(Below(e)) /\ Cardinality(Below(e)) <= Cardinality(cuts)
    BY <1>3, <2>1, FS_Subset
  <2>3. Cardinality(Below(e)) \in Nat /\ Cardinality(cuts) \in Nat
    BY <1>3, <2>2, FS_CardinalityType
  <2> QED
    BY <1>2, <2>2, <2>3
<1>5. ASSUME NEW d \in ends, NEW e \in ends, d < e
      PROVE  d \in cuts /\ Cardinality(Below(d)) < Cardinality(Below(e))
  <2>1. d \in cuts
    BY <1>2, <1>5
  <2>2. Below(d) \in SUBSET Below(e) /\ d \in Below(e) /\ d \notin Below(d)
    BY <1>2, <1>5, <2>1
  <2>3. /\ Cardinality(Below(d)) <= Cardinality(Below(e))
        /\ Cardinality(Below(e)) = Cardinality(Below(d)) => Below(e) = Below(d)
    BY <1>4, <2>2, FS_Subset
  <2>4. Cardinality(Below(d)) \in Nat /\ Cardinality(Below(e)) \in Nat
    BY <1>4
  <2> QED
    BY <2>1, <2>2, <2>3, <2>4
<1>6. ASSUME NEW e \in ends
      PROVE  /\ Group(e) \subseteq S
             /\ Resp(e) \in [no : 0..MaxCuts, refs : SUBSET Refs, isFinal : BOOLEAN]
  BY <1>4
<1>7. ASSUME NEW d \in ends, NEW e \in ends
      PROVE  /\ Resp(d).no = Resp(e).no => Resp(d) = Resp(e)
             /\ Resp(d).no < Resp(e).no
                => ~Resp(d).isFinal /\ \A a \in Resp(d).refs, b \in Resp(e).refs : at[a] < at[b]
  <2>1. /\ Resp(d).no = Cardinality(Below(d)) /\ Resp(e).no = Cardinality(Below(e))
        /\ Cardinality(Below(d)) \in Nat /\ Cardinality(Below(e)) \in Nat
        /\ d \in Nat /\ e \in Nat
    BY <1>2, <1>4
  <2>2. CASE d = e
    BY <2>1, <2>2
  <2>3. CASE e < d
    <3>1. Cardinality(Below(e)) < Cardinality(Below(d))
      BY <2>3, <1>5
    <3> HIDE DEF Below
    <3> QED
      BY <2>1, <3>1
  <2>4. CASE d < e
    <3>1. d \in cuts /\ Resp(d).no < Resp(e).no
      <4>1. d \in cuts /\ Cardinality(Below(d)) < Cardinality(Below(e))
        BY <2>4, <1>5
      <4> HIDE DEF Below
      <4> QED
        BY <2>1, <4>1
    <3>2. ~Resp(d).isFinal
      <4>1. d # MaxRef + 1
        BY <3>1, <1>2
      <4> QED
        BY <4>1
    <3>3. \A a \in Group(d), b \in Group(e) : at[a] <= d /\ d < at[b] /\ at[a] \in Nat /\ at[b] \in Nat
      BY <3>1, <2>4, <1>2
    <3>4. Resp(d).refs = Group(d) /\ Resp(e).refs = Group(e)
      OBVIOUS
    <3>5. \A a \in Resp(d).refs, b \in Resp(e).refs : at[a] < at[b]
      BY <3>3, <3>4, <2>1
    <3> QED
      BY <2>1, <3>1, <3>2, <3>5
  <2> QED
    BY <2>1, <2>2, <2>3, <2>4
<1>8. MaxRef + 1 \in ends /\ Resp(MaxRef + 1).isFinal
  OBVIOUS
<1>9. \A e \in ends : Resp(e).refs \subseteq S
  BY <1>6
<1>10. ASSUME NEW r \in S
       PROVE  \E e \in ends : r \in Resp(e).refs
  <2> DEFINE E == {e \in ends : at[r] <= e}
  <2>a. at[r] \in Nat /\ at[r] <= MaxRef /\ MaxRef + 1 \in ends
    BY <1>2 DEF Refs
  <2>1. E \subseteq Nat /\ MaxRef + 1 \in E
    <3>1. at[r] <= MaxRef + 1
      BY <2>a, <1>2
    <3> HIDE DEF ends
    <3> QED
      BY <3>1, <2>a, <1>2
  <2>2. PICK e \in E : \A d \in E : e <= d
    BY <2>1, LeastNatural
  <2>3. ASSUME NEW c \in cuts, c < e
        PROVE  c < at[r]
    <3>1. c \in Nat /\ e \in Nat /\ at[r] \in Nat /\ c \in ends
      BY <1>2
    <3>2. c \notin E
      BY <3>1, <2>2, <2>3
    <3> QED
      BY <3>1, <3>2
  <2>4. r \in Group(e)
    BY <2>2, <2>3
  <2> QED
    BY <2>2, <2>4
<1> HIDE DEF Resp, ends
<1> QED
  BY <1>1, <1>6, <1>7, <1>8, <1>9, <1>10

\* The invariant holds when the propagator is created.
LEMMA InitIInv ==
  ASSUME Init
  PROVE  IInv
<1>1. PICK cuts \in SUBSET (1..Cardinality(primary)) :
         Cardinality(cuts) <= MaxCuts /\ wire = ResponsesOf(primary, primaryAt, cuts)
  BY DEF Init
<1>2. /\ primary \subseteq Refs /\ foreign \subseteq Refs /\ hidden \subseteq foreign
      /\ primaryAt \in [primary -> Refs] /\ foreignAt \in [foreign -> Refs]
      /\ cuts \subseteq Refs
  <2>1. \A S \in SUBSET Refs : 1..Cardinality(S) \subseteq Refs
    <3> SUFFICES ASSUME NEW S \in SUBSET Refs
                 PROVE  1..Cardinality(S) \subseteq Refs
      OBVIOUS
    <3>1. IsFiniteSet(Refs) /\ Cardinality(Refs) = MaxRef
      BY PropagatorAssumption, FS_Interval DEF Refs
    <3>2. Cardinality(S) <= MaxRef /\ Cardinality(S) \in Nat
      BY <3>1, FS_Subset, FS_CardinalityType
    <3> QED
      BY <3>2, PropagatorAssumption DEF Refs
  <2>2. primary \in SUBSET Refs /\ foreign \in SUBSET Refs /\ hidden \subseteq foreign
    BY DEF Init
  <2>3. /\ primaryAt \in [primary -> 1..Cardinality(primary)]
        /\ foreignAt \in [foreign -> 1..Cardinality(foreign)]
    BY DEF Init, Orders, Bijection, Injection
  <2> QED
    BY <2>1, <2>2, <2>3
<1>3. /\ wire \subseteq [no : 0..MaxCuts, refs : SUBSET Refs, isFinal : BOOLEAN]
      /\ \A m \in wire : m.refs \subseteq primary
      /\ \A m, n \in wire :
            /\ m.no = n.no => m = n
            /\ m.no < n.no => /\ ~m.isFinal
                              /\ \A a \in m.refs, b \in n.refs : primaryAt[a] < primaryAt[b]
      /\ \E m \in wire : m.isFinal
      /\ \A r \in primary : \E m \in wire : r \in m.refs
  BY <1>1, <1>2, ResponsesAreOrdered
<1>4. IsFiniteSet(wire)
  <2> DEFINE f == [m \in wire |-> m.no]
  <2>1. f \in Injection(wire, 0..MaxCuts)
    BY <1>3 DEF Injection, IsInjective
  <2>2. IsFiniteSet(0..MaxCuts)
    BY FS_Interval, PropagatorAssumption
  <2> QED
    BY <2>1, <2>2, FS_Injection
<1>5. WireOK
  BY <1>3, <1>4 DEF WireOK
<1>6. NewChunker \in ChunkerType(Refs) /\ Has(NewChunker) = {}
      /\ NewChunker.items = {} /\ NewChunker.out = {} /\ NewChunker.isFinal = FALSE
  BY DEF NewChunker, ChunkerType, Has
<1>7. TypeOK
  BY <1>2, <1>3, <1>6 DEF Init, TypeOK, Undefined
<1>8. ScanOK
  BY <1>6 DEF Init, ScanOK
<1>9. Released = {}
  BY <1>6 DEF Init, Released, Left
<1>10. Received = {}
  BY <1>3 DEF Received
<1>11. ListOK /\ StreamOK /\ Untouched
  BY DEF Init, ListOK, StreamOK, Untouched
<1>12. NothingForgotten /\ NeverAheadOfPrimary /\ OnlyMissingReleased
  BY <1>9 DEF Init, NothingForgotten, NeverAheadOfPrimary, OnlyMissingReleased, Missing
<1>13. OrderOK
  BY <1>10 DEF Init, OrderOK
<1>14. SingleOK
  BY DEF Init, SingleOK
<1> QED
  BY <1>5, <1>7, <1>8, <1>11, <1>12, <1>13, <1>14 DEF IInv

-----------------------------------------------------------------------------
(* The steps *)

\* What doCheck keeps: called when the event has been applied to the list, on the streams
\* but for one that has nothing left to find.
LEMMA CheckStep ==
  ASSUME IInv, NEW items, items \subseteq Refs,
         NEW streams, streams \subseteq queryStreams, Left(queryStreams) \subseteq Left(streams) \cup hidden,
         NEW stream, stream \in {"open", "ending"},
         doCheck(items, latestPrimary', isPrimaryFinalized', isForeignFinalized', streams,
                 stream),
         UNCHANGED <<store, propagationChunker>>,
         latestPrimary' \in Refs \cup {Undefined},
         isPrimaryFinalized' \in BOOLEAN, isForeignFinalized' \in BOOLEAN,
         isPrimaryFinalized => isPrimaryFinalized',
         isForeignFinalized => isForeignFinalized',
         stream = "ending" => isPrimaryFinalized' /\ isForeignFinalized',
         Received \subseteq Received',
         latestPrimary' # Undefined => latestPrimary' \in Received',
         Missing \subseteq scan'.left \cup items \cup Released,
         Orderly' => /\ Orderly /\ items \cap Received' = {}
                     /\ isPrimaryFinalized' => wire' = {}
                     /\ \A m \in wire' : \A a \in m.refs, x \in Received' : x < a
  PROVE  /\ foreignItems' \subseteq items
         /\ isPrimaryFinalized' => foreignItems' = {}
         /\ queryStreams' \subseteq QueryStream
         /\ propagationStream' \in {"open", "ending"}
         /\ StreamOK'
         /\ NothingForgotten' /\ NeverAheadOfPrimary' /\ OnlyMissingReleased'
<1>1. streams \subseteq QueryStream
  BY DEF IInv, TypeOK
<1>2. PICK diff \in SUBSET items :
         Checked(items, latestPrimary', isPrimaryFinalized', isForeignFinalized', streams,
                 stream, diff)
  BY <1>1, DoCheckFields
<1>3. propagationStream' \in {"open", "ending"}
      /\ (propagationStream' = "ending" => isPrimaryFinalized' /\ isForeignFinalized')
  BY <1>2 DEF Checked
<1>4. \A q \in queryStreams' : q.end => isPrimaryFinalized' /\ isForeignFinalized'
  BY <1>2 DEF IInv, StreamOK, Checked
<1>5. StreamOK'
  BY <1>3, <1>4 DEF StreamOK
<1>6. Released' \subseteq Released \cup diff /\ Released \cup diff \subseteq Released' \cup hidden
  <2>1. Left(streams) \subseteq Left(queryStreams)
    BY DEF Left
  <2> QED
    BY <1>2, <2>1 DEF Released, Checked
<1>7. NothingForgotten'
  BY <1>2, <1>3, <1>6 DEF NothingForgotten, Missing, store, Checked
<1>8. ASSUME NEW r \in diff, ~isPrimaryFinalized'
      PROVE  latestPrimary' \in Received' /\ r <= latestPrimary'
  <2>1. latestPrimary' \in Refs /\ r <= latestPrimary'
    BY <1>2, <1>8 DEF Checked
  <2>2. latestPrimary' # Undefined
    BY <2>1 DEF Refs, Undefined
  <2> QED
    BY <2>1, <2>2
<1>9. NeverAheadOfPrimary'
  <2> SUFFICES ASSUME NEW r \in Released', ~isPrimaryFinalized'
               PROVE  \E x \in Received' : r <= x
    BY DEF NeverAheadOfPrimary
  <2>1. CASE r \in diff
    BY <2>1, <1>8
  <2>2. CASE r \in Released
    BY <2>2 DEF IInv, NeverAheadOfPrimary
  <2> QED
    BY <1>6, <2>1, <2>2
<1>10. OnlyMissingReleased'
  <2> SUFFICES ASSUME Orderly', NEW r \in diff, r \in primary'
               PROVE  FALSE
    BY <1>6 DEF OnlyMissingReleased, Orderly, IInv, store
  <2>1. r \notin Received'
    OBVIOUS
  <2>2. PICK m \in wire' : r \in m.refs
    BY <2>1 DEF Received
  <2>3. ~isPrimaryFinalized'
    BY <2>2
  <2>4. latestPrimary' \in Received' /\ r <= latestPrimary'
    BY <2>3, <1>8
  <2>5. latestPrimary' < r
    BY <2>2, <2>4
  <2>6. latestPrimary' \in Int /\ r \in Int
    BY PropagatorAssumption DEF Refs, Undefined
  <2> QED
    BY <2>4, <2>5, <2>6
<1> QED
  BY <1>2, <1>3, <1>5, <1>7, <1>9, <1>10 DEF Checked

\* A response leaves the wire: its references have been received, no other lists them.
LEMMA ResponseLeaves ==
  ASSUME IInv, NEW m \in wire, onPrimaryResponse(m)
  PROVE  /\ Received' = Received \cup m.refs
         /\ WireOK'
         /\ m.refs \subseteq primary /\ m.refs \subseteq Refs
         /\ arrivals \in Nat /\ arrivals' = arrivals + 1
         /\ arrivals' + Cardinality(wire') = arrivals + Cardinality(wire)
         /\ arrivals + Cardinality(wire) = 1 => arrivals = 0 /\ m.isFinal
         /\ inOrder' => inOrder /\ \A n \in wire' : m.no < n.no
<1>1. wire' = wire \ {m} /\ arrivals' = arrivals + 1 /\ UNCHANGED <<primary, primaryAt>>
  BY DEF onPrimaryResponse, store
<1>2. /\ wire \subseteq [no : 0..MaxCuts, refs : SUBSET Refs, isFinal : BOOLEAN]
      /\ arrivals \in Nat /\ primaryAt \in [primary -> Refs]
  BY DEF IInv, TypeOK
<1>3. /\ IsFiniteSet(wire)
      /\ \A n \in wire : n.refs \subseteq primary
      /\ \A n, k \in wire : /\ n.no = k.no => n = k
                            /\ n.no < k.no => /\ ~n.isFinal
                                              /\ \A a \in n.refs, b \in k.refs : primaryAt[a] < primaryAt[b]
      /\ arrivals = 0 => \E n \in wire : n.isFinal
  BY DEF IInv, WireOK
<1>4. ASSUME NEW n \in wire'
      PROVE  m.no < n.no \/ n.no < m.no
  <2>1. n \in wire /\ n # m
    BY <1>1
  <2>2. n.no # m.no
    BY <1>3, <2>1
  <2>3. n.no \in Int /\ m.no \in Int
    BY <1>2, <2>1
  <2> QED
    BY <2>2, <2>3
<1>5. ASSUME NEW n \in wire', NEW a \in n.refs
      PROVE  a \notin m.refs
  <2>1. n \in wire
    BY <1>1
  <2>2. a \in m.refs => primaryAt[a] < primaryAt[a]
    BY <1>3, <1>4, <2>1
  <2>3. primaryAt[a] \in Int
    BY <1>2, <1>3, <2>1, PropagatorAssumption DEF Refs
  <2> QED
    BY <2>2, <2>3
<1>6. m.refs \subseteq primary /\ m.refs \subseteq Refs
  BY <1>2, <1>3
<1>7. Received' = Received \cup m.refs
  BY <1>1, <1>5, <1>6 DEF Received
<1>8. /\ IsFiniteSet(wire') /\ Cardinality(wire') = Cardinality(wire) - 1
      /\ Cardinality(wire) \in Nat /\ Cardinality(wire') \in Nat
  BY <1>1, <1>3, FS_RemoveElement, FS_CardinalityType
<1>9. arrivals' + Cardinality(wire') = arrivals + Cardinality(wire) /\ arrivals' # 0
  BY <1>1, <1>2, <1>8
<1>10. ASSUME arrivals + Cardinality(wire) = 1
       PROVE  arrivals = 0 /\ m.isFinal
  <2>1. arrivals = 0 /\ Cardinality(wire') = 0
    BY <1>10, <1>2, <1>8
  <2>2. wire' = {}
    BY <2>1, <1>8, FS_EmptySet
  <2> QED
    BY <2>1, <2>2, <1>1, <1>3
<1>11. WireOK'
  BY <1>1, <1>3, <1>8, <1>9 DEF WireOK
<1>12. ASSUME inOrder', NEW n \in wire'
       PROVE  inOrder /\ m.no < n.no
  <2>1. inOrder /\ m.no <= n.no
    BY <1>1, <1>12 DEF onPrimaryResponse
  <2>2. m.no \in Int /\ n.no \in Int
    BY <1>1, <1>2
  <2> QED
    BY <2>1, <2>2, <1>4
<1>13. inOrder' => inOrder
  BY DEF onPrimaryResponse
<1> QED
  BY <1>1, <1>2, <1>6, <1>7, <1>9, <1>10, <1>11, <1>12, <1>13

\* A closed propagator: both sides were final, so the response was overtaken.
LEMMA ResponseDropped ==
  ASSUME IInv, NEW m \in wire, onPrimaryResponse(m),
         propagationStream \in {"closed", "destroyed"}
  PROVE  IInv'
<1>1. /\ Received' = Received \cup m.refs /\ WireOK'
      /\ m.refs \subseteq primary
      /\ arrivals \in Nat /\ arrivals' = arrivals + 1
      /\ arrivals' + Cardinality(wire') = arrivals + Cardinality(wire)
      /\ arrivals + Cardinality(wire) = 1 => arrivals = 0 /\ m.isFinal
      /\ inOrder' => inOrder
  BY ResponseLeaves
<1>2. /\ UNCHANGED <<listVars, queryStreams, propagationStream, store, scan,
                     responseChunker, propagationChunker>>
      /\ wire' = wire \ {m} /\ inOrder' \in BOOLEAN
  BY DEF onPrimaryResponse
<1>3. isPrimaryFinalized /\ isForeignFinalized
  BY DEF IInv, StreamOK
<1>4. ~Orderly'
  BY <1>1, <1>2, <1>3 DEF IInv, OrderOK, Orderly, Ascending, store
<1>5. arrivals # 0 /\ arrivals' # 0
  BY <1>1 DEF IInv, Untouched
<1> USE <1>2 DEF IInv, listVars, store
<1>6. TypeOK'
  BY <1>1 DEF TypeOK
<1>7. ScanOK'
  BY DEF ScanOK
<1>8. ListOK'
  <2>1. \A x \in primaryItems : x.no \in Nat
    BY DEF TypeOK
  <2> QED
    BY <1>1, <2>1 DEF ListOK
<1>9. StreamOK'
  BY DEF StreamOK
<1>10. Untouched' /\ OrderOK' /\ OnlyMissingReleased'
  BY <1>4, <1>5 DEF Untouched, OrderOK, OnlyMissingReleased, Orderly
<1>11. Released' = Released
  BY DEF Released
<1>12. NothingForgotten' /\ NeverAheadOfPrimary'
  BY <1>3, <1>11 DEF NothingForgotten, NeverAheadOfPrimary, Missing
<1>13. SingleOK'
  BY <1>1, <1>5 DEF SingleOK
<1> QED
  BY <1>1, <1>6, <1>7, <1>8, <1>9, <1>10, <1>12, <1>13

\* The list takes the response.
LEMMA ResponseTaken ==
  ASSUME IInv, NEW m \in wire, onPrimaryResponse(m),
         propagationStream \notin {"closed", "destroyed"}
  PROVE  IInv'
<1> DEFINE latest == IF m.refs = {} THEN latestPrimary ELSE LastOf(m.refs, primaryAt)
           final == isPrimaryFinalized \/ m.isFinal
           items == ForeignAfter(m.refs)
<1>1. /\ Received' = Received \cup m.refs /\ WireOK'
      /\ m.refs \subseteq primary /\ m.refs \subseteq Refs
      /\ arrivals \in Nat /\ arrivals' = arrivals + 1
      /\ arrivals' + Cardinality(wire') = arrivals + Cardinality(wire)
      /\ arrivals + Cardinality(wire) = 1 => arrivals = 0 /\ m.isFinal
      /\ inOrder' => inOrder /\ \A n \in wire' : m.no < n.no
  BY ResponseLeaves
<1>2. /\ UNCHANGED <<store, scan, responseChunker, propagationChunker, isForeignFinalized>>
      /\ primaryItems' = PrimaryAfter(m.refs)
      /\ latestPrimary' = latest
      /\ isPrimaryFinalized' = final
      /\ doCheck(items, latest, final, isForeignFinalized, queryStreams, propagationStream)
      /\ wire' = wire \ {m} /\ inOrder' \in BOOLEAN
  BY DEF onPrimaryResponse
<1>3. TypeOK
  BY DEF IInv
<1>4. m.isFinal \in BOOLEAN /\ isPrimaryFinalized \in BOOLEAN
  BY <1>3 DEF TypeOK
<1>5. isPrimaryFinalized' \in BOOLEAN /\ (m.isFinal => isPrimaryFinalized')
      /\ (isPrimaryFinalized => isPrimaryFinalized')
  BY <1>2, <1>4
<1>6. /\ latestPrimary' \in Refs \cup {Undefined}
      /\ latestPrimary' # Undefined => latestPrimary' \in Received'
  <2>1. CASE m.refs = {}
    BY <2>1, <1>1, <1>2, <1>3 DEF TypeOK, IInv, ListOK
  <2>2. CASE m.refs # {}
    <3>1. primaryAt \in [primary -> Refs]
      BY <1>3 DEF TypeOK
    <3>2. latestPrimary' = LastOf(m.refs, primaryAt) /\ LastOf(m.refs, primaryAt) \in m.refs
      BY <2>2, <3>1, <1>1, <1>2, LastIsIn
    <3> QED
      BY <3>2, <1>1
  <2> QED
    BY <2>1, <2>2
<1> HIDE DEF latest, final
<1>7. items = foreignItems \ m.refs /\ items \subseteq Refs
  BY <1>3 DEF ForeignAfter, TypeOK
<1> HIDE DEF items
<1>8. ASSUME Orderly'
      PROVE  /\ Orderly /\ items \cap Received' = {}
             /\ isPrimaryFinalized' => wire' = {}
             /\ \A n \in wire' : \A a \in n.refs, x \in Received' : x < a
  <2>1. Orderly /\ OrderOK /\ WireOK
    BY <1>1, <1>2, <1>8 DEF IInv, Orderly, Ascending, store
  <2>2. items \cap Received' = {}
    BY <2>1, <1>1, <1>7 DEF OrderOK
  <2>3. ASSUME NEW n \in wire'
        PROVE  /\ ~isPrimaryFinalized'
               /\ \A a \in n.refs, x \in Received' : x < a
    <3>1. m.no < n.no /\ n \in wire
      BY <1>1, <1>2, <1>8 DEF Orderly
    <3>a. /\ ~m.isFinal /\ n.refs \subseteq primary
          /\ \A a \in m.refs, b \in n.refs : primaryAt[a] < primaryAt[b]
      BY <3>1, <2>1 DEF WireOK
    <3>b. primary \subseteq Refs /\ primaryAt \in [primary -> Refs] /\ Sorted(primary, primaryAt)
      BY <1>3, <2>1 DEF TypeOK, Orderly, Ascending
    <3>2. ~m.isFinal /\ \A a \in m.refs, b \in n.refs : a < b
      BY <3>a, <3>b, <1>1, SortedIsOrder
    <3>3. ~isPrimaryFinalized /\ \A a \in n.refs, x \in Received : x < a
      BY <3>1, <2>1 DEF OrderOK
    <3> QED
      BY <3>2, <3>3, <1>1, <1>2 DEF final
  <2> QED
    BY <2>1, <2>2, <2>3
<1>9. isForeignFinalized' \in BOOLEAN /\ isForeignFinalized' = isForeignFinalized
  BY <1>2, <1>3 DEF TypeOK
<1>10. /\ propagationStream \in {"open", "ending"}
       /\ propagationStream = "ending" => isPrimaryFinalized' /\ isForeignFinalized'
  BY <1>3, <1>5, <1>9 DEF IInv, TypeOK, StreamOK
<1>11. Missing \subseteq scan'.left \cup items \cup Released
  <2>1. Missing \subseteq scan.left \cup foreignItems \cup Released
    BY <1>10 DEF IInv, NothingForgotten
  <2> QED
    BY <2>1, <1>1, <1>2, <1>7 DEF Missing
<1>12. doCheck(items, latestPrimary', isPrimaryFinalized', isForeignFinalized', queryStreams,
               propagationStream)
  BY <1>2, <1>9
<1>13. UNCHANGED <<store, propagationChunker>> /\ Received \subseteq Received'
  BY <1>1, <1>2
<1>14. /\ foreignItems' \subseteq items
       /\ isPrimaryFinalized' => foreignItems' = {}
       /\ queryStreams' \subseteq QueryStream
       /\ propagationStream' \in {"open", "ending"}
       /\ StreamOK'
       /\ NothingForgotten' /\ NeverAheadOfPrimary' /\ OnlyMissingReleased'
  BY <1>5, <1>6, <1>7, <1>8, <1>9, <1>10, <1>11, <1>12, <1>13, CheckStep
<1>15. \A x : x \in primaryItems' <=>
              x \in primaryItems \/ \E r \in m.refs \ foreignItems :
                                       x = [no |-> arrivals + 1, ref |-> r]
  BY <1>2 DEF PrimaryAfter
<1>16. primaryItems' \subseteq [no : Nat, ref : Refs]
  BY <1>1, <1>3, <1>15 DEF TypeOK
<1>17. TypeOK'
  BY <1>1, <1>2, <1>3, <1>5, <1>6, <1>7, <1>14, <1>16 DEF TypeOK, store
<1>18. ScanOK'
  BY <1>2, <1>7, <1>14 DEF IInv, ScanOK, store
<1>19. ListOK'
  <2>1. ASSUME NEW x \in primaryItems'
        PROVE  x.ref \in Received' /\ x.no <= arrivals'
    <3>1. CASE x \in primaryItems
      <4>1. x.no \in Nat /\ x.ref \in Received /\ x.no <= arrivals
        BY <3>1, <1>3 DEF TypeOK, IInv, ListOK
      <4> QED
        BY <4>1, <1>1
    <3>2. CASE x \notin primaryItems
      BY <3>2, <1>1, <1>15
    <3> QED
      BY <3>1, <3>2
  <2> QED
    BY <2>1, <1>6 DEF ListOK
<1>20. Untouched'
  BY <1>1 DEF Untouched
<1>21. OrderOK'
  <2> SUFFICES ASSUME Orderly'
               PROVE  /\ \A x, y \in primaryItems' : y.ref < x.ref => y.no <= x.no
                      /\ \A r \in Received' \cap scan'.left :
                             \E x \in primaryItems' : x.ref = r
                      /\ foreignItems' \cap Received' = {}
    BY <1>8 DEF OrderOK
  <2>1. Orderly /\ OrderOK /\ ListOK /\ ScanOK
    BY <1>8 DEF IInv
  <2>2. ASSUME NEW x \in primaryItems', NEW y \in primaryItems', y.ref < x.ref
        PROVE  y.no <= x.no
    <3>1. CASE x \notin primaryItems
      <4>1. x.no = arrivals + 1
        BY <3>1, <1>15
      <4> QED
        BY <4>1, <1>1, <1>19 DEF ListOK
    <3>2. CASE x \in primaryItems /\ y \in primaryItems
      BY <3>2, <2>1, <2>2 DEF OrderOK
    <3>3. CASE x \in primaryItems /\ y \notin primaryItems
      <4>1. x.ref \in Received /\ y.ref \in m.refs
        BY <3>3, <2>1, <1>15 DEF ListOK
      <4>2. x.ref < y.ref
        BY <4>1, <2>1 DEF OrderOK
      <4>3. x.ref \in Int /\ y.ref \in Int
        BY <1>16, PropagatorAssumption DEF Refs
      <4> QED
        BY <4>2, <4>3, <2>2
    <3> QED
      BY <3>1, <3>2, <3>3
  <2>3. ASSUME NEW r \in Received', r \in scan'.left
        PROVE  \E x \in primaryItems' : x.ref = r
    <3>1. CASE r \in Received
      BY <3>1, <2>1, <2>3, <1>2, <1>15 DEF OrderOK
    <3>2. CASE r \in m.refs
      <4>1. r \notin foreignItems
        BY <2>1, <2>3, <1>2 DEF ScanOK
      <4>2. [no |-> arrivals + 1, ref |-> r] \in primaryItems'
        BY <4>1, <3>2, <1>15
      <4> QED
        BY <4>2
    <3> QED
      BY <3>1, <3>2, <2>3, <1>1
  <2> QED
    BY <2>2, <2>3, <1>8, <1>14
<1>22. SingleOK'
  <2> SUFFICES ASSUME arrivals' + Cardinality(wire') = 1
               PROVE  /\ isPrimaryFinalized' /\ foreignItems' = {}
                      /\ \A q \in queryStreams' : q.end => queryStreams' = {q}
                      /\ propagationStream' # "open"
                         => queryStreams' = {} /\ propagationStream' # "destroyed"
    BY DEF SingleOK
  <2>1. arrivals = 0 /\ isPrimaryFinalized'
    BY <1>1, <1>5
  <2>2. queryStreams = {} /\ propagationStream = "open"
    BY <2>1 DEF IInv, Untouched
  <2>3. queryStreams \subseteq QueryStream
    BY <2>2
  <2>4. PICK diff \in SUBSET items :
           Checked(items, latestPrimary', isPrimaryFinalized', isForeignFinalized',
                   queryStreams, propagationStream, diff)
    BY <2>3, <1>5, <1>6, <1>7, <1>9, <1>12, DoCheckFields
  <2>5. queryStreams' = {} \/ \E q : queryStreams' = {q} /\ diff # {}
    BY <2>2, <2>4 DEF Checked
  <2>6. propagationStream' # "open" => diff = {} /\ propagationStream' = "ending"
    BY <2>2, <2>4 DEF Checked
  <2>7. diff = {} => queryStreams' = {}
    BY <2>2, <2>4 DEF Checked
  <2> QED
    BY <2>1, <2>5, <2>6, <2>7, <1>14
<1> QED
  BY <1>1, <1>14, <1>17, <1>18, <1>19, <1>20, <1>21, <1>22 DEF IInv

\* The scan yields its next reference: it is matched, with all that arrived before it, or
\* it waits.
LEMMA ScanDataStep ==
  ASSUME IInv, ScanData
  PROVE  IInv'
<1> DEFINE r == FirstOf(scan.left, foreignAt)
           pushed == pushForeign(r)
           matches == {x \in primaryItems : x.ref = r}
           After(x, y) == x.no > y.no \/ (x.no = y.no /\ primaryAt[x.ref] > primaryAt[y.ref])
           items == pushed.foreignItems
<1>1. TypeOK /\ ScanOK /\ ListOK /\ StreamOK /\ OrderOK /\ WireOK
  BY DEF IInv
<1>2. /\ scan.state = "flowing" /\ scan.left # {}
      /\ scan' = [scan EXCEPT !.left = @ \ {r}]
      /\ primaryItems' = pushed.primaryItems
      /\ doCheck(items, latestPrimary, isPrimaryFinalized, isForeignFinalized,
                 queryStreams, propagationStream)
      /\ \E bytesFull \in BOOLEAN : responseChunker' = Transform(responseChunker, r, bytesFull)
      /\ UNCHANGED <<store, network, latestPrimary, isPrimaryFinalized,
                     isForeignFinalized, propagationChunker>>
  BY DEF ScanData
<1>3. /\ scan.left \subseteq Refs /\ scan.left \subseteq foreign
      /\ r \in scan.left /\ \A y \in scan.left : foreignAt[r] <= foreignAt[y]
  <2>1. /\ scan.left \subseteq Refs /\ scan.left # {} /\ scan.left \subseteq foreign
        /\ foreignAt \in [foreign -> Refs]
    BY <1>1, <1>2 DEF TypeOK, ScanOK
  <2> QED
    BY <2>1, FirstIsIn
<1>4. \/ /\ matches # {} /\ items = foreignItems
         /\ primaryItems' = {x \in primaryItems : \A y \in matches : After(x, y)}
      \/ /\ matches = {} /\ items = foreignItems \cup {r}
         /\ primaryItems' = primaryItems
  BY <1>2 DEF pushForeign
<1> HIDE DEF r, pushed, items
<1>5. scan'.left = scan.left \ {r} /\ scan'.state = "flowing"
      /\ scan' \in [left : SUBSET Refs, state : {"flowing", "ended", "failed"}]
  BY <1>1, <1>2 DEF TypeOK
<1>6. /\ responseChunker' \in ChunkerType(Refs)
      /\ Has(responseChunker') = Has(responseChunker) \cup {r}
      /\ responseChunker'.isFinal = responseChunker.isFinal
  <2>1. responseChunker \in ChunkerType(Refs) /\ r \in Refs
    BY <1>1, <1>3 DEF TypeOK
  <2> QED
    BY <2>1, <1>2, ChunkerFields
<1>7. /\ Received' = Received
      /\ UNCHANGED <<primary, foreign, primaryAt, foreignAt, hidden,
                     wire, arrivals, inOrder, propagationChunker,
                     latestPrimary, isPrimaryFinalized, isForeignFinalized>>
  BY <1>2 DEF Received, store, network
<1>8. ~isForeignFinalized /\ propagationStream = "open"
      /\ (\A q \in queryStreams : ~q.end)
  BY <1>1, <1>2 DEF ScanOK, StreamOK
<1>9. items \subseteq foreignItems \cup {r} /\ items \subseteq Refs
  BY <1>1, <1>3, <1>4 DEF TypeOK
<1>10. Orderly => /\ items \cap Received = {}
                  /\ isPrimaryFinalized => wire = {}
                  /\ \A m \in wire : \A a \in m.refs, x \in Received : x < a
  BY <1>1, <1>3, <1>4 DEF OrderOK
<1>11. Missing \subseteq scan'.left \cup items \cup Released
  <2>1. Missing \subseteq scan.left \cup foreignItems \cup Released
    BY <1>8 DEF IInv, NothingForgotten
  <2>2. matches # {} => r \in primary
    BY <1>1 DEF ListOK, Received
  <2> QED
    BY <2>1, <2>2, <1>4, <1>5 DEF Missing
<1>12. doCheck(items, latestPrimary', isPrimaryFinalized', isForeignFinalized', queryStreams,
               propagationStream)
  BY <1>2, <1>7
<1>13. /\ latestPrimary' \in Refs \cup {Undefined}
       /\ latestPrimary' # Undefined => latestPrimary' \in Received'
       /\ isPrimaryFinalized' \in BOOLEAN /\ isForeignFinalized' \in BOOLEAN
  BY <1>1, <1>7 DEF TypeOK, ListOK
<1>14. Orderly' => /\ Orderly /\ items \cap Received' = {}
                   /\ isPrimaryFinalized' => wire' = {}
                   /\ \A m \in wire' : \A a \in m.refs, x \in Received' : x < a
  BY <1>7, <1>10 DEF Orderly, Ascending
<1>15. /\ foreignItems' \subseteq items
       /\ isPrimaryFinalized' => foreignItems' = {}
       /\ queryStreams' \subseteq QueryStream
       /\ propagationStream' \in {"open", "ending"}
       /\ StreamOK'
       /\ NothingForgotten' /\ NeverAheadOfPrimary' /\ OnlyMissingReleased'
  <2>1. /\ UNCHANGED <<store, propagationChunker>> /\ Received \subseteq Received'
        /\ isPrimaryFinalized => isPrimaryFinalized'
        /\ isForeignFinalized => isForeignFinalized'
        /\ propagationStream \in {"open", "ending"}
        /\ propagationStream = "ending" => isPrimaryFinalized' /\ isForeignFinalized'
    BY <1>2, <1>7, <1>8
  <2> QED
    BY <2>1, <1>9, <1>11, <1>12, <1>13, <1>14, CheckStep
<1>16. primaryItems' \subseteq primaryItems
  BY <1>4
<1>17. TypeOK'
  BY <1>1, <1>5, <1>6, <1>7, <1>9, <1>15, <1>16 DEF TypeOK
<1>18. WireOK' /\ ListOK'
  BY <1>1, <1>7, <1>16 DEF WireOK, ListOK
<1>19. ScanOK'
  <2>1. foreign' = scan'.left \cup Has(responseChunker')
    BY <1>1, <1>3, <1>5, <1>6, <1>7 DEF ScanOK
  <2>2. foreignItems' \cap scan'.left = {}
    BY <1>1, <1>5, <1>9, <1>15 DEF ScanOK
  <2>3. ~isForeignFinalized' /\ ~responseChunker'.isFinal
    BY <1>1, <1>6, <1>7, <1>8 DEF ScanOK
  <2> QED
    BY <2>1, <2>2, <2>3, <1>5, <1>13 DEF ScanOK
<1>20. OrderOK'
  <2> SUFFICES ASSUME Orderly
               PROVE  /\ \A x, y \in primaryItems' : y.ref < x.ref => y.no <= x.no
                      /\ \A s \in Received \cap scan'.left :
                             \E x \in primaryItems' : x.ref = s
    BY <1>7, <1>14, <1>15 DEF OrderOK
  <2>1. \A x, y \in primaryItems : y.ref < x.ref => y.no <= x.no
    BY <1>1 DEF OrderOK
  <2>2. ASSUME NEW s \in Received, s \in scan'.left
        PROVE  \E x \in primaryItems' : x.ref = s
    <3>1. s \in scan.left /\ s # r
      BY <2>2, <1>5
    <3>2. s \in Int /\ r \in Int
      BY <3>1, <1>3, PropagatorAssumption DEF Refs
    <3>3. r < s
      <4>1. /\ foreign \subseteq Refs /\ foreignAt \in [foreign -> Refs] /\ Sorted(foreign, foreignAt)
            /\ r \in foreign /\ s \in foreign /\ foreignAt[r] <= foreignAt[s]
        BY <3>1, <1>1, <1>3 DEF TypeOK, Orderly, Ascending
      <4>2. r <= s
        BY <4>1, SortedIsOrder
      <4> QED
        BY <4>2, <3>1, <3>2
    <3>4. PICK x \in primaryItems : x.ref = s
      BY <3>1, <1>1 DEF OrderOK
    <3>5. ASSUME NEW y \in matches
          PROVE  After(x, y)
      <4>1. y \in primaryItems /\ y.ref = r /\ y.no <= x.no
        BY <2>1, <3>3, <3>4
      <4>2. x.no \in Nat /\ y.no \in Nat
        BY <4>1, <1>1 DEF TypeOK
      <4>3. r \in primary /\ s \in primary
        BY <4>1, <3>4, <1>1 DEF ListOK, Received
      <4>4. primaryAt[r] < primaryAt[s] /\ primaryAt[r] \in Int /\ primaryAt[s] \in Int
        <5>1. primaryAt \in [primary -> Refs]
          BY <1>1 DEF TypeOK
        <5>2. primaryAt[r] < primaryAt[s]
          BY <4>3, <3>3 DEF Orderly, Ascending, Sorted
        <5> QED
          BY <5>1, <5>2, <4>3, PropagatorAssumption DEF Refs
      <4> QED
        BY <4>1, <4>2, <4>4, <3>4
    <3>6. x \in primaryItems'
      BY <3>5, <1>4
    <3> QED
      BY <3>4, <3>6
  <2> QED
    BY <2>1, <2>2, <1>16
<1>21. queryStreams \subseteq QueryStream
  BY <1>1 DEF TypeOK
<1>22. PICK diff \in SUBSET items :
          Checked(items, latestPrimary', isPrimaryFinalized', isForeignFinalized',
                  queryStreams, propagationStream, diff)
  BY <1>9, <1>12, <1>13, <1>21, DoCheckFields
<1>23. /\ propagationStream' = "open"
       /\ \A q \in queryStreams' : ~q.end
  BY <1>7, <1>8, <1>22 DEF Checked
<1>24. Untouched'
  <2> SUFFICES ASSUME arrivals = 0
               PROVE  /\ ~isPrimaryFinalized /\ latestPrimary = Undefined
                      /\ queryStreams' = {}
    BY <1>7, <1>23 DEF Untouched
  <2>1. ~isPrimaryFinalized /\ latestPrimary = Undefined /\ queryStreams = {}
    BY DEF IInv, Untouched
  <2>2. Undefined \notin Refs
    BY DEF Undefined, Refs
  <2>3. diff = {}
    BY <2>1, <2>2, <1>7, <1>22 DEF Checked
  <2> QED
    BY <2>1, <2>3, <1>22 DEF Checked
<1>25. SingleOK'
  BY <1>7, <1>15, <1>23 DEF IInv, SingleOK
<1> QED
  BY <1>15, <1>17, <1>18, <1>19, <1>20, <1>24, <1>25 DEF IInv

\* The scan ends: what waits in the list goes if the primary is final, and the stream
\* is ended if no query runs.
LEMMA ScanEndStep ==
  ASSUME IInv, ScanEnd
  PROVE  IInv'
<1>1. TypeOK /\ ScanOK /\ ListOK /\ StreamOK /\ OrderOK /\ WireOK
  BY DEF IInv
<1>2. /\ scan = [left |-> {}, state |-> "flowing"]
      /\ scan' = [scan EXCEPT !.state = "ended"]
      /\ isForeignFinalized' = TRUE
      /\ doCheck(foreignItems, latestPrimary, isPrimaryFinalized, TRUE,
                 queryStreams, propagationStream)
      /\ UNCHANGED <<store, network, primaryItems, latestPrimary,
                     isPrimaryFinalized, responseChunker, propagationChunker>>
  BY DEF ScanEnd
<1>3. scan'.left = {} /\ scan'.state = "ended" /\ scan.left = {} /\ scan.state = "flowing"
      /\ scan' \in [left : SUBSET Refs, state : {"flowing", "ended", "failed"}]
  BY <1>2
<1>4. /\ Received' = Received
      /\ UNCHANGED <<primary, foreign, primaryAt, foreignAt, hidden,
                     wire, arrivals, inOrder, propagationChunker,
                     primaryItems, latestPrimary, isPrimaryFinalized, responseChunker>>
  BY <1>2 DEF Received, store, network
<1>5. ~isForeignFinalized /\ propagationStream = "open"
      /\ (\A q \in queryStreams : ~q.end)
  BY <1>1, <1>3 DEF ScanOK, StreamOK
<1>6. /\ foreignItems \subseteq Refs
      /\ queryStreams \subseteq QueryStream
      /\ doCheck(foreignItems, latestPrimary', isPrimaryFinalized', isForeignFinalized',
                 queryStreams, propagationStream)
      /\ latestPrimary' \in Refs \cup {Undefined}
      /\ isPrimaryFinalized' \in BOOLEAN /\ isForeignFinalized' \in BOOLEAN
  BY <1>1, <1>2, <1>4 DEF TypeOK
<1>7. /\ foreignItems' \subseteq foreignItems
      /\ isPrimaryFinalized' => foreignItems' = {}
      /\ queryStreams' \subseteq QueryStream
      /\ propagationStream' \in {"open", "ending"}
      /\ StreamOK'
      /\ NothingForgotten' /\ NeverAheadOfPrimary' /\ OnlyMissingReleased'
  <2>1. /\ UNCHANGED <<store, propagationChunker>> /\ Received \subseteq Received'
        /\ isPrimaryFinalized => isPrimaryFinalized'
        /\ isForeignFinalized => isForeignFinalized'
        /\ propagationStream \in {"open", "ending"}
        /\ propagationStream = "ending" => isPrimaryFinalized' /\ isForeignFinalized'
        /\ latestPrimary' # Undefined => latestPrimary' \in Received'
    BY <1>1, <1>2, <1>4, <1>5 DEF ListOK
  <2>2. Orderly' => /\ Orderly /\ foreignItems \cap Received' = {}
                    /\ isPrimaryFinalized' => wire' = {}
                    /\ \A m \in wire' : \A a \in m.refs, x \in Received' : x < a
    BY <1>1, <1>4 DEF OrderOK, Orderly, Ascending
  <2>3. Missing \subseteq scan'.left \cup foreignItems \cup Released
    BY <1>3, <1>5 DEF IInv, NothingForgotten
  <2> QED
    BY <2>1, <2>2, <2>3, <1>6, CheckStep
<1>8. TypeOK'
  BY <1>1, <1>2, <1>3, <1>4, <1>6, <1>7 DEF TypeOK
<1>9. WireOK' /\ ListOK'
  BY <1>1, <1>4 DEF WireOK, ListOK
<1>10. ScanOK'
  BY <1>1, <1>2, <1>3, <1>4, <1>5 DEF ScanOK
<1>11. OrderOK'
  BY <1>1, <1>3, <1>4, <1>7 DEF OrderOK, Orderly, Ascending
<1>12. PICK diff \in SUBSET foreignItems :
          Checked(foreignItems, latestPrimary', isPrimaryFinalized', isForeignFinalized',
                  queryStreams, propagationStream, diff)
  BY <1>6, DoCheckFields
<1>13. Untouched'
  <2> SUFFICES ASSUME arrivals = 0
               PROVE  /\ ~isPrimaryFinalized /\ latestPrimary = Undefined
                      /\ queryStreams' = {} /\ propagationStream' = "open"
    BY <1>4 DEF Untouched
  <2>1. ~isPrimaryFinalized /\ latestPrimary = Undefined /\ queryStreams = {}
    BY DEF IInv, Untouched
  <2>2. Undefined \notin Refs
    BY DEF Undefined, Refs
  <2>3. diff = {}
    BY <2>1, <2>2, <1>4, <1>12 DEF Checked
  <2> QED
    BY <2>1, <2>3, <1>4, <1>5, <1>12 DEF Checked
<1>14. SingleOK'
  <2> SUFFICES ASSUME arrivals + Cardinality(wire) = 1, arrivals # 0
               PROVE  /\ isPrimaryFinalized' /\ foreignItems' = {}
                      /\ \A q \in queryStreams' : q.end => queryStreams' = {q}
                      /\ propagationStream' # "open"
                         => queryStreams' = {} /\ propagationStream' # "destroyed"
    BY <1>4 DEF SingleOK
  <2>1. isPrimaryFinalized /\ foreignItems = {}
    BY DEF IInv, SingleOK
  <2>2. queryStreams' = queryStreams /\ diff = {}
    BY <2>1, <1>12 DEF Checked
  <2>3. propagationStream' # "open" => queryStreams = {} /\ propagationStream' = "ending"
    BY <1>5, <1>12 DEF Checked
  <2> QED
    BY <2>1, <2>2, <2>3, <1>4, <1>5, <1>7
<1> QED
  BY <1>7, <1>8, <1>9, <1>10, <1>11, <1>13, <1>14 DEF IInv

\* The response Chunker hands over what it has as the final response.
LEMMA ResponseFinishStep ==
  ASSUME IInv, ResponseFinish
  PROVE  IInv'
<1>1. TypeOK /\ ScanOK
  BY DEF IInv
<1>2. /\ scan.state = "ended" /\ responseChunker' = Finish(responseChunker)
      /\ UNCHANGED <<primary, foreign, primaryAt, foreignAt, hidden,
                     wire, arrivals, inOrder, primaryItems, latestPrimary,
                     isPrimaryFinalized, foreignItems, isForeignFinalized, scan,
                     queryStreams, propagationStream, propagationChunker>>
  BY DEF ResponseFinish, store, network, listVars
<1>3. /\ responseChunker' \in ChunkerType(Refs)
      /\ Has(responseChunker') = Has(responseChunker) /\ responseChunker'.items = {}
  <2>1. responseChunker \in ChunkerType(Refs)
    BY <1>1 DEF TypeOK
  <2>2. Finish(responseChunker) \in ChunkerType(Refs)
        /\ Has(Finish(responseChunker)) = Has(responseChunker)
        /\ Finish(responseChunker).items = {}
    BY <2>1 DEF Finish, HandOver, ChunkerType, Has
  <2> QED
    BY <1>2, <2>2
<1>4. Received' = Received /\ Released' = Released /\ Missing' = Missing
  BY <1>2 DEF Received, Released, Missing
<1>5. TypeOK'
  BY <1>1, <1>2, <1>3 DEF TypeOK
<1>6. ScanOK'
  BY <1>1, <1>2, <1>3 DEF ScanOK
<1>7. WireOK' /\ ListOK' /\ StreamOK' /\ Untouched' /\ OrderOK' /\ SingleOK'
  BY <1>2, <1>4 DEF IInv, WireOK, ListOK, StreamOK, Untouched, OrderOK, SingleOK,
                   Orderly, Ascending
<1>8. NothingForgotten' /\ NeverAheadOfPrimary' /\ OnlyMissingReleased'
  BY <1>2, <1>4 DEF IInv, NothingForgotten, NeverAheadOfPrimary, OnlyMissingReleased, Ascending
<1> QED
  BY <1>5, <1>6, <1>7, <1>8 DEF IInv

\* A scan that fails is never final, so the stream stays open.
LEMMA ScanErrorStep ==
  ASSUME IInv, ScanError
  PROVE  IInv'
<1>1. TypeOK /\ ScanOK
  BY DEF IInv
<1>2. /\ scan.state = "flowing" /\ scan' = [scan EXCEPT !.state = "failed"]
      /\ UNCHANGED <<primary, foreign, primaryAt, foreignAt, hidden,
                     wire, arrivals, inOrder, primaryItems, latestPrimary,
                     isPrimaryFinalized, foreignItems, isForeignFinalized, responseChunker,
                     queryStreams, propagationStream, propagationChunker>>
  BY DEF ScanError, store, network, listVars
<1>3. scan'.left = scan.left /\ scan'.state = "failed"
      /\ scan' \in [left : SUBSET Refs, state : {"flowing", "ended", "failed"}]
  BY <1>1, <1>2 DEF TypeOK
<1>4. Received' = Received /\ Released' = Released /\ Missing' = Missing
  BY <1>2 DEF Received, Released, Missing
<1>5. TypeOK'
  BY <1>1, <1>2, <1>3 DEF TypeOK
<1>6. ScanOK'
  BY <1>1, <1>2, <1>3 DEF ScanOK
<1>7. WireOK' /\ ListOK' /\ StreamOK' /\ Untouched' /\ OrderOK' /\ SingleOK'
  BY <1>2, <1>3, <1>4 DEF IInv, WireOK, ListOK, StreamOK, Untouched, OrderOK, SingleOK,
                   Orderly, Ascending
<1>8. NothingForgotten' /\ NeverAheadOfPrimary' /\ OnlyMissingReleased'
  BY <1>2, <1>3, <1>4 DEF IInv, NothingForgotten, NeverAheadOfPrimary, OnlyMissingReleased, Ascending
<1> QED
  BY <1>5, <1>6, <1>7, <1>8 DEF IInv

\* A step of the streams and of the propagation Chunker leaves the rest alone; it keeps the
\* invariant if nothing is released and nothing released is forgotten.
LEMMA StreamsStep ==
  ASSUME IInv,
         UNCHANGED <<store, network, listVars, scan, responseChunker>>,
         queryStreams # {} \/ propagationStream # "open",
         queryStreams' \subseteq QueryStream, propagationChunker' \in ChunkerType(Refs),
         propagationStream' \in {"open", "ending", "closed", "destroyed"},
         StreamOK', SingleOK',
         Released' \subseteq Released,
         propagationStream' # "destroyed"
         => propagationStream # "destroyed" /\ Released \subseteq Released'
  PROVE  IInv'
<1>1. UNCHANGED <<primary, foreign, primaryAt, foreignAt, hidden,
                  wire, arrivals, inOrder, primaryItems, latestPrimary,
                  isPrimaryFinalized, foreignItems, isForeignFinalized, scan,
                  responseChunker>>
  BY DEF store, network, listVars
<1>2. Received' = Received /\ Missing' = Missing
  BY <1>1 DEF Received, Missing
<1>3. TypeOK'
  BY <1>1 DEF IInv, TypeOK
<1>4. WireOK' /\ ScanOK' /\ ListOK' /\ OrderOK'
  BY <1>1, <1>2 DEF IInv, WireOK, ScanOK, ListOK, OrderOK, Orderly, Ascending
<1>5. Untouched'
  BY <1>1 DEF IInv, Untouched
<1>6. NothingForgotten' /\ NeverAheadOfPrimary' /\ OnlyMissingReleased'
  BY <1>1, <1>2 DEF IInv, NothingForgotten, NeverAheadOfPrimary, OnlyMissingReleased, Ascending
<1> QED
  BY <1>3, <1>4, <1>5, <1>6 DEF IInv

\* A message goes from its query to the propagation Chunker, or is lost to a stream that
\* was ended.
LEMMA QueryDataStep ==
  ASSUME IInv, NEW q \in queryStreams, NEW r \in q.left, QueryData(q, r)
  PROVE  IInv'
<1> DEFINE p == [q EXCEPT !.left = @ \ {r}]
<1>1. TypeOK /\ StreamOK /\ SingleOK
  BY DEF IInv
<1>2. /\ UNCHANGED <<store, network, listVars, scan, responseChunker>>
      /\ propagationStream \in {"open", "ending"}
      /\ queryStreams' = (queryStreams \ {q}) \cup {p}
      /\ \/ /\ propagationStream = "open" /\ propagationStream' = "open"
            /\ \E bytesFull \in BOOLEAN :
                  propagationChunker' = Transform(propagationChunker, r, bytesFull)
         \/ /\ propagationStream = "ending" /\ propagationStream' = "destroyed"
            /\ propagationChunker' = propagationChunker
  BY DEF QueryData
<1>3. /\ p \in QueryStream /\ p.left = q.left \ {r} /\ p.end = q.end
      /\ r \in Refs
  BY <1>1 DEF TypeOK, QueryStream
<1> HIDE DEF p
<1>4. queryStreams' \subseteq QueryStream
  BY <1>1, <1>2, <1>3 DEF TypeOK
<1>5. /\ Left(queryStreams') \subseteq Left(queryStreams)
      /\ Left(queryStreams) \subseteq Left(queryStreams') \cup {r}
      /\ r \in Left(queryStreams)
  <2>1. /\ Left(queryStreams') \subseteq Left(queryStreams) \cup p.left
        /\ Left(queryStreams) \subseteq Left(queryStreams') \cup q.left
        /\ p.left \subseteq Left(queryStreams')
        /\ q.left \subseteq Left(queryStreams)
    BY <1>2, LeftOfReplaced
  <2> QED
    BY <2>1, <1>3
<1>6. /\ propagationChunker' \in ChunkerType(Refs)
      /\ Has(propagationChunker') = Has(propagationChunker)
         \/ Has(propagationChunker') = Has(propagationChunker) \cup {r}
      /\ propagationStream = "open" => r \in Has(propagationChunker')
  <2>1. propagationChunker \in ChunkerType(Refs)
    BY <1>1 DEF TypeOK
  <2>2. CASE propagationStream = "open"
    BY <2>1, <2>2, <1>2, <1>3, ChunkerFields
  <2>3. CASE propagationStream = "ending"
    BY <2>1, <2>3, <1>2
  <2> QED
    BY <2>2, <2>3, <1>2
<1>7. /\ Released = Left(queryStreams) \cup Has(propagationChunker)
      /\ Released' = Left(queryStreams') \cup Has(propagationChunker')
  BY DEF Released, Has
<1>8. /\ Released' \subseteq Released
      /\ propagationStream' # "destroyed"
         => propagationStream # "destroyed" /\ Released \subseteq Released'
  BY <1>2, <1>5, <1>6, <1>7
<1>9. UNCHANGED <<isPrimaryFinalized, isForeignFinalized, arrivals, wire, foreignItems>>
  BY <1>2 DEF listVars, network
<1>10. StreamOK'
  BY <1>1, <1>2, <1>3, <1>9 DEF StreamOK
<1>11. SingleOK'
  <2> SUFFICES ASSUME arrivals + Cardinality(wire) = 1, arrivals # 0
               PROVE  /\ isPrimaryFinalized /\ foreignItems = {}
                      /\ \A s \in queryStreams' : s.end => queryStreams' = {s}
                      /\ propagationStream' = "open"
    BY <1>9 DEF SingleOK
  <2>1. /\ isPrimaryFinalized /\ foreignItems = {} /\ propagationStream = "open"
        /\ \A s \in queryStreams : s.end => queryStreams = {s}
    BY <1>1 DEF SingleOK
  <2>2. ASSUME NEW s \in queryStreams', s.end
        PROVE  queryStreams' = {s}
    BY <2>1, <2>2, <1>2, <1>3
  <2> QED
    BY <2>1, <2>2, <1>2
<1>12. propagationStream' \in {"open", "ending", "closed", "destroyed"}
  BY <1>2
<1> QED
  BY <1>2, <1>4, <1>6, <1>8, <1>10, <1>11, <1>12, StreamsStep

\* A query fails and stays among the streams.
LEMMA QueryErrorStep ==
  ASSUME IInv, NEW q \in queryStreams, QueryError(q)
  PROVE  IInv'
<1> DEFINE p == [q EXCEPT !.failed = TRUE]
<1>1. TypeOK /\ StreamOK /\ SingleOK
  BY DEF IInv
<1>2. /\ UNCHANGED <<store, network, listVars, scan, responseChunker, propagationStream,
                     propagationChunker>>
      /\ queryStreams' = (queryStreams \ {q}) \cup {p}
  BY DEF QueryError
<1>3. p \in QueryStream /\ p.left = q.left /\ p.end = q.end
  BY <1>1 DEF TypeOK, QueryStream
<1> HIDE DEF p
<1>4. /\ queryStreams' \subseteq QueryStream /\ propagationChunker' \in ChunkerType(Refs)
      /\ propagationStream' \in {"open", "ending", "closed", "destroyed"}
  BY <1>1, <1>2, <1>3 DEF TypeOK
<1>5. Left(queryStreams') = Left(queryStreams)
  <2>1. /\ Left(queryStreams') \subseteq Left(queryStreams) \cup p.left
        /\ Left(queryStreams) \subseteq Left(queryStreams') \cup q.left
        /\ p.left \subseteq Left(queryStreams')
        /\ q.left \subseteq Left(queryStreams)
    BY <1>2, LeftOfReplaced
  <2> QED
    BY <2>1, <1>3
<1>6. Released' = Released
  BY <1>2, <1>5 DEF Released
<1>7. UNCHANGED <<isPrimaryFinalized, isForeignFinalized, arrivals, wire, foreignItems>>
  BY <1>2 DEF listVars, network
<1>8. StreamOK'
  BY <1>1, <1>2, <1>3, <1>7 DEF StreamOK
<1>9. SingleOK'
  <2> SUFFICES ASSUME arrivals + Cardinality(wire) = 1, arrivals # 0
               PROVE  /\ isPrimaryFinalized /\ foreignItems = {}
                      /\ \A s \in queryStreams' : s.end => queryStreams' = {s}
                      /\ propagationStream' = "open"
    BY <1>7 DEF SingleOK
  <2>1. /\ isPrimaryFinalized /\ foreignItems = {} /\ propagationStream = "open"
        /\ \A s \in queryStreams : s.end => queryStreams = {s}
    BY <1>1 DEF SingleOK
  <2>2. ASSUME NEW s \in queryStreams', s.end
        PROVE  queryStreams' = {s}
    BY <2>1, <2>2, <1>2, <1>3
  <2> QED
    BY <2>1, <2>2, <1>2
<1>10. UNCHANGED <<store, network, listVars, scan, responseChunker>>
  BY <1>2
<1>11. propagationStream' # "destroyed"
       => propagationStream # "destroyed" /\ Released \subseteq Released'
  BY <1>2, <1>6
<1> QED
  BY <1>4, <1>6, <1>8, <1>9, <1>10, <1>11, StreamsStep

\* The propagation Chunker hands over what it has and the propagator is closed.
LEMMA PropagationFinishStep ==
  ASSUME IInv, PropagationFinish
  PROVE  IInv'
<1>1. TypeOK /\ StreamOK /\ SingleOK
  BY DEF IInv
<1>2. /\ UNCHANGED <<store, network, listVars, scan, responseChunker>>
      /\ queryStreams' = queryStreams
      /\ propagationStream = "ending" /\ propagationStream' = "closed"
      /\ propagationChunker' = Finish(propagationChunker)
  BY DEF PropagationFinish
<1>3. /\ propagationChunker' \in ChunkerType(Refs)
      /\ Has(propagationChunker') = Has(propagationChunker)
      /\ propagationChunker'.items = {}
  <2>1. propagationChunker \in ChunkerType(Refs)
    BY <1>1 DEF TypeOK
  <2>2. Finish(propagationChunker) \in ChunkerType(Refs)
        /\ Has(Finish(propagationChunker)) = Has(propagationChunker)
        /\ Finish(propagationChunker).items = {}
    BY <2>1 DEF Finish, HandOver, ChunkerType, Has
  <2> QED
    BY <1>2, <2>2
<1>4. Released' = Released
  BY <1>2, <1>3 DEF Released, Has
<1>5. UNCHANGED <<isPrimaryFinalized, isForeignFinalized, arrivals, wire, foreignItems>>
  BY <1>2 DEF listVars, network
<1>6. StreamOK' /\ SingleOK'
  BY <1>1, <1>2, <1>3, <1>5 DEF StreamOK, SingleOK
<1>7. queryStreams' \subseteq QueryStream
      /\ propagationStream' \in {"open", "ending", "closed", "destroyed"}
  BY <1>1, <1>2 DEF TypeOK
<1> QED
  BY <1>2, <1>3, <1>4, <1>6, <1>7, StreamsStep

\* A query ends: doCheck without it, then the pipe.
LEMMA QueryEndStep ==
  ASSUME IInv, NEW q \in queryStreams, QueryEnd(q)
  PROVE  IInv'
<1> DEFINE stream == IF q.end THEN "ending" ELSE propagationStream
           streams == queryStreams \ {q}
<1>1. TypeOK /\ ScanOK /\ ListOK /\ StreamOK /\ OrderOK /\ WireOK /\ SingleOK
  BY DEF IInv
<1>2. /\ q.left \subseteq hidden /\ propagationStream \in {"open", "ending"}
      /\ doCheck(foreignItems, latestPrimary, isPrimaryFinalized, isForeignFinalized,
                 streams, stream)
      /\ UNCHANGED <<primary, foreign, primaryAt, foreignAt, hidden,
                     wire, arrivals, inOrder, primaryItems, latestPrimary,
                     isPrimaryFinalized, isForeignFinalized, scan, responseChunker,
                     propagationChunker>>
  BY DEF QueryEnd, store, network
<1>3. Received' = Received
  BY <1>2 DEF Received
<1>4. /\ stream \in {"open", "ending"}
      /\ stream = "ending" => isPrimaryFinalized' /\ isForeignFinalized'
      /\ q.end => stream = "ending"
      /\ ~q.end => stream = propagationStream
  BY <1>1, <1>2 DEF StreamOK
<1>5. streams \subseteq queryStreams /\ Left(queryStreams) \subseteq Left(streams) \cup hidden
  BY <1>2 DEF Left
<1>6. streams = queryStreams \ {q} /\ streams \subseteq QueryStream
  BY <1>1 DEF TypeOK
<1> HIDE DEF stream, streams
<1>7. /\ foreignItems \subseteq Refs
      /\ doCheck(foreignItems, latestPrimary', isPrimaryFinalized', isForeignFinalized',
                 streams, stream)
      /\ latestPrimary' \in Refs \cup {Undefined}
      /\ isPrimaryFinalized' \in BOOLEAN /\ isForeignFinalized' \in BOOLEAN
  BY <1>1, <1>2 DEF TypeOK
<1>8. /\ foreignItems' \subseteq foreignItems
      /\ isPrimaryFinalized' => foreignItems' = {}
      /\ queryStreams' \subseteq QueryStream
      /\ propagationStream' \in {"open", "ending"}
      /\ StreamOK'
      /\ NothingForgotten' /\ NeverAheadOfPrimary' /\ OnlyMissingReleased'
  <2>1. /\ UNCHANGED <<store, propagationChunker>> /\ Received \subseteq Received'
        /\ isPrimaryFinalized => isPrimaryFinalized'
        /\ isForeignFinalized => isForeignFinalized'
        /\ latestPrimary' # Undefined => latestPrimary' \in Received'
    BY <1>1, <1>2, <1>3 DEF ListOK, store
  <2>2. Orderly' => /\ Orderly /\ foreignItems \cap Received' = {}
                    /\ isPrimaryFinalized' => wire' = {}
                    /\ \A m \in wire' : \A a \in m.refs, x \in Received' : x < a
    BY <1>1, <1>2, <1>3 DEF OrderOK, Orderly, Ascending
  <2>3. Missing \subseteq scan'.left \cup foreignItems \cup Released
    BY <1>2 DEF IInv, NothingForgotten
  <2> QED
    BY <2>1, <2>2, <2>3, <1>4, <1>5, <1>7, CheckStep
<1>9. TypeOK'
  BY <1>1, <1>2, <1>7, <1>8 DEF TypeOK
<1>10. WireOK' /\ ListOK'
  BY <1>1, <1>2, <1>3 DEF WireOK, ListOK
<1>11. ScanOK' /\ OrderOK'
  BY <1>1, <1>2, <1>3, <1>8 DEF ScanOK, OrderOK, Orderly, Ascending
<1>12. Untouched'
  BY <1>2 DEF IInv, Untouched
<1>13. SingleOK'
  <2> SUFFICES ASSUME arrivals + Cardinality(wire) = 1, arrivals # 0
               PROVE  /\ isPrimaryFinalized' /\ foreignItems' = {}
                      /\ \A s \in queryStreams' : s.end => queryStreams' = {s}
                      /\ propagationStream' # "open"
                         => queryStreams' = {} /\ propagationStream' # "destroyed"
    BY <1>2 DEF SingleOK
  <2>1. /\ isPrimaryFinalized /\ foreignItems = {}
        /\ \A s \in queryStreams : s.end => queryStreams = {s}
        /\ propagationStream = "open"
    BY <1>1 DEF SingleOK
  <2>2. PICK diff \in SUBSET foreignItems :
           Checked(foreignItems, latestPrimary', isPrimaryFinalized', isForeignFinalized',
                   streams, stream, diff)
    BY <1>6, <1>7, DoCheckFields
  <2>3. queryStreams' = streams
    BY <2>1, <2>2 DEF Checked
  <2>4. \A s \in streams : ~s.end
    BY <2>1, <1>6
  <2>5. q.end => streams = {}
    BY <2>1, <1>6
  <2>6. propagationStream' # "open" => streams = {}
    BY <2>1, <2>2, <2>5, <1>4 DEF Checked
  <2> QED
    BY <2>1, <2>3, <2>4, <2>6, <1>2, <1>8
<1> QED
  BY <1>8, <1>9, <1>10, <1>11, <1>12, <1>13 DEF IInv

-----------------------------------------------------------------------------
(* The theorems *)

\* The invariant holds in every state of a propagator, whatever the two stores hold, the
\* number of responses, their order and the failures of the queries.
THEOREM Invariance == Spec => []IInv
<1>1. Init => IInv
  BY InitIInv
<1>2. IInv /\ [Next]_vars => IInv'
  <2> SUFFICES ASSUME IInv, [Next]_vars
               PROVE  IInv'
    OBVIOUS
  <2>1. ASSUME NEW m \in wire, onPrimaryResponse(m)
        PROVE  IInv'
    BY <2>1, ResponseTaken, ResponseDropped
  <2>2. CASE ScanData
    BY <2>2, ScanDataStep
  <2>3. CASE ScanEnd
    BY <2>3, ScanEndStep
  <2>4. CASE ResponseFinish
    BY <2>4, ResponseFinishStep
  <2>5. CASE ScanError
    BY <2>5, ScanErrorStep
  <2>6. ASSUME NEW q \in queryStreams, QueryEnd(q) \/ QueryError(q)
        PROVE  IInv'
    BY <2>6, QueryEndStep, QueryErrorStep
  <2>7. ASSUME NEW q \in queryStreams, NEW r \in q.left, QueryData(q, r)
        PROVE  IInv'
    BY <2>7, QueryDataStep
  <2>8. CASE PropagationFinish
    BY <2>8, PropagationFinishStep
  <2>9. CASE UNCHANGED vars
    <3>1. UNCHANGED <<primary, foreign, primaryAt, foreignAt, hidden,
                      wire, arrivals, inOrder, primaryItems, latestPrimary,
                      isPrimaryFinalized, foreignItems, isForeignFinalized, scan,
                      responseChunker, queryStreams, propagationStream,
                      propagationChunker>>
      BY <2>9 DEF vars, store, network, listVars
    <3>2. TypeOK' /\ WireOK' /\ ScanOK' /\ ListOK' /\ StreamOK' /\ Untouched'
      BY <3>1 DEF IInv, TypeOK, WireOK, ScanOK, ListOK, StreamOK, Untouched, Received
    <3>3. OrderOK' /\ SingleOK'
      BY <3>1 DEF IInv, OrderOK, SingleOK, Received, Orderly, Ascending
    <3>4. NothingForgotten' /\ NeverAheadOfPrimary' /\ OnlyMissingReleased'
      BY <3>1 DEF IInv, NothingForgotten, NeverAheadOfPrimary, OnlyMissingReleased,
                  Missing, Released, Received, Ascending
    <3> QED
      BY <3>2, <3>3, <3>4 DEF IInv
  <2> QED
    BY <2>1, <2>2, <2>3, <2>4, <2>5, <2>6, <2>7, <2>8, <2>9 DEF Next
<1> QED
  BY <1>1, <1>2, PTL DEF Spec

\* Type correctness of the propagator's state (Propagator.ts 22-28, PropagationList.ts 7-12).
THEOREM TypeCorrect == Spec => []TypeOK
<1>1. IInv => TypeOK
  BY DEF IInv
<1> QED
  BY <1>1, Invariance, PTL

\* No message the primary lacks is forgotten on its way from the scan through the list and
\* a query to the Chunker, in whatever order the responses arrive (PropagationList.ts
\* 19-48, 81-99; Propagator.ts 148-170).
THEOREM NothingForgottenTheorem == Spec => []NothingForgotten
<1>1. IInv => NothingForgotten
  BY DEF IInv
<1> QED
  BY <1>1, Invariance, PTL

\* Only what the primary lacks is released, when its responses arrive in order, although
\* both sides of the list are cut early (PropagationList.ts 44, 90-98).
THEOREM OnlyMissingTheorem == Spec => []OnlyMissingReleased
<1>1. IInv => OnlyMissingReleased
  BY DEF IInv
<1> QED
  BY <1>1, Invariance, PTL

\* Nothing is released above what the primary has listed until it is final, in any order of
\* arrival (PropagationList.ts 86-98).
THEOREM NeverAheadTheorem == Spec => []NeverAheadOfPrimary
<1>1. IInv => NeverAheadOfPrimary
  BY DEF IInv
<1> QED
  BY <1>1, Invariance, PTL

\* The final response completes the list of the whole store (Propagator.ts 101-110,
\* Chunker.ts 30-32, 51-60).
THEOREM FinalResponseTheorem == Spec => []FinalResponseIsComplete
<1>1. IInv => FinalResponseIsComplete
  <2> SUFFICES ASSUME IInv, responseChunker.isFinal
               PROVE  responseChunker.out = foreign
    BY DEF FinalResponseIsComplete
  <2>1. responseChunker.items = {} /\ scan.left = {}
    BY DEF IInv, ScanOK
  <2>2. foreign = scan.left \cup responseChunker.items \cup responseChunker.out
    BY DEF IInv, ScanOK, Has
  <2> QED
    BY <2>1, <2>2
<1> QED
  BY <1>1, Invariance, PTL

\* If the primary answers with a single response, a closed propagator has sent all that the
\* primary lacks (Propagator.ts 168-176, PropagationList.ts 82-88).
THEOREM SingleResponseTheorem == Spec => []SingleResponseSuffices
<1>1. IInv => SingleResponseSuffices
  <2> SUFFICES ASSUME IInv, arrivals + Cardinality(wire) = 1, Closed
               PROVE  Missing \subseteq propagationChunker.out
    BY DEF SingleResponseSuffices, ClosedMeansPropagated
  <2>1. propagationStream \in {"closed", "destroyed"} /\ arrivals # 0
    BY DEF Closed, IInv, Untouched
  <2>2. queryStreams = {} /\ foreignItems = {} /\ propagationStream = "closed"
    BY <2>1 DEF IInv, SingleOK
  <2>3. propagationChunker.items = {} /\ scan.left = {}
    BY <2>2 DEF IInv, StreamOK, ScanOK
  <2>4. Missing \subseteq scan.left \cup foreignItems \cup Released
    BY <2>2 DEF IInv, NothingForgotten
  <2>5. Left(queryStreams) = {}
    BY <2>2 DEF Left
  <2> QED
    BY <2>2, <2>3, <2>4, <2>5 DEF Released
<1> QED
  BY <1>1, Invariance, PTL
=============================================================================
