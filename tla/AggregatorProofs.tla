--------------------------- MODULE AggregatorProofs ---------------------------
(***************************************************************************)
(* What module Aggregator claims of an aggregator, for any stores, any     *)
(* number of foreign nodes, online or not, and any order of their answers. *)
(***************************************************************************)
EXTENDS Aggregator, WellFoundedInduction, TLAPS

Has(c) == c.items \cup c.out

\* The foreign nodes: one that was online is waited for, and once it is final, the responses
\* being in order, it has nothing left to respond.  The stream is ended only then.
ForeignOK ==
    /\ online \subseteq Nodes /\ primary \subseteq Refs
    /\ peers \in [Nodes -> SUBSET Refs]
    /\ toRespond \in [Nodes -> [left : SUBSET Refs, isFinal : BOOLEAN]]
    /\ toPropagate \in [Nodes -> SUBSET Refs]
    /\ inOrder \in BOOLEAN
    /\ \A f \in online : foreignNodeResponses[f] # "absent"
    /\ inOrder => \A f \in Nodes :
                    foreignNodeResponses[f] = "finalized" => toRespond[f].left = {}
    /\ stream # "open" => \A f \in online : foreignNodeResponses[f] = "finalized"

\* Of one bucket the scan ascends: what it has still to yield is above all that it has
\* yielded, that is ready in the list, on its way to the store, or passed by the threshold.
ScanOK ==
    /\ scan.left \subseteq primary
    /\ scan.state = "ended" => scan.left = {}
    /\ responseChunker.isFinal => scan.state = "ended"
    /\ stream # "open" => scan.state # "flowing"
    /\ buckets = "one" =>
          \A s \in scan.left :
             /\ threshold < s
             /\ \A x \in Has(responseChunker) \cup ready : x < s
             /\ \A p \in storing : \A x \in p.left : x < s

\* What is ready can be queried, and the list goes on after the threshold.
ListOK ==
    /\ primary \subseteq db /\ ready \subseteq db
    /\ \A x \in items : threshold < x

In(q, r) == q.from <= r /\ r <= q.to

\* The range queries do not overlap and end at the threshold; of its range the client has
\* been given what the query has yielded, and of what is above the threshold nothing.
QueriesOK ==
    /\ \A q \in queryStreams :
          /\ q.from <= q.to /\ q.to <= threshold
          /\ \A r \in q.done : In(q, r)
          /\ stream # "destroyed" => q.done \subseteq Given
          /\ \A g \in Given : In(q, g) => g \in q.done
    /\ \A p, q \in queryStreams : p # q => p.to < q.from \/ q.to < p.from
    /\ \A g \in Given : g <= threshold

\* Whatever is above the threshold is listed, to be scanned or to be responded.
EverythingListed ==
    inOrder => \A r \in Expected :
                 \/ r <= threshold \/ r \in items \/ r \in scan.left
                 \/ \E f \in online : /\ foreignNodeResponses[f] = "waiting"
                                      /\ r \in toRespond[f].left

IInv ==
    /\ TypeOK /\ ForeignOK /\ ScanOK /\ ListOK /\ QueriesOK /\ EverythingListed
    /\ NothingPassedOver /\ EndedMeansComplete /\ NoDuplicates

-----------------------------------------------------------------------------
(* Least and greatest references, and the Chunker *)

\* A nonempty set of natural numbers has a least element.
LEMMA LeastNatural ==
  ASSUME NEW S, S \subseteq Nat, S # {}
  PROVE  \E x \in S : \A y \in S : x <= y
<1>1. PICK x \in S : \A y \in S : ~(<<y, x>> \in OpToRel(<, Nat))
  BY NatLessThanWellFounded, WFMin
<1>2. \A y, z \in Nat : y < z => <<y, z>> \in OpToRel(<, Nat)
  BY DEF OpToRel
<1>3. \A y \in S : ~(y < x)
  BY <1>1, <1>2
<1> QED
  BY <1>3

\* MinOf and MaxOf of a set of references are members of it and bound it.
LEMMA MinOfMaxOf ==
  ASSUME NEW S, S \subseteq Refs, S # {}
  PROVE  /\ MinOf(S) \in S /\ \A y \in S : MinOf(S) <= y
         /\ MaxOf(S) \in S /\ \A y \in S : y <= MaxOf(S)
<1> DEFINE U == {n \in Nat : \A y \in S : y <= n}
<1>1. S \subseteq Nat /\ MaxRef \in U
  BY AggregatorAssumption DEF Refs
<1>2. \E x \in S : \A y \in S : x <= y
  BY <1>1, LeastNatural
<1>3. PICK u \in U : \A v \in U : u <= v
  BY <1>1, LeastNatural
<1>4. ASSUME u \notin S
      PROVE  FALSE
  <2>1. u \in Nat /\ \A y \in S : y \in Nat /\ 1 <= y /\ y <= u /\ y # u
    BY <1>3, <1>4 DEF Refs
  <2>2. u - 1 \in U
    BY <2>1
  <2> QED
    BY <2>1, <2>2, <1>3
<1>5. \E x \in S : \A y \in S : y <= x
  BY <1>3, <1>4
<1> QED
  BY <1>2, <1>5 DEF MinOf, MaxOf

\* What a Chunker has been given it still has or has handed over.
LEMMA ChunkerFields ==
  ASSUME NEW c \in ChunkerType(Refs), NEW r \in Refs, NEW full \in BOOLEAN
  PROVE  /\ Transform(c, r, full) \in ChunkerType(Refs)
         /\ Has(Transform(c, r, full)) = Has(c) \cup {r}
         /\ Transform(c, r, full).isFinal = c.isFinal
         /\ Finish(c) \in ChunkerType(Refs)
         /\ Has(Finish(c)) = Has(c)
<1> DEFINE p == [c EXCEPT !.items = @ \cup {r}]
<1>1. p \in ChunkerType(Refs) /\ p.items = c.items \cup {r} /\ p.out = c.out
      /\ p.isFinal = c.isFinal
  BY DEF ChunkerType
<1>2. Transform(c, r, full) = p \/ Transform(c, r, full) = HandOver(p, FALSE)
  BY DEF Transform
<1>3. ASSUME NEW d \in ChunkerType(Refs), NEW final \in BOOLEAN
      PROVE  /\ HandOver(d, final) \in ChunkerType(Refs)
             /\ Has(HandOver(d, final)) = Has(d)
             /\ HandOver(d, final).isFinal = (d.isFinal \/ final)
  BY DEF HandOver, ChunkerType, Has
<1>4. Has(p) = Has(c) \cup {r}
  BY <1>1 DEF Has
<1> HIDE DEF p
<1>5. HandOver(p, FALSE).isFinal = c.isFinal
  BY <1>1, <1>3 DEF ChunkerType
<1>6. HandOver(p, FALSE) \in ChunkerType(Refs) /\ Has(HandOver(p, FALSE)) = Has(p)
  BY <1>1, <1>3
<1>7. /\ Transform(c, r, full) \in ChunkerType(Refs)
      /\ Has(Transform(c, r, full)) = Has(c) \cup {r}
      /\ Transform(c, r, full).isFinal = c.isFinal
  BY <1>1, <1>2, <1>4, <1>5, <1>6
<1> QED
  BY <1>3, <1>7 DEF Finish

-----------------------------------------------------------------------------
(* doCheck *)

QueryType == [from : Refs, to : Refs, done : SUBSET Refs, must : SUBSET Refs]

\* A list as doCheck takes it.
IsList(list) ==
    /\ list.items \subseteq Refs /\ list.ready \subseteq list.items
    /\ list.threshold = threshold /\ threshold \in Refs \cup {Undefined}

\* push lists what is above the threshold.
LEMMA PushFields ==
  ASSUME IsList(List), NEW refs, refs \subseteq Refs, NEW isReady \in BOOLEAN
  PROVE  /\ IsList(push(List, refs, isReady))
         /\ \A x : x \in push(List, refs, isReady).items
                   <=> x \in items \/ (x \in refs /\ x > threshold)
         /\ \A x : x \in push(List, refs, isReady).ready
                   <=> x \in ready \/ (isReady /\ x \in refs /\ x > threshold)
<1> DEFINE fresh == {r \in refs : r > threshold}
           l == push(List, refs, isReady)
<1>1. /\ l.items = items \cup fresh
      /\ l.ready = IF isReady THEN ready \cup fresh ELSE ready
      /\ l.threshold = threshold
  BY DEF push, List
<1>2. List.items = items /\ List.ready = ready /\ List.threshold = threshold
  BY DEF List
<1> HIDE DEF l
<1>3. IsList(l)
  BY <1>1, <1>2 DEF IsList
<1> QED
  BY <1>1, <1>3 DEF l

\* Either the list is left alone, or its ready prefix goes to a query of that range, which
\* must yield what the store has there, unless buckets overlap.
Queried(list, streams, store) ==
    \E q \in QueryType :
        /\ q.from \in list.ready /\ q.to \in list.ready /\ q.from <= q.to
        /\ \A x \in list.items : x <= q.to => x \in list.ready /\ q.from <= x
        /\ q.done = {}
        /\ \A x : x \in q.must <=> x \in store /\ In(q, x) /\ buckets # "overlapping"
        /\ queryStreams' = streams \cup {q}
        /\ \A x : x \in items' <=> x \in list.items /\ x > q.to
        /\ \A x : x \in ready' <=> x \in list.ready /\ x > q.to
        /\ threshold' = q.to

Kept(list, streams) ==
    /\ items' = list.items /\ ready' = list.ready /\ threshold' = list.threshold
    /\ queryStreams' = streams

\* What doCheck does.
LEMMA DoCheckFields ==
  ASSUME NEW list, IsList(list), NEW responses, NEW streams, NEW scanning,
         NEW store, store \subseteq Refs,
         doCheck(list, responses, streams, scanning, store)
  PROVE  /\ \/ Kept(list, streams)
            \/ /\ ~isWaitingForForeignNodes(responses) /\ list.items # {}
               /\ Queried(list, streams, store)
         /\ \/ stream' = stream
            \/ /\ ~isWaitingForForeignNodes(responses)
               /\ list.items = {} /\ streams = {} /\ scanning = {}
               /\ stream = "open" /\ stream' = "ending" /\ Kept(list, streams)
<1> DEFINE prefix == ReadyPrefix(list)
           from == MinOf(prefix)
           to == MaxOf(prefix)
           q == [from |-> from, to |-> to, done |-> {},
                 must |-> {r \in store : /\ from <= r /\ r <= to
                                         /\ buckets # "overlapping"}]
<1>1. /\ prefix \subseteq list.items /\ prefix \subseteq Refs /\ prefix \subseteq list.ready
      /\ \A r \in prefix, x \in list.items : x <= r => x \in list.ready
  <2>1. \A r \in Refs : r <= r
    BY AggregatorAssumption DEF Refs
  <2> QED
    BY <2>1 DEF ReadyPrefix, IsList
<1>2. CASE isWaitingForForeignNodes(responses) \/ prefix = {}
  <2>1. Kept(list, streams)
    BY <1>2 DEF doCheck, Kept
  <2>2. \/ stream' = stream
        \/ /\ ~isWaitingForForeignNodes(responses)
           /\ list.items = {} /\ streams \cup scanning = {}
           /\ stream = "open" /\ stream' = "ending"
    BY <1>2 DEF doCheck, NothingLeft
  <2> QED
    BY <2>1, <2>2
<1>3. CASE ~isWaitingForForeignNodes(responses) /\ prefix # {}
  <2>1. /\ from \in prefix /\ to \in prefix
        /\ \A x \in prefix : from <= x /\ x <= to
    BY <1>1, <1>3, MinOfMaxOf
  <2>2. \A x \in list.items : x <= to => x \in prefix
    <3> SUFFICES ASSUME NEW x \in list.items, x <= to, NEW y \in list.items, y <= x
                 PROVE  y \in list.ready
      BY DEF ReadyPrefix
    <3>1. x \in Int /\ y \in Int /\ to \in Int
      BY <2>1, <1>1, AggregatorAssumption DEF IsList, Refs
    <3>2. y <= to
      BY <3>1
    <3> QED
      BY <3>2, <2>1, <1>1
  <2>3. /\ q \in QueryType /\ q.from = from /\ q.to = to /\ q.done = {}
        /\ q.must = {r \in store : from <= r /\ r <= to /\ buckets # "overlapping"}
    <3>1. from \in Refs /\ to \in Refs
      BY <2>1, <1>1
    <3> HIDE DEF from, to
    <3> QED
      BY <3>1 DEF QueryType
  <2>4. /\ queryStreams' = streams \cup {q}
        /\ items' = {r \in list.items : r > to} /\ ready' = {r \in list.ready : r > to}
        /\ threshold' = to
    BY <1>3 DEF doCheck, shrink
  <2>5. list.items # {} /\ stream' = stream
    <3>1. list.items # {}
      BY <1>1, <1>3
    <3> QED
      BY <3>1, <1>3 DEF doCheck, NothingLeft
  <2> HIDE DEF q, from, to, prefix
  <2>6. Queried(list, streams, store)
    BY <2>1, <2>2, <2>3, <2>4, <1>1 DEF Queried, In
  <2> QED
    BY <2>5, <2>6, <1>3
<1> QED
  BY <1>2, <1>3

-----------------------------------------------------------------------------
(* The invariant between an event and its doCheck: as IInv', but with the list, the queries  *)
(* and the state of the client's stream as the event has left them.                          *)

TypesDone(list, streams, str) ==
    /\ IsList(list)
    /\ buckets' = buckets /\ buckets \in Layouts
    /\ db' \subseteq Refs
    /\ foreignNodeResponses' \in [Nodes -> {"absent", "waiting", "finalized"}]
    /\ scan' \in [left : SUBSET Refs, state : {"flowing", "ended", "failed"}]
    /\ responseChunker' \in ChunkerType(Refs)
    /\ storing' \subseteq [node : Nodes, refs : SUBSET Refs, left : SUBSET Refs]
    /\ streams \subseteq QueryType
    /\ output' \in Seq(Refs)
    /\ str \in {"open", "ending", "closed", "destroyed"}
    /\ exited' \in BOOLEAN

ForeignDone(str) ==
    /\ online' \subseteq Nodes /\ primary' \subseteq Refs
    /\ peers' \in [Nodes -> SUBSET Refs]
    /\ toRespond' \in [Nodes -> [left : SUBSET Refs, isFinal : BOOLEAN]]
    /\ toPropagate' \in [Nodes -> SUBSET Refs]
    /\ inOrder' \in BOOLEAN
    /\ \A f \in online' : foreignNodeResponses'[f] # "absent"
    /\ inOrder' => \A f \in Nodes :
                     foreignNodeResponses'[f] = "finalized" => toRespond'[f].left = {}
    /\ str # "open" => \A f \in online' : foreignNodeResponses'[f] = "finalized"

ScanDone(list, str) ==
    /\ scan'.left \subseteq primary'
    /\ scan'.state = "ended" => scan'.left = {}
    /\ responseChunker'.isFinal => scan'.state = "ended"
    /\ str # "open" => scan'.state # "flowing"
    /\ buckets' = "one" =>
          \A s \in scan'.left :
             /\ threshold < s
             /\ \A x \in Has(responseChunker') : x < s
             /\ \A x \in list.ready : x < s
             /\ \A p \in storing' : \A x \in p.left : x < s

ListDone(list) ==
    /\ primary' \subseteq db' /\ list.ready \subseteq db'
    /\ \A x \in list.items : threshold < x

QueriesDone(streams, str) ==
    /\ \A q \in streams :
          /\ q.from <= q.to /\ q.to <= threshold
          /\ \A r \in q.done : In(q, r)
          /\ str # "destroyed" => q.done \subseteq Given'
          /\ \A g \in Given' : In(q, g) => g \in q.done
    /\ \A p, q \in streams : p # q => p.to < q.from \/ q.to < p.from
    /\ \A g \in Given' : g <= threshold

ListedDone(list, streams) ==
    inOrder' =>
       /\ \A r \in Expected' :
             \/ r <= threshold \/ r \in list.items \/ r \in scan'.left
             \/ \E f \in online' : /\ foreignNodeResponses'[f] = "waiting"
                                   /\ r \in toRespond'[f].left
       /\ \A r \in Promised' :
             r <= threshold => r \in Given' \/ \E q \in streams : r \in q.must

ClientDone(str) ==
    /\ inOrder' /\ scan'.state # "failed" /\ str \in {"ending", "closed"}
       => Promised' \subseteq Given'
    /\ NoDuplicates'

EventDone(list, streams, str) ==
    /\ TypesDone(list, streams, str) /\ ForeignDone(str) /\ ScanDone(list, str)
    /\ ListDone(list) /\ QueriesDone(streams, str)
    /\ ListedDone(list, streams) /\ ClientDone(str)

\* An event that does not call doCheck.
LEMMA NoCheckStep ==
  ASSUME NEW list, NEW streams, NEW str, EventDone(list, streams, str),
         Kept(list, streams), stream' = str
  PROVE  IInv'
<1>1. /\ items' = list.items /\ ready' = list.ready /\ threshold' = threshold
      /\ queryStreams' = streams
  BY DEF Kept, EventDone, TypesDone, IsList
<1>2. TypeOK'
  BY <1>1 DEF EventDone, TypesDone, IsList, TypeOK, QueryType
<1>3. ForeignOK'
  BY <1>1 DEF EventDone, ForeignDone, ForeignOK
<1>4. ScanOK'
  BY <1>1 DEF EventDone, ScanDone, ScanOK
<1>5. ListOK'
  BY <1>1 DEF EventDone, ListDone, ListOK
<1>6. QueriesOK'
  BY <1>1 DEF EventDone, QueriesDone, QueriesOK, In
<1>7. EverythingListed' /\ NothingPassedOver'
  BY <1>1 DEF EventDone, ListedDone, EverythingListed, NothingPassedOver
<1>8. EndedMeansComplete' /\ NoDuplicates'
  BY <1>1 DEF EventDone, ClientDone, EndedMeansComplete, Ended
<1> QED
  BY <1>2, <1>3, <1>4, <1>5, <1>6, <1>7, <1>8 DEF IInv

\* doCheck after an event: the threshold passes only what is ready, and the stream is ended
\* only when there is nothing more to come.
LEMMA CheckStep ==
  ASSUME NEW list, NEW streams, NEW scanning,
         EventDone(list, streams, stream),
         doCheck(list, foreignNodeResponses', streams, scanning, db'),
         scanning = {} => scan'.state # "flowing"
  PROVE  IInv'
<1>1. /\ TypesDone(list, streams, stream) /\ ForeignDone(stream) /\ ScanDone(list, stream)
      /\ ListDone(list) /\ QueriesDone(streams, stream)
      /\ ListedDone(list, streams) /\ ClientDone(stream)
  BY DEF EventDone
<1>2. /\ \/ Kept(list, streams)
         \/ /\ ~isWaitingForForeignNodes(foreignNodeResponses') /\ list.items # {}
            /\ Queried(list, streams, db')
      /\ \/ stream' = stream
         \/ /\ ~isWaitingForForeignNodes(foreignNodeResponses')
            /\ list.items = {} /\ streams = {} /\ scanning = {}
            /\ stream = "open" /\ stream' = "ending" /\ Kept(list, streams)
  <2>1. IsList(list) /\ db' \subseteq Refs
    BY <1>1 DEF TypesDone
  <2> QED
    BY <2>1, DoCheckFields
<1>3. CASE Kept(list, streams) /\ stream' = stream
  BY <1>3, NoCheckStep
<1>4. ASSUME ~isWaitingForForeignNodes(foreignNodeResponses')
      PROVE  \A f \in online' : foreignNodeResponses'[f] = "finalized"
  BY <1>1, <1>4 DEF isWaitingForForeignNodes, ForeignDone, TypesDone
<1>5. CASE /\ ~isWaitingForForeignNodes(foreignNodeResponses')
           /\ list.items = {} /\ streams = {} /\ scanning = {}
           /\ stream = "open" /\ stream' = "ending" /\ Kept(list, streams)
  <2>1. TypesDone(list, streams, "ending") /\ ForeignDone("ending")
    BY <1>1, <1>4, <1>5 DEF TypesDone, ForeignDone
  <2>2. ScanDone(list, "ending") /\ QueriesDone(streams, "ending")
    BY <1>1, <1>5 DEF ScanDone, QueriesDone
  <2>3. ASSUME inOrder', scan'.state # "failed", NEW r \in Promised'
        PROVE  r \in Given'
    <3>1. scan'.state \in {"flowing", "ended", "failed"}
      BY <1>1 DEF TypesDone
    <3>2. scan'.left = {}
      BY <3>1, <2>3, <1>1, <1>5 DEF ScanDone
    <3>3. r <= threshold
      BY <3>2, <2>3, <1>1, <1>4, <1>5 DEF ListedDone, Promised
    <3> QED
      BY <3>3, <2>3, <1>1, <1>5 DEF ListedDone
  <2>4. ClientDone("ending")
    BY <2>3, <1>1 DEF ClientDone
  <2>5. EventDone(list, streams, "ending")
    BY <2>1, <2>2, <2>4, <1>1 DEF EventDone
  <2> QED
    BY <2>5, <1>5, NoCheckStep
<1>6. CASE /\ ~isWaitingForForeignNodes(foreignNodeResponses')
           /\ Queried(list, streams, db') /\ stream' = stream
  <2>1. PICK q \in QueryType :
           /\ q.from \in list.ready /\ q.to \in list.ready /\ q.from <= q.to
           /\ \A x \in list.items : x <= q.to => x \in list.ready /\ q.from <= x
           /\ q.done = {}
           /\ \A x : x \in q.must <=> x \in db' /\ In(q, x) /\ buckets # "overlapping"
           /\ queryStreams' = streams \cup {q}
           /\ \A x : x \in items' <=> x \in list.items /\ x > q.to
           /\ \A x : x \in ready' <=> x \in list.ready /\ x > q.to
           /\ threshold' = q.to
    BY <1>6 DEF Queried
  <2>2. /\ list.items \subseteq Refs /\ list.ready \subseteq list.items
        /\ threshold \in Refs \cup {Undefined}
        /\ \A x \in Refs \cup {Undefined} : x \in Int
        /\ q.from \in Refs /\ q.to \in Refs
    BY <1>1, AggregatorAssumption DEF TypesDone, IsList, Refs, Undefined, QueryType
  <2>3. threshold < q.from /\ threshold < q.to /\ threshold \in Int
        /\ q.from \in Int /\ q.to \in Int
    BY <2>1, <2>2, <1>1 DEF ListDone
  <2>4. /\ db' \subseteq Refs /\ buckets' = buckets /\ buckets \in Layouts
        /\ foreignNodeResponses' \in [Nodes -> {"absent", "waiting", "finalized"}]
        /\ scan' \in [left : SUBSET Refs, state : {"flowing", "ended", "failed"}]
        /\ responseChunker' \in ChunkerType(Refs)
        /\ storing' \subseteq [node : Nodes, refs : SUBSET Refs, left : SUBSET Refs]
        /\ streams \subseteq QueryType
        /\ output' \in Seq(Refs)
        /\ stream' \in {"open", "ending", "closed", "destroyed"}
        /\ exited' \in BOOLEAN
    BY <1>1, <1>6 DEF TypesDone
  <2>5. TypeOK'
    <3>1. items' \subseteq Refs /\ ready' \subseteq items' /\ threshold' \in Refs \cup {Undefined}
      BY <2>1, <2>2
    <3>2. queryStreams' \subseteq QueryType
      BY <2>1, <2>4
    <3> QED
      BY <2>4, <3>1, <3>2 DEF TypeOK, QueryType
  <2>6. ForeignOK'
    BY <1>1, <1>6 DEF ForeignDone, ForeignOK
  <2>7. ScanOK'
    BY <2>1, <1>1, <1>6 DEF ScanDone, ScanOK
  <2>8. ListOK'
    BY <2>1, <2>2, <1>1 DEF ListDone, ListOK
  <2>9. Given' \subseteq Refs
    BY <2>4 DEF Given
  <2>10. \A p \in streams : p.to <= threshold /\ p.to \in Int /\ p.from \in Int
    BY <2>2, <2>4, <1>1 DEF QueriesDone, QueryType
  <2>11. \A g \in Given' : g <= threshold /\ g \in Int
    BY <2>2, <2>9, <1>1 DEF QueriesDone
  <2>12. \A p \in queryStreams' :
            /\ p.from <= p.to /\ p.to <= threshold'
            /\ \A r \in p.done : In(p, r)
            /\ stream' # "destroyed" => p.done \subseteq Given'
            /\ \A g \in Given' : In(p, g) => g \in p.done
    <3> TAKE p \in queryStreams'
    <3>1. CASE p = q
      BY <3>1, <2>1, <2>3, <2>11 DEF In
    <3>2. CASE p \in streams
      BY <3>2, <2>1, <2>3, <2>10, <1>1, <1>6 DEF QueriesDone
    <3> QED
      BY <3>1, <3>2, <2>1
  <2>13. \A p, s \in queryStreams' : p # s => p.to < s.from \/ s.to < p.from
    <3>1. \A p \in streams : p.to < q.from
      BY <2>3, <2>10
    <3> QED
      BY <3>1, <2>1, <1>1 DEF QueriesDone
  <2>14. QueriesOK'
    <3>1. \A g \in Given' : g <= threshold'
      BY <2>1, <2>3, <2>11
    <3> QED
      BY <3>1, <2>12, <2>13 DEF QueriesOK, In
  <2>15. ASSUME inOrder', NEW r \in Expected'
         PROVE  /\ \/ r <= threshold' \/ r \in items' \/ r \in scan'.left
                /\ r \in Promised' /\ r <= threshold'
                   => r \in Given' \/ \E p \in queryStreams' : r \in p.must
    <3>1. r \in Int
      BY <2>2, <1>1 DEF Expected, ForeignDone
    <3>2. \/ r <= threshold \/ r \in list.items \/ r \in scan'.left
      BY <2>15, <1>1, <1>4, <1>6 DEF ListedDone
    <3>3. CASE r <= threshold
      <4>1. r \in Promised' => r \in Given' \/ \E p \in streams : r \in p.must
        BY <3>3, <2>15, <1>1 DEF ListedDone
      <4>2. r <= threshold'
        BY <3>1, <3>3, <2>1, <2>3
      <4> QED
        BY <4>1, <4>2, <2>1
    <3>4. CASE r \in list.items
      <4>1. CASE r <= q.to
        <5>1. r \in list.ready /\ q.from <= r
          BY <4>1, <3>4, <2>1
        <5>2. r \in Promised' => r \in q.must
          BY <5>1, <4>1, <2>1, <2>4, <1>1 DEF ListDone, In, Promised
        <5> QED
          BY <5>2, <4>1, <2>1
      <4>2. CASE ~(r <= q.to)
        BY <4>2, <3>1, <3>4, <2>1, <2>3
      <4> QED
        BY <4>1, <4>2
    <3>5. CASE r \in scan'.left
      <4>1. buckets' = "one" => q.to < r
        BY <3>5, <2>1, <1>1 DEF ScanDone
      <4>2. r \in Promised' => buckets' = "one"
        BY <3>5, <1>1 DEF ScanDone, Promised
      <4> QED
        BY <4>1, <4>2, <3>1, <3>5, <2>1, <2>3
    <3> QED
      BY <3>2, <3>3, <3>4, <3>5
  <2>16. EverythingListed' /\ NothingPassedOver'
    BY <2>15 DEF EverythingListed, NothingPassedOver, Promised
  <2>17. EndedMeansComplete' /\ NoDuplicates'
    BY <1>1, <1>6 DEF ClientDone, EndedMeansComplete, Ended
  <2> QED
    BY <2>5, <2>6, <2>7, <2>8, <2>14, <2>16, <2>17 DEF IInv
<1> QED
  BY <1>2, <1>3, <1>5, <1>6

-----------------------------------------------------------------------------
(* The initial state and the steps *)

\* The invariant holds when the aggregator is created.
LEMMA InitIInv ==
  ASSUME Init
  PROVE  IInv
<1>1. NewChunker \in ChunkerType(Refs) /\ Has(NewChunker) = {} /\ NewChunker.isFinal = FALSE
  BY DEF NewChunker, ChunkerType, Has
<1>2. output = <<>> /\ output \in Seq(Refs) /\ Len(output) = 0
  BY DEF Init
<1>3. Given = {} /\ NoDuplicates
  BY <1>2 DEF Given, NoDuplicates
<1>4. /\ toRespond \in [Nodes -> [left : SUBSET Refs, isFinal : BOOLEAN]]
      /\ \A f \in Nodes : toRespond[f].left = peers[f]
      /\ toPropagate \in [Nodes -> SUBSET Refs]
      /\ foreignNodeResponses \in [Nodes -> {"absent", "waiting", "finalized"}]
      /\ \A f \in Nodes : foreignNodeResponses[f] # "finalized"
      /\ \A f \in online : foreignNodeResponses[f] = "waiting"
  BY DEF Init
<1>5. TypeOK
  BY <1>1, <1>2, <1>4 DEF Init, TypeOK, Undefined
<1>6. ForeignOK
  BY <1>4 DEF Init, ForeignOK
<1>7. ScanOK
  <2>1. \A s \in primary : threshold < s
    BY AggregatorAssumption DEF Init, Refs, Undefined
  <2> QED
    BY <2>1, <1>1 DEF Init, ScanOK
<1>8. ListOK /\ QueriesOK
  BY <1>3 DEF Init, ListOK, QueriesOK
<1>9. ASSUME NEW r \in Expected
      PROVE  /\ r \in scan.left \/ \E f \in online : /\ foreignNodeResponses[f] = "waiting"
                                                     /\ r \in toRespond[f].left
             /\ ~(r <= threshold)
  <2>1. r \in Refs
    BY DEF Expected, Init
  <2>2. ~(r <= threshold)
    BY <2>1, AggregatorAssumption DEF Init, Refs, Undefined
  <2> QED
    BY <2>2, <1>4 DEF Init, Expected
<1>10. EverythingListed /\ NothingPassedOver
  BY <1>9 DEF EverythingListed, NothingPassedOver, Promised
<1>11. EndedMeansComplete
  BY DEF Init, EndedMeansComplete, Ended
<1> QED
  BY <1>3, <1>5, <1>6, <1>7, <1>8, <1>10, <1>11 DEF IInv

\* The list as an event finds it.
LEMMA ListFields ==
  ASSUME IInv
  PROVE  /\ IsList(List) /\ queryStreams \subseteq QueryType
         /\ List.items = items /\ List.ready = ready /\ List.threshold = threshold
  BY DEF IInv, TypeOK, IsList, List, QueryType

\* An event that leaves the foreign nodes' answers, the queries and the client alone.
LEMMA QuietEvent ==
  ASSUME IInv,
         UNCHANGED <<online, primary, peers, buckets, toRespond, inOrder, foreignNodeResponses,
                     output>>,
         toPropagate' \in [Nodes -> SUBSET Refs]
  PROVE  /\ ForeignDone(stream)
         /\ QueriesDone(queryStreams, stream)
         /\ Given' = Given /\ Expected' = Expected /\ Promised' = Promised
         /\ NoDuplicates'
<1>1. Given' = Given /\ Expected' = Expected /\ Promised' = Promised
      /\ NoDuplicates'
  BY DEF Given, Expected, Promised, IInv, NoDuplicates
<1>2. ForeignDone(stream)
  BY DEF IInv, ForeignOK, ForeignDone
<1>3. QueriesDone(queryStreams, stream)
  BY <1>1 DEF IInv, QueriesOK, QueriesDone, In
<1> QED
  BY <1>1, <1>2, <1>3

\* The scan yields a reference, of one bucket the least, which is above the threshold; of
\* several it may be one the threshold has passed, which is not listed.
LEMMA ScanDataStep ==
  ASSUME IInv, NEW r \in scan.left, ScanData(r)
  PROVE  IInv'
<1> DEFINE list == push(List, {r}, TRUE)
<1>1. TypeOK /\ ForeignOK /\ ScanOK /\ ListOK
  BY DEF IInv
<1>2. /\ scan.state = "flowing"
      /\ buckets = "one" => \A y \in scan.left : r <= y
      /\ scan' = [scan EXCEPT !.left = @ \ {r}]
      /\ doCheck(list, foreignNodeResponses, queryStreams, Scanning("flowing"), db)
      /\ \E bytesFull \in BOOLEAN : responseChunker' = Transform(responseChunker, r, bytesFull)
      /\ UNCHANGED <<online, primary, peers, buckets, db, toRespond, inOrder, toPropagate,
                     foreignNodeResponses, storing, output, exited>>
  BY DEF ScanData, environment, foreignVars
<1>3. scan.left \subseteq Refs /\ r \in Refs
  BY <1>1 DEF TypeOK
<1>4. /\ IsList(List) /\ queryStreams \subseteq QueryType
      /\ \A x \in Refs \cup {Undefined} : x \in Int
  BY ListFields, AggregatorAssumption DEF Refs, Undefined
<1>5. r > threshold <=> threshold < r
  BY <1>1, <1>3, <1>4 DEF TypeOK
<1>6. /\ IsList(list)
      /\ \A x : x \in list.items <=> x \in items \/ (x = r /\ x > threshold)
      /\ \A x : x \in list.ready <=> x \in ready \/ (x = r /\ x > threshold)
  <2>1. {r} \subseteq Refs /\ TRUE \in BOOLEAN
    BY <1>3
  <2>2. /\ IsList(list)
        /\ \A x : x \in list.items <=> x \in items \/ (x \in {r} /\ x > threshold)
        /\ \A x : x \in list.ready <=> x \in ready \/ (TRUE /\ x \in {r} /\ x > threshold)
    BY <2>1, <1>4, PushFields
  <2> HIDE DEF list
  <2> QED
    BY <2>2, <1>5
<1> HIDE DEF list
<1>7. /\ scan'.left = scan.left \ {r} /\ scan'.state = "flowing"
      /\ scan' \in [left : SUBSET Refs, state : {"flowing", "ended", "failed"}]
  BY <1>1, <1>2 DEF TypeOK
<1>8. /\ responseChunker' \in ChunkerType(Refs)
      /\ Has(responseChunker') = Has(responseChunker) \cup {r}
      /\ responseChunker'.isFinal = responseChunker.isFinal
  <2>1. responseChunker \in ChunkerType(Refs)
    BY <1>1 DEF TypeOK
  <2> QED
    BY <2>1, <1>2, <1>3, ChunkerFields
<1>9. /\ ForeignDone(stream) /\ QueriesDone(queryStreams, stream)
      /\ Given' = Given /\ Expected' = Expected /\ Promised' = Promised
      /\ NoDuplicates'
  <2>1. toPropagate' \in [Nodes -> SUBSET Refs]
    BY <1>1, <1>2 DEF ForeignOK
  <2> QED
    BY <2>1, <1>2, QuietEvent
<1>10. TypesDone(list, queryStreams, stream)
  BY <1>1, <1>2, <1>4, <1>6, <1>7, <1>8 DEF TypesDone, TypeOK
<1>11. stream = "open" /\ ~responseChunker.isFinal
  BY <1>1, <1>2 DEF ScanOK
<1>12. ASSUME NEW s \in scan'.left
       PROVE  (buckets = "one" => r < s) /\ s \in scan.left
  BY <1>2, <1>3, <1>4, <1>7
<1>13. ScanDone(list, stream)
  BY <1>1, <1>2, <1>6, <1>7, <1>8, <1>11, <1>12 DEF ScanOK, ScanDone
<1>14. ListDone(list)
  BY <1>1, <1>2, <1>3, <1>5, <1>6 DEF ScanOK, ListOK, ListDone
<1>15. ListedDone(list, queryStreams)
  <2>1. r <= threshold \/ r > threshold
    BY <1>1, <1>3, <1>4 DEF TypeOK
  <2> QED
    BY <2>1, <1>2, <1>6, <1>7, <1>9
       DEF IInv, EverythingListed, NothingPassedOver, ListedDone
<1>16. ClientDone(stream)
  BY <1>9, <1>11 DEF ClientDone
<1>17. EventDone(list, queryStreams, stream)
  BY <1>9, <1>10, <1>13, <1>14, <1>15, <1>16 DEF EventDone
<1>18. Scanning("flowing") # {}
  BY DEF Scanning
<1>19. doCheck(list, foreignNodeResponses', queryStreams, Scanning("flowing"), db')
  BY <1>2
<1> QED
  BY <1>17, <1>18, <1>19, CheckStep

\* Scanning counts the scan while it flows.
LEMMA ScanningFields ==
  ASSUME NEW state
  PROVE  Scanning(state) = {} => state # "flowing"
  BY DEF Scanning

\* The scan ends.
LEMMA ScanEndStep ==
  ASSUME IInv, ScanEnd
  PROVE  IInv'
<1>1. TypeOK /\ ForeignOK /\ ScanOK /\ ListOK
  BY DEF IInv
<1>2. /\ scan = [left |-> {}, state |-> "flowing"]
      /\ scan' = [scan EXCEPT !.state = "ended"]
      /\ doCheck(List, foreignNodeResponses, queryStreams, Scanning("ended"), db)
      /\ UNCHANGED <<online, primary, peers, buckets, db, toRespond, inOrder, toPropagate,
                     foreignNodeResponses, responseChunker, storing, output, exited>>
  BY DEF ScanEnd, environment, foreignVars
<1>3. /\ scan'.left = {} /\ scan'.state = "ended" /\ scan.left = {} /\ scan.state = "flowing"
      /\ scan' \in [left : SUBSET Refs, state : {"flowing", "ended", "failed"}]
  BY <1>2
<1>4. /\ IsList(List) /\ queryStreams \subseteq QueryType
      /\ List.items = items /\ List.ready = ready
  BY ListFields
<1>5. /\ ForeignDone(stream) /\ QueriesDone(queryStreams, stream)
      /\ Given' = Given /\ Expected' = Expected /\ Promised' = Promised
      /\ NoDuplicates'
  <2>1. toPropagate' \in [Nodes -> SUBSET Refs]
    BY <1>1, <1>2 DEF ForeignOK
  <2> QED
    BY <2>1, <1>2, QuietEvent
<1>6. TypesDone(List, queryStreams, stream)
  BY <1>1, <1>2, <1>3, <1>4 DEF TypesDone, TypeOK
<1>7. stream = "open"
  BY <1>1, <1>3 DEF ScanOK
<1>8. ScanDone(List, stream) /\ ListDone(List)
  BY <1>1, <1>2, <1>3, <1>4, <1>7 DEF ScanDone, ListOK, ListDone
<1>9. ListedDone(List, queryStreams)
  BY <1>2, <1>3, <1>4, <1>5 DEF IInv, EverythingListed, NothingPassedOver, ListedDone
<1>10. ClientDone(stream)
  BY <1>5, <1>7 DEF ClientDone
<1>11. EventDone(List, queryStreams, stream)
  BY <1>5, <1>6, <1>8, <1>9, <1>10 DEF EventDone
<1>12. doCheck(List, foreignNodeResponses', queryStreams, Scanning("ended"), db')
  BY <1>2
<1>13. Scanning("ended") = {} => scan'.state # "flowing"
  BY <1>3
<1> QED
  BY <1>11, <1>12, <1>13, CheckStep

\* The scan fails: what it has not yielded stays above the threshold for ever.
LEMMA ScanErrorStep ==
  ASSUME IInv, ScanError
  PROVE  IInv'
<1>1. TypeOK /\ ForeignOK /\ ScanOK /\ ListOK
  BY DEF IInv
<1>2. /\ scan.state = "flowing" /\ scan' = [scan EXCEPT !.state = "failed"]
      /\ UNCHANGED <<online, primary, peers, buckets, db, toRespond, inOrder, toPropagate,
                     foreignNodeResponses, responseChunker, storing, output, exited>>
      /\ UNCHANGED <<items, ready, threshold, queryStreams, stream>>
  BY DEF ScanError, environment, foreignVars, listVars
<1>3. /\ scan'.left = scan.left /\ scan'.state = "failed"
      /\ scan' \in [left : SUBSET Refs, state : {"flowing", "ended", "failed"}]
  BY <1>1, <1>2 DEF TypeOK
<1>4. /\ IsList(List) /\ queryStreams \subseteq QueryType
      /\ List.items = items /\ List.ready = ready /\ List.threshold = threshold
  BY ListFields
<1>5. /\ ForeignDone(stream) /\ QueriesDone(queryStreams, stream)
      /\ Given' = Given /\ Expected' = Expected /\ Promised' = Promised
      /\ NoDuplicates'
  <2>1. toPropagate' \in [Nodes -> SUBSET Refs]
    BY <1>1, <1>2 DEF ForeignOK
  <2> QED
    BY <2>1, <1>2, QuietEvent
<1>6. TypesDone(List, queryStreams, stream)
  BY <1>1, <1>2, <1>3, <1>4 DEF TypesDone, TypeOK
<1>7. stream = "open" /\ ~responseChunker.isFinal
  BY <1>1, <1>2 DEF ScanOK
<1>8. ScanDone(List, stream) /\ ListDone(List)
  BY <1>1, <1>2, <1>3, <1>4, <1>7 DEF ScanOK, ScanDone, ListOK, ListDone
<1>9. ListedDone(List, queryStreams)
  BY <1>2, <1>3, <1>4, <1>5 DEF IInv, EverythingListed, NothingPassedOver, ListedDone
<1>10. ClientDone(stream)
  BY <1>5, <1>7 DEF ClientDone
<1>11. EventDone(List, queryStreams, stream)
  BY <1>5, <1>6, <1>8, <1>9, <1>10 DEF EventDone
<1>12. Kept(List, queryStreams) /\ stream' = stream
  BY <1>2, <1>4 DEF Kept
<1> QED
  BY <1>11, <1>12, NoCheckStep

\* An event that leaves scan and list alone too, but may add to the store, what is being
\* stored and what has been responded; the Chunker keeps what it has.
LEMMA QuietList ==
  ASSUME IInv,
         UNCHANGED <<online, primary, peers, buckets, db, toRespond, inOrder, foreignNodeResponses,
                     scan, output>>,
         toPropagate' \in [Nodes -> SUBSET Refs],
         responseChunker' \in ChunkerType(Refs),
         Has(responseChunker') = Has(responseChunker),
         responseChunker'.isFinal => scan.state = "ended",
         storing' \subseteq [node : Nodes, refs : SUBSET Refs, left : SUBSET Refs],
         buckets = "one" =>
            \A s \in scan.left : \A p \in storing' : \A x \in p.left : x < s,
         exited' \in BOOLEAN
  PROVE  EventDone(List, queryStreams, stream)
<1>1. TypeOK /\ ForeignOK /\ ScanOK /\ ListOK
  BY DEF IInv
<1>2. /\ IsList(List) /\ queryStreams \subseteq QueryType
      /\ List.items = items /\ List.ready = ready
  BY ListFields
<1>3. /\ ForeignDone(stream) /\ QueriesDone(queryStreams, stream)
      /\ Given' = Given /\ Expected' = Expected /\ Promised' = Promised
      /\ NoDuplicates'
  BY QuietEvent
<1>4. TypesDone(List, queryStreams, stream)
  BY <1>1, <1>2 DEF TypesDone, TypeOK
<1>5. ScanDone(List, stream) /\ ListDone(List)
  BY <1>1, <1>2 DEF ScanOK, ScanDone, ListOK, ListDone
<1>6. ListedDone(List, queryStreams)
  BY <1>2, <1>3 DEF IInv, EverythingListed, NothingPassedOver, ListedDone
<1>7. ClientDone(stream)
  BY <1>3 DEF IInv, EndedMeansComplete, Ended, ClientDone
<1> QED
  BY <1>3, <1>4, <1>5, <1>6, <1>7 DEF EventDone

\* The response Chunker hands over what it has as the final response.
LEMMA ResponseFinishStep ==
  ASSUME IInv, ResponseFinish
  PROVE  IInv'
<1>1. TypeOK /\ ForeignOK /\ ScanOK
  BY DEF IInv
<1>2. /\ scan.state = "ended" /\ responseChunker' = Finish(responseChunker)
      /\ UNCHANGED <<online, primary, peers, buckets, db, toRespond, inOrder, toPropagate,
                     foreignNodeResponses, scan, storing, output, exited>>
      /\ UNCHANGED <<items, ready, threshold, queryStreams, stream>>
  BY DEF ResponseFinish, environment, foreignVars, listVars
<1>3. responseChunker' \in ChunkerType(Refs) /\ Has(responseChunker') = Has(responseChunker)
  <2>1. responseChunker \in ChunkerType(Refs)
    BY <1>1 DEF TypeOK
  <2>2. /\ Finish(responseChunker) \in ChunkerType(Refs)
        /\ Has(Finish(responseChunker)) = Has(responseChunker)
    BY <2>1 DEF Finish, HandOver, ChunkerType, Has
  <2> QED
    BY <1>2, <2>2
<1>4. /\ toPropagate' \in [Nodes -> SUBSET Refs]
      /\ storing' \subseteq [node : Nodes, refs : SUBSET Refs, left : SUBSET Refs]
      /\ buckets = "one" =>
            \A s \in scan.left : \A p \in storing' : \A x \in p.left : x < s
      /\ exited' \in BOOLEAN
      /\ responseChunker'.isFinal => scan.state = "ended"
  BY <1>1, <1>2 DEF TypeOK, ForeignOK, ScanOK
<1>5. EventDone(List, queryStreams, stream)
  BY <1>2, <1>3, <1>4, QuietList
<1>6. Kept(List, queryStreams)
  BY <1>2, ListFields DEF Kept
<1> QED
  BY <1>2, <1>5, <1>6, NoCheckStep

\* The process ends: nothing else changes.
LEMMA ExitStep ==
  ASSUME IInv, exited' = TRUE,
         UNCHANGED <<environment, db, foreignVars, foreignNodeResponses, listVars, scan,
                     responseChunker, storing, queryStreams, output, stream>>
  PROVE  IInv'
<1>1. /\ UNCHANGED <<online, primary, peers, buckets, db, toRespond, inOrder, foreignNodeResponses,
                     scan, output>>
      /\ UNCHANGED <<toPropagate, responseChunker, storing>>
      /\ UNCHANGED <<items, ready, threshold, queryStreams, stream>>
  BY DEF environment, foreignVars, listVars
<1>2. /\ toPropagate' \in [Nodes -> SUBSET Refs]
      /\ responseChunker' \in ChunkerType(Refs)
      /\ Has(responseChunker') = Has(responseChunker)
      /\ responseChunker'.isFinal => scan.state = "ended"
      /\ storing' \subseteq [node : Nodes, refs : SUBSET Refs, left : SUBSET Refs]
      /\ buckets = "one" =>
            \A s \in scan.left : \A p \in storing' : \A x \in p.left : x < s
  BY <1>1 DEF IInv, TypeOK, ForeignOK, ScanOK
<1>3. exited' \in BOOLEAN
  OBVIOUS
<1>4. EventDone(List, queryStreams, stream)
  BY <1>1, <1>2, <1>3, QuietList
<1>5. Kept(List, queryStreams)
  BY <1>1, ListFields DEF Kept
<1> QED
  BY <1>1, <1>4, <1>5, NoCheckStep

\* The client's stream is closed after it was ended.
LEMMA CloseStep ==
  ASSUME IInv, Close
  PROVE  IInv'
<1>1. /\ UNCHANGED <<online, primary, peers, buckets, db, toRespond, inOrder, foreignNodeResponses,
                     scan, output>>
      /\ UNCHANGED <<toPropagate, responseChunker, storing, exited>>
      /\ UNCHANGED <<items, ready, threshold, queryStreams>>
      /\ stream = "ending" /\ stream' = "closed"
  BY DEF Close, environment, foreignVars, listVars
<1>2. /\ toPropagate' \in [Nodes -> SUBSET Refs]
      /\ responseChunker' \in ChunkerType(Refs)
      /\ Has(responseChunker') = Has(responseChunker)
      /\ responseChunker'.isFinal => scan.state = "ended"
      /\ storing' \subseteq [node : Nodes, refs : SUBSET Refs, left : SUBSET Refs]
      /\ buckets = "one" =>
            \A s \in scan.left : \A p \in storing' : \A x \in p.left : x < s
      /\ exited' \in BOOLEAN
  BY <1>1 DEF IInv, TypeOK, ForeignOK, ScanOK
<1>3. EventDone(List, queryStreams, stream)
  BY <1>1, <1>2, QuietList
<1>4. /\ TypesDone(List, queryStreams, "closed") /\ ForeignDone("closed")
      /\ ScanDone(List, "closed") /\ QueriesDone(queryStreams, "closed")
      /\ ClientDone("closed")
  BY <1>1, <1>3 DEF EventDone, TypesDone, ForeignDone, ScanDone, QueriesDone, ClientDone
<1>5. EventDone(List, queryStreams, "closed")
  BY <1>3, <1>4 DEF EventDone
<1>6. Kept(List, queryStreams)
  BY <1>1, ListFields DEF Kept
<1> QED
  BY <1>1, <1>5, <1>6, NoCheckStep

\* Messages arrive from a foreign node: they are below what the scan has yet to yield, for
\* the node has not run ahead of the primary.
LEMMA PropagationStep ==
  ASSUME IInv, NEW f \in Nodes, NEW refs, NEW isLast \in BOOLEAN,
         onPropagation(f, refs, isLast)
  PROVE  IInv'
<1>1. TypeOK /\ ForeignOK /\ ScanOK
  BY DEF IInv
<1>2. /\ refs \subseteq toPropagate[f] /\ MayPropagate(refs)
      /\ toPropagate' = [toPropagate EXCEPT ![f] = @ \ refs]
      /\ UNCHANGED <<online, primary, peers, buckets, db, toRespond, inOrder, foreignNodeResponses,
                     scan, output>>
      /\ UNCHANGED <<responseChunker, exited>>
  BY DEF onPropagation, environment
<1>3. toPropagate' \in [Nodes -> SUBSET Refs] /\ refs \subseteq Refs
  BY <1>1, <1>2 DEF ForeignOK
<1>4. buckets = "one" => \A s \in scan.left : \A x \in refs : x < s
  <2> SUFFICES ASSUME buckets = "one", NEW s \in scan.left, NEW x \in refs
               PROVE  x < s
    OBVIOUS
  <2>1. ~responseChunker.isFinal
    BY <1>1 DEF ScanOK
  <2>2. PICK y \in responseChunker.out : x <= y
    BY <2>1, <1>2 DEF MayPropagate
  <2>3. y < s
    BY <2>2, <1>1 DEF ScanOK, Has
  <2>4. x \in Int /\ y \in Int /\ s \in Int
    <3>1. x \in Refs /\ y \in Refs /\ s \in Refs
      BY <1>1, <1>3, <2>2 DEF TypeOK, ChunkerType
    <3> QED
      BY <3>1, AggregatorAssumption DEF Refs
  <2> QED
    BY <2>2, <2>3, <2>4
<1>5. /\ responseChunker' \in ChunkerType(Refs)
      /\ Has(responseChunker') = Has(responseChunker)
      /\ responseChunker'.isFinal => scan.state = "ended"
      /\ exited' \in BOOLEAN
  BY <1>1, <1>2 DEF TypeOK, ScanOK
<1>6. /\ storing \subseteq [node : Nodes, refs : SUBSET Refs, left : SUBSET Refs]
      /\ buckets = "one" =>
            \A s \in scan.left : \A p \in storing : \A x \in p.left : x < s
  BY <1>1 DEF TypeOK, ScanOK
<1>7. CASE storing' = storing
  <2>1. /\ storing' \subseteq [node : Nodes, refs : SUBSET Refs, left : SUBSET Refs]
        /\ buckets = "one" =>
              \A s \in scan.left : \A p \in storing' : \A x \in p.left : x < s
    BY <1>6, <1>7
  <2>2. EventDone(List, queryStreams, stream)
    BY <2>1, <1>2, <1>3, <1>5, QuietList
  <2>3. CASE UNCHANGED <<listVars, queryStreams, stream>>
    <3>1. Kept(List, queryStreams) /\ stream' = stream
      BY <2>3, ListFields DEF Kept, listVars
    <3> QED
      BY <3>1, <2>2, NoCheckStep
  <2>4. CASE doCheck(List, foreignNodeResponses, queryStreams, Scanning(scan.state), db)
    <3>1. doCheck(List, foreignNodeResponses', queryStreams, Scanning(scan.state), db')
      BY <2>4, <1>2
    <3>2. Scanning(scan.state) = {} => scan'.state # "flowing"
      BY <1>2, ScanningFields
    <3> QED
      BY <3>1, <3>2, <2>2, CheckStep
  <2> QED
    BY <1>7, <2>3, <2>4 DEF onPropagation
<1>8. CASE /\ storing' = storing \cup {[node |-> f, refs |-> refs, left |-> refs]}
           /\ UNCHANGED <<listVars, queryStreams, stream>>
  <2>1. /\ storing' \subseteq [node : Nodes, refs : SUBSET Refs, left : SUBSET Refs]
        /\ buckets = "one" =>
              \A s \in scan.left : \A p \in storing' : \A x \in p.left : x < s
    BY <1>3, <1>4, <1>6, <1>8
  <2>2. EventDone(List, queryStreams, stream)
    BY <2>1, <1>2, <1>3, <1>5, QuietList
  <2>3. Kept(List, queryStreams) /\ stream' = stream
    BY <1>8, ListFields DEF Kept, listVars
  <2> QED
    BY <2>2, <2>3, NoCheckStep
<1> QED
  BY <1>7, <1>8 DEF onPropagation

\* A message of a foreign node is in the store: it becomes ready if it is above the
\* threshold, and is below what the scan has yet to yield.
LEMMA StoreDoneStep ==
  ASSUME IInv, NEW p \in storing, NEW r \in p.left, StoreDone(p, r)
  PROVE  IInv'
<1> DEFINE list == push(List, {r}, TRUE)
           rest == [p EXCEPT !.left = @ \ {r}]
<1>1. TypeOK /\ ForeignOK /\ ScanOK /\ ListOK
  BY DEF IInv
<1>2. /\ db' = db \cup {r}
      /\ storing' = (storing \ {p}) \cup (IF rest.left = {} THEN {} ELSE {rest})
      /\ UNCHANGED <<online, primary, peers, buckets, toRespond, inOrder, toPropagate,
                     foreignNodeResponses, scan, responseChunker, output, exited>>
      /\ \/ doCheck(list, foreignNodeResponses, queryStreams, Scanning(scan.state),
                    db \cup {r})
         \/ /\ items' = list.items /\ ready' = list.ready
            /\ UNCHANGED <<threshold, queryStreams, stream>>
  BY DEF StoreDone, environment, foreignVars
<1>3. /\ p \in [node : Nodes, refs : SUBSET Refs, left : SUBSET Refs]
      /\ r \in Refs
      /\ buckets = "one" => \A s \in scan.left : r < s
  BY <1>1 DEF TypeOK, ScanOK
<1>4. /\ rest \in [node : Nodes, refs : SUBSET Refs, left : SUBSET Refs]
      /\ rest.left \subseteq p.left
  BY <1>3
<1> HIDE DEF rest
<1>5. /\ storing' \subseteq [node : Nodes, refs : SUBSET Refs, left : SUBSET Refs]
      /\ buckets = "one" =>
            \A s \in scan.left : \A o \in storing' : \A x \in o.left : x < s
  BY <1>1, <1>2, <1>4 DEF TypeOK, ScanOK
<1>6. /\ IsList(List) /\ queryStreams \subseteq QueryType
      /\ \A x \in Refs \cup {Undefined} : x \in Int
  BY ListFields, AggregatorAssumption DEF Refs, Undefined
<1>7. /\ IsList(list)
      /\ \A x : x \in list.items <=> x \in items \/ (x = r /\ x > threshold)
      /\ \A x : x \in list.ready <=> x \in ready \/ (x = r /\ x > threshold)
  <2>1. {r} \subseteq Refs /\ TRUE \in BOOLEAN
    BY <1>3
  <2>2. /\ IsList(list)
        /\ \A x : x \in list.items <=> x \in items \/ (x \in {r} /\ x > threshold)
        /\ \A x : x \in list.ready <=> x \in ready \/ (TRUE /\ x \in {r} /\ x > threshold)
    BY <2>1, <1>6, PushFields
  <2> HIDE DEF list
  <2> QED
    BY <2>2
<1> HIDE DEF list
<1>8. /\ ForeignDone(stream) /\ QueriesDone(queryStreams, stream)
      /\ Given' = Given /\ Expected' = Expected /\ Promised' = Promised
      /\ NoDuplicates'
  <2>1. toPropagate' \in [Nodes -> SUBSET Refs]
    BY <1>1, <1>2 DEF ForeignOK
  <2> QED
    BY <2>1, <1>2, QuietEvent
<1>9. TypesDone(list, queryStreams, stream)
  BY <1>1, <1>2, <1>3, <1>5, <1>6, <1>7 DEF TypesDone, TypeOK
<1>10. ScanDone(list, stream)
  BY <1>1, <1>2, <1>3, <1>5, <1>7 DEF ScanOK, ScanDone
<1>11. ListDone(list)
  <2>1. r > threshold => threshold < r
    BY <1>1, <1>3, <1>6 DEF TypeOK
  <2> QED
    BY <2>1, <1>1, <1>2, <1>7 DEF ListOK, ListDone
<1>12. ListedDone(list, queryStreams)
  BY <1>2, <1>7, <1>8 DEF IInv, EverythingListed, NothingPassedOver, ListedDone
<1>13. ClientDone(stream)
  BY <1>2, <1>8 DEF IInv, EndedMeansComplete, Ended, ClientDone
<1>14. EventDone(list, queryStreams, stream)
  BY <1>8, <1>9, <1>10, <1>11, <1>12, <1>13 DEF EventDone
<1>15. CASE doCheck(list, foreignNodeResponses, queryStreams, Scanning(scan.state),
                    db \cup {r})
  <2>1. doCheck(list, foreignNodeResponses', queryStreams, Scanning(scan.state), db')
    BY <1>2, <1>15
  <2>2. Scanning(scan.state) = {} => scan'.state # "flowing"
    BY <1>2, ScanningFields
  <2> QED
    BY <2>1, <2>2, <1>14, CheckStep
<1>16. CASE /\ items' = list.items /\ ready' = list.ready
            /\ UNCHANGED <<threshold, queryStreams, stream>>
  <2>1. Kept(list, queryStreams) /\ stream' = stream
    BY <1>7, <1>16 DEF Kept, IsList
  <2> QED
    BY <2>1, <1>14, NoCheckStep
<1> QED
  BY <1>2, <1>15, <1>16

\* A foreign node responds: the aggregator lists what it is told.
LEMMA ForeignResponseStep ==
  ASSUME IInv, NEW f \in Nodes, NEW refs, NEW isFinal \in BOOLEAN,
         onForeignResponse(f, refs, isFinal)
  PROVE  IInv'
<1> DEFINE list == push(List, refs, FALSE)
           responses == [foreignNodeResponses EXCEPT ![f] =
                           IF isFinal THEN "finalized"
                           ELSE IF @ = "absent" THEN "waiting" ELSE @]
<1>1. TypeOK /\ ForeignOK /\ ScanOK /\ ListOK
  BY DEF IInv
<1>2. /\ refs \subseteq toRespond[f].left
      /\ ~isFinal => refs # {}
      /\ inOrder' = (inOrder /\ IsNext(f, refs, isFinal))
      /\ toRespond' = [toRespond EXCEPT ![f] =
                         [left |-> @.left \ refs, isFinal |-> @.isFinal \/ isFinal]]
      /\ UNCHANGED <<online, primary, peers, buckets, db, toPropagate, scan, responseChunker,
                     storing, output, exited>>
  BY DEF onForeignResponse, environment
<1>3. /\ toRespond' \in [Nodes -> [left : SUBSET Refs, isFinal : BOOLEAN]]
      /\ toRespond'[f].left = toRespond[f].left \ refs
      /\ \A g \in Nodes : g # f => toRespond'[g].left = toRespond[g].left
      /\ refs \subseteq Refs
  BY <1>1, <1>2 DEF ForeignOK
<1>4. inOrder' \in BOOLEAN /\ (inOrder' => inOrder /\ (isFinal => refs = toRespond[f].left))
  BY <1>1, <1>2 DEF ForeignOK, IsNext
<1>5. Given' = Given /\ Expected' = Expected /\ Promised' = Promised
      /\ NoDuplicates'
  BY <1>2 DEF Given, Expected, Promised, IInv, NoDuplicates
<1>6. QueriesDone(queryStreams, stream)
  BY <1>5 DEF IInv, QueriesOK, QueriesDone, In
<1>7. /\ IsList(List) /\ queryStreams \subseteq QueryType
      /\ List.items = items /\ List.ready = ready /\ List.threshold = threshold
      /\ \A x \in Refs \cup {Undefined} : x \in Int
  BY ListFields, AggregatorAssumption DEF Refs, Undefined
<1>8. /\ IsList(list)
      /\ \A x : x \in list.items <=> x \in items \/ (x \in refs /\ x > threshold)
      /\ \A x : x \in list.ready <=> x \in ready
  <2>1. FALSE \in BOOLEAN
    OBVIOUS
  <2>2. /\ IsList(list)
        /\ \A x : x \in list.items <=> x \in items \/ (x \in refs /\ x > threshold)
        /\ \A x : x \in list.ready <=> x \in ready \/ (FALSE /\ x \in refs /\ x > threshold)
    BY <2>1, <1>3, <1>7, PushFields
  <2> HIDE DEF list
  <2> QED
    BY <2>2
<1> HIDE DEF list
<1>9. ClientDone(stream)
  BY <1>2, <1>4, <1>5 DEF IInv, EndedMeansComplete, Ended, ClientDone
<1>10. CASE /\ foreignNodeResponses' = responses
            /\ doCheck(list, responses, queryStreams, Scanning(scan.state), db)
  <2>1. /\ foreignNodeResponses' \in [Nodes -> {"absent", "waiting", "finalized"}]
        /\ \A g \in Nodes : g # f => foreignNodeResponses'[g] = foreignNodeResponses[g]
        /\ foreignNodeResponses'[f] # "absent"
        /\ isFinal => foreignNodeResponses'[f] = "finalized"
        /\ ~isFinal /\ foreignNodeResponses[f] # "absent"
           => foreignNodeResponses'[f] = foreignNodeResponses[f]
        /\ foreignNodeResponses'[f] = "finalized"
           => isFinal \/ foreignNodeResponses[f] = "finalized"
    BY <1>1, <1>10 DEF TypeOK
  <2>2. ASSUME inOrder', NEW g \in Nodes, foreignNodeResponses'[g] = "finalized"
        PROVE  toRespond'[g].left = {}
    BY <2>1, <2>2, <1>1, <1>3, <1>4 DEF ForeignOK
  <2>3. ForeignDone(stream)
    <3>1. online' \subseteq Nodes /\ \A g \in online' : foreignNodeResponses'[g] # "absent"
      BY <2>1, <1>1, <1>2 DEF ForeignOK
    <3>2. stream # "open" => \A g \in online' : foreignNodeResponses'[g] = "finalized"
      BY <2>1, <1>1, <1>2 DEF ForeignOK
    <3> QED
      BY <2>2, <3>1, <3>2, <1>1, <1>2, <1>3, <1>4 DEF ForeignOK, ForeignDone
  <2>4. TypesDone(list, queryStreams, stream)
    BY <2>1, <1>1, <1>2, <1>7, <1>8 DEF TypesDone, TypeOK
  <2>5. ScanDone(list, stream)
    BY <1>1, <1>2, <1>8 DEF ScanOK, ScanDone
  <2>6. ListDone(list)
    <3>1. \A x \in refs : x > threshold => threshold < x
      BY <1>1, <1>3, <1>7 DEF TypeOK
    <3> QED
      BY <3>1, <1>1, <1>2, <1>8 DEF ListOK, ListDone
  <2>7. ASSUME inOrder', NEW r \in Expected',
               NEW g \in online, foreignNodeResponses[g] = "waiting", r \in toRespond[g].left
        PROVE  \/ r <= threshold \/ r \in list.items
               \/ \E h \in online' : /\ foreignNodeResponses'[h] = "waiting"
                                     /\ r \in toRespond'[h].left
    <3>1. g \in Nodes /\ online' = online
      BY <1>1, <1>2 DEF ForeignOK
    <3>2. CASE g # f
      BY <3>1, <3>2, <2>1, <2>7, <1>3
    <3>3. CASE g = f /\ r \in refs
      <4>1. r \in Int /\ threshold \in Int
        BY <3>3, <1>1, <1>3, <1>7 DEF TypeOK
      <4> QED
        BY <4>1, <3>3, <1>8
    <3>4. CASE g = f /\ r \notin refs
      <4>1. ~isFinal
        BY <3>4, <2>7, <1>4
      <4>2. foreignNodeResponses'[f] = "waiting" /\ r \in toRespond'[f].left
        BY <4>1, <3>4, <2>1, <2>7, <1>3
      <4> QED
        BY <4>2, <3>1, <3>4
    <3> QED
      BY <3>2, <3>3, <3>4
  <2>8. ListedDone(list, queryStreams)
    <3> SUFFICES ASSUME inOrder', NEW r \in Expected'
                 PROVE  /\ \/ r <= threshold \/ r \in list.items \/ r \in scan'.left
                           \/ \E h \in online' : /\ foreignNodeResponses'[h] = "waiting"
                                                 /\ r \in toRespond'[h].left
                        /\ r \in Promised' /\ r <= threshold
                           => r \in Given' \/ \E q \in queryStreams : r \in q.must
      BY DEF ListedDone, Promised
    <3>1. \/ r <= threshold \/ r \in items \/ r \in scan.left
          \/ \E g \in online : /\ foreignNodeResponses[g] = "waiting"
                               /\ r \in toRespond[g].left
      BY <1>4, <1>5 DEF IInv, EverythingListed
    <3>2. r \in Promised' /\ r <= threshold
          => r \in Given' \/ \E q \in queryStreams : r \in q.must
      BY <1>4, <1>5 DEF IInv, NothingPassedOver
    <3> QED
      BY <3>1, <3>2, <2>7, <1>2, <1>8
  <2>9. EventDone(list, queryStreams, stream)
    BY <2>3, <2>4, <2>5, <2>6, <2>8, <1>6, <1>9 DEF EventDone
  <2>10. doCheck(list, foreignNodeResponses', queryStreams, Scanning(scan.state), db')
    BY <1>2, <1>10
  <2>11. Scanning(scan.state) = {} => scan'.state # "flowing"
    BY <1>2, ScanningFields
  <2> QED
    BY <2>9, <2>10, <2>11, CheckStep
<1> QED
  BY <1>10 DEF onForeignResponse, list

\* A range query yields its next message: to the client, who has not had it, or to a stream
\* that was ended, which is destroyed.
LEMMA QueryDataStep ==
  ASSUME IInv, NEW q \in queryStreams, NEW r \in db, QueryData(q, r)
  PROVE  IInv'
<1> DEFINE p == [q EXCEPT !.done = @ \cup {r}]
           streams == (queryStreams \ {q}) \cup {p}
<1>1. TypeOK /\ ForeignOK /\ ScanOK /\ ListOK /\ QueriesOK
  BY DEF IInv
<1>2. /\ In(q, r) /\ r \notin q.done
      /\ queryStreams' = streams
      /\ UNCHANGED <<online, primary, peers, buckets, db, toRespond, inOrder, toPropagate,
                     foreignNodeResponses, scan, responseChunker, storing, exited>>
      /\ UNCHANGED <<items, ready, threshold>>
      /\ \/ stream = "open" /\ stream' = "open" /\ output' = Append(output, r)
         \/ stream = "ending" /\ stream' = "destroyed" /\ output' = output
  BY DEF QueryData, In, Known, environment, foreignVars, listVars
<1>3. /\ IsList(List) /\ queryStreams \subseteq QueryType
      /\ List.items = items /\ List.ready = ready /\ List.threshold = threshold
      /\ r \in Refs
      /\ \A x \in Refs \cup {Undefined} : x \in Int
  <2>1. r \in Refs
    BY <1>1 DEF TypeOK
  <2>2. \A x \in Refs \cup {Undefined} : x \in Int
    BY AggregatorAssumption DEF Refs, Undefined
  <2> QED
    BY <2>1, <2>2, ListFields
<1>4. /\ p \in QueryType /\ p.from = q.from /\ p.to = q.to /\ p.must = q.must
      /\ p.done = q.done \cup {r}
  BY <1>3 DEF QueryType
<1> HIDE DEF p
<1>5. streams \subseteq QueryType
  BY <1>3, <1>4
<1>6. /\ r <= threshold
      /\ \A o \in queryStreams : o # q => ~In(o, r)
  <2>1. /\ q.from \in Int /\ q.to \in Int /\ r \in Int /\ threshold \in Int
        /\ q.from <= r /\ r <= q.to /\ q.to <= threshold
    BY <1>1, <1>2, <1>3 DEF TypeOK, QueryType, In, QueriesOK
  <2>2. ASSUME NEW o \in queryStreams, o # q
        PROVE  ~In(o, r)
    <3>1. o.to < q.from \/ q.to < o.from
      BY <2>2, <1>1 DEF QueriesOK
    <3>2. o.from \in Int /\ o.to \in Int
      BY <1>3 DEF QueryType
    <3> QED
      BY <2>1, <3>1, <3>2 DEF In
  <2> QED
    BY <2>1, <2>2
<1>7. r \notin Given
  <2> SUFFICES ASSUME r \in Given
               PROVE  FALSE
    OBVIOUS
  <2>1. r \in q.done
    BY <1>1, <1>2 DEF QueriesOK
  <2> QED
    BY <2>1, <1>2, <1>3
<1>8. /\ output' \in Seq(Refs)
      /\ Given' \subseteq Given \cup {r} /\ Given \subseteq Given'
      /\ stream' # "destroyed" => r \in Given'
      /\ NoDuplicates'
  <2>1. output \in Seq(Refs) /\ NoDuplicates
    BY <1>1 DEF TypeOK, IInv
  <2>2. CASE output' = output /\ stream' = "destroyed"
    BY <2>1, <2>2 DEF Given, NoDuplicates
  <2>3. CASE output' = Append(output, r)
    <3>1. /\ output' \in Seq(Refs) /\ Len(output) \in Nat /\ Len(output') = Len(output) + 1
          /\ output'[Len(output) + 1] = r
          /\ \A i \in 1..Len(output) : output'[i] = output[i]
      BY <2>1, <2>3, <1>3
    <3>2. \A i \in 1..Len(output') : i \in 1..Len(output) \/ i = Len(output) + 1
      BY <3>1
    <3>3. \A i \in 1..Len(output) : i \in 1..Len(output') /\ output[i] \in Given
      BY <3>1 DEF Given
    <3>4. Len(output) + 1 \in 1..Len(output')
      BY <3>1
    <3>5. Given' \subseteq Given \cup {r}
      BY <3>1, <3>2 DEF Given
    <3>6. Given \subseteq Given' /\ r \in Given'
      BY <3>1, <3>3, <3>4 DEF Given
    <3>7. ASSUME NEW i \in 1..Len(output'), NEW j \in 1..Len(output'),
                 output'[i] = output'[j]
          PROVE  i = j
      <4>1. CASE i \in 1..Len(output) /\ j \in 1..Len(output)
        BY <4>1, <3>1, <3>7, <2>1 DEF NoDuplicates
      <4>2. CASE i = Len(output) + 1 /\ j \in 1..Len(output)
        BY <4>2, <3>1, <3>3, <3>7, <1>7
      <4>3. CASE j = Len(output) + 1 /\ i \in 1..Len(output)
        BY <4>3, <3>1, <3>3, <3>7, <1>7
      <4> QED
        BY <4>1, <4>2, <4>3, <3>2
    <3>8. NoDuplicates'
      BY <3>7 DEF NoDuplicates
    <3> QED
      BY <3>1, <3>5, <3>6, <3>8
  <2> QED
    BY <2>2, <2>3, <1>2
<1>9. Expected' = Expected /\ Promised' = Promised
  BY <1>2 DEF Expected, Promised
<1>10. TypesDone(List, streams, stream')
  BY <1>1, <1>2, <1>3, <1>5, <1>8 DEF TypesDone, TypeOK
<1>11. ForeignDone(stream')
  BY <1>1, <1>2 DEF ForeignOK, ForeignDone
<1>12. ScanDone(List, stream') /\ ListDone(List)
  BY <1>1, <1>2, <1>3 DEF ScanOK, ScanDone, ListOK, ListDone
<1>13. ASSUME NEW o \in streams
       PROVE  /\ o.from <= o.to /\ o.to <= threshold
              /\ \A x \in o.done : In(o, x)
              /\ stream' # "destroyed" => o.done \subseteq Given'
              /\ \A g \in Given' : In(o, g) => g \in o.done
  <2>1. CASE o = p
    <3>1. \A x : In(p, x) <=> In(q, x)
      BY <1>4 DEF In
    <3>2. /\ q.from <= q.to /\ q.to <= threshold
          /\ \A x \in q.done : In(q, x)
          /\ stream # "destroyed" => q.done \subseteq Given
          /\ \A g \in Given : In(q, g) => g \in q.done
      BY <1>1 DEF QueriesOK
    <3> QED
      BY <2>1, <3>1, <3>2, <1>2, <1>4, <1>8
  <2>2. CASE o \in queryStreams /\ o # q
    <3>1. /\ o.from <= o.to /\ o.to <= threshold
          /\ \A x \in o.done : In(o, x)
          /\ stream # "destroyed" => o.done \subseteq Given
          /\ \A g \in Given : In(o, g) => g \in o.done
      BY <2>2, <1>1 DEF QueriesOK
    <3> QED
      BY <2>2, <3>1, <1>2, <1>6, <1>8
  <2> QED
    BY <2>1, <2>2
<1>14. \A o, w \in streams : o # w => o.to < w.from \/ w.to < o.from
  BY <1>1, <1>4 DEF QueriesOK
<1>15. QueriesDone(streams, stream')
  <2>1. \A g \in Given' : g <= threshold
    BY <1>1, <1>6, <1>8 DEF QueriesOK
  <2> QED
    BY <2>1, <1>13, <1>14 DEF QueriesDone
<1>16. ListedDone(List, streams)
  BY <1>2, <1>3, <1>4, <1>8, <1>9 DEF IInv, EverythingListed, NothingPassedOver, ListedDone
<1>17. ClientDone(stream')
  BY <1>2, <1>8 DEF ClientDone
<1>18. EventDone(List, streams, stream')
  BY <1>10, <1>11, <1>12, <1>15, <1>16, <1>17 DEF EventDone
<1>19. Kept(List, streams)
  BY <1>2, <1>3 DEF Kept
<1> QED
  BY <1>18, <1>19, NoCheckStep

\* A range query ends: the client has been given all it had to yield.
LEMMA QueryEndStep ==
  ASSUME IInv, NEW q \in queryStreams, QueryEnd(q)
  PROVE  IInv'
<1> DEFINE streams == queryStreams \ {q}
<1>1. /\ q.must \subseteq q.done /\ stream \in {"open", "ending"}
      /\ doCheck(List, foreignNodeResponses, streams, Scanning(scan.state), db)
      /\ UNCHANGED <<online, primary, peers, buckets, db, toRespond, inOrder, foreignNodeResponses,
                     scan, output>>
      /\ UNCHANGED <<toPropagate, responseChunker, storing, exited>>
  BY DEF QueryEnd, Known, environment, foreignVars
<1>2. /\ toPropagate' \in [Nodes -> SUBSET Refs]
      /\ responseChunker' \in ChunkerType(Refs)
      /\ Has(responseChunker') = Has(responseChunker)
      /\ responseChunker'.isFinal => scan.state = "ended"
      /\ storing' \subseteq [node : Nodes, refs : SUBSET Refs, left : SUBSET Refs]
      /\ buckets = "one" =>
            \A s \in scan.left : \A p \in storing' : \A x \in p.left : x < s
      /\ exited' \in BOOLEAN
  BY <1>1 DEF IInv, TypeOK, ForeignOK, ScanOK
<1>3. EventDone(List, queryStreams, stream)
  BY <1>1, <1>2, QuietList
<1>4. q.must \subseteq Given'
  BY <1>1, <1>3 DEF EventDone, QueriesDone
<1>5. TypesDone(List, streams, stream) /\ QueriesDone(streams, stream)
  BY <1>3 DEF EventDone, TypesDone, QueriesDone
<1>6. ListedDone(List, streams)
  BY <1>3, <1>4 DEF EventDone, ListedDone
<1>7. EventDone(List, streams, stream)
  BY <1>3, <1>5, <1>6 DEF EventDone
<1>8. doCheck(List, foreignNodeResponses', streams, Scanning(scan.state), db')
  BY <1>1
<1>9. Scanning(scan.state) = {} => scan'.state # "flowing"
  BY <1>1, ScanningFields
<1> QED
  BY <1>7, <1>8, <1>9, CheckStep

-----------------------------------------------------------------------------
(* The theorems *)

\* The invariant holds in every state of an aggregator, for any stores, any set of foreign
\* nodes, any order of their responses and propagations and any failure.
THEOREM Invariance == Spec => []IInv
<1>1. Init => IInv
  BY InitIInv
<1>2. IInv /\ [Next]_vars => IInv'
  <2> SUFFICES ASSUME IInv, [Next]_vars
               PROVE  IInv'
    OBVIOUS
  <2>1. ASSUME NEW r \in scan.left, ScanData(r)
        PROVE  IInv'
    BY <2>1, ScanDataStep
  <2>2. CASE ScanEnd
    BY <2>2, ScanEndStep
  <2>3. CASE ResponseFinish
    BY <2>3, ResponseFinishStep
  <2>4. ASSUME NEW p \in storing, NEW r \in p.left, StoreDone(p, r)
        PROVE  IInv'
    BY <2>4, StoreDoneStep
  <2>5. ASSUME NEW p \in storing, NEW r \in p.left, StoreFailed(p, r)
        PROVE  IInv'
    BY <2>5, ExitStep DEF StoreFailed
  <2>6. ASSUME NEW q \in queryStreams, QueryEnd(q)
        PROVE  IInv'
    BY <2>6, QueryEndStep
  <2>7. ASSUME NEW q \in queryStreams, NEW r \in db, QueryData(q, r)
        PROVE  IInv'
    BY <2>7, QueryDataStep
  <2>8. CASE Close
    BY <2>8, CloseStep
  <2>9. CASE ScanError
    BY <2>9, ScanErrorStep
  <2>10. ASSUME NEW q \in queryStreams, QueryError(q)
         PROVE  IInv'
    BY <2>10, ExitStep DEF QueryError
  <2>11. ASSUME NEW f \in Nodes, Responds(f)
         PROVE  IInv'
    BY <2>11, ForeignResponseStep DEF Responds
  <2>12. ASSUME NEW f \in Nodes, Propagates(f)
         PROVE  IInv'
    BY <2>12, PropagationStep DEF Propagates
  <2>13. CASE UNCHANGED vars
    <3>1. /\ UNCHANGED <<online, primary, peers, buckets, db, toRespond, inOrder,
                         foreignNodeResponses, scan, output>>
          /\ UNCHANGED <<toPropagate, responseChunker, storing, exited>>
          /\ UNCHANGED <<items, ready, threshold, queryStreams, stream>>
      BY <2>13 DEF vars, environment, foreignVars, listVars
    <3>2. /\ toPropagate' \in [Nodes -> SUBSET Refs]
          /\ responseChunker' \in ChunkerType(Refs)
          /\ Has(responseChunker') = Has(responseChunker)
          /\ responseChunker'.isFinal => scan.state = "ended"
          /\ storing' \subseteq [node : Nodes, refs : SUBSET Refs, left : SUBSET Refs]
          /\ buckets = "one" =>
                \A s \in scan.left : \A p \in storing' : \A x \in p.left : x < s
          /\ exited' \in BOOLEAN
      BY <3>1 DEF IInv, TypeOK, ForeignOK, ScanOK
    <3>3. EventDone(List, queryStreams, stream)
      BY <3>1, <3>2, QuietList
    <3>4. Kept(List, queryStreams)
      BY <3>1, ListFields DEF Kept
    <3> QED
      BY <3>1, <3>3, <3>4, NoCheckStep
  <2> QED
    BY <2>1, <2>2, <2>3, <2>4, <2>5, <2>6, <2>7, <2>8, <2>9, <2>10, <2>11, <2>12, <2>13
       DEF Next, Local
<1> QED
  BY <1>1, <1>2, PTL DEF Spec

\* Type correctness of the aggregator's state (Aggregator.ts 30-39, AggregationList.ts 7-9).
THEOREM TypeCorrect == Spec => []TypeOK
<1>1. IInv => TypeOK
  BY DEF IInv
<1> QED
  BY <1>1, Invariance, PTL

\* The threshold passes no promised reference by, in whatever order responses, propagations
\* and, over several buckets, the scan fill the list (AggregationList.ts 89-125,
\* Aggregator.ts 218-258).
THEOREM NothingPassedOverTheorem == Spec => []NothingPassedOver
<1>1. IInv => NothingPassedOver
  BY DEF IInv
<1> QED
  BY <1>1, Invariance, PTL

\* When the stream has ended the client has all that is promised: of one bucket everything,
\* of several that do not overlap what the primary lacked (Aggregator.ts 223-226).
THEOREM EndedTheorem == Spec => []EndedMeansComplete
<1>1. IInv => EndedMeansComplete
  BY DEF IInv
<1> QED
  BY <1>1, Invariance, PTL

\* No message is given to the client twice (AggregationList.ts 89-125, Aggregator.ts
\* 228-258).
THEOREM NoDuplicatesTheorem == Spec => []NoDuplicates
<1>1. IInv => NoDuplicates
  BY DEF IInv
<1> QED
  BY <1>1, Invariance, PTL
=============================================================================
