----------------------------- MODULE Propagator -----------------------------
(***************************************************************************)
(* plugins/logStore/network/Propagator.ts with its PropagationList: one    *)
(* query request at a foreign node.  The node scans its own store, answers *)
(* with the references it found, compares them with the references of the  *)
(* primary node's responses, and sends the primary the messages it lacks.  *)
(*                                                                         *)
(* A message is its MessageRef, here a positive integer.  A store yields   *)
(* its references in an order of its own: ascending, unless it is a        *)
(* Cassandra of several buckets, whose range query has no ORDER BY.        *)
(* foreignItems, appended by the scan and spliced elsewhere, is the set of *)
(* what it has, in the order of the scan; primaryItems is in order of      *)
(* arrival: each entry has the number of the response that brought it, and *)
(* a response lists references in the order of the primary's store.        *)
(***************************************************************************)
EXTENDS Chunker, Functions

CONSTANTS
    MaxRef,      \* bound: references are 1..MaxRef
    MaxCuts      \* bound: non-final responses of the primary

ASSUME PropagatorAssumption ==
    /\ MaxRef \in Nat
    /\ MaxCuts \in Nat

VARIABLES
    primary, foreign,        \* what the two stores hold for the query
    primaryAt, foreignAt,    \* the position at which each of them yields a reference
    hidden,                  \* what the foreign store does not find by reference
    wire,                    \* the primary's responses not delivered yet
    arrivals,                \* responses delivered so far
    inOrder,                 \* they came in the order they were sent
    primaryItems, latestPrimary, isPrimaryFinalized,    \* PropagationList
    foreignItems, isForeignFinalized,
    scan,                    \* the initial query stream: what it still has to yield
    responseChunker,         \* the Chunker of the response pipeline
    queryStreams,            \* queries of missing messages, piped to propagationStream
    propagationStream,       \* open, ending (end() called), closed or destroyed
    propagationChunker       \* the Chunker of the propagation pipeline

store == <<primary, foreign, primaryAt, foreignAt, hidden>>
listVars == <<primaryItems, latestPrimary, isPrimaryFinalized, foreignItems,
              isForeignFinalized>>
network == <<wire, arrivals, inOrder>>
vars == <<store, network, listVars, scan, responseChunker, queryStreams,
          propagationStream, propagationChunker>>

Refs == 1..MaxRef
Undefined == 0

\* The pipe of a query stream carries the `end` option it was created with.
QueryStream == [asked : SUBSET Refs, left : SUBSET Refs, end : BOOLEAN,
                failed : BOOLEAN]

\* The first and the last of some references in an order.
FirstOf(S, at) == CHOOSE r \in S : \A x \in S : at[r] <= at[x]
LastOf(S, at) == CHOOSE r \in S : \A x \in S : at[x] <= at[r]

----------------------------------------------------------------------------
\* The primary's Chunker: its references, in the order of its store, in groups
\* cut after some positions, the last group final (and possibly empty).
ResponsesOf(S, at, cuts) ==
    LET ends == cuts \cup {MaxRef + 1}
    IN  {[no      |-> Cardinality({c \in cuts : c < e}),
          refs    |-> {r \in S : at[r] <= e /\ \A c \in cuts : c < e => c < at[r]},
          isFinal |-> e = MaxRef + 1] : e \in ends}

\* The orders in which a store can yield what it holds.
Orders(S) == Bijection(S, 1..Cardinality(S))

Init ==
    /\ primary \in SUBSET Refs
    /\ foreign \in SUBSET Refs
    /\ primaryAt \in Orders(primary)
    /\ foreignAt \in Orders(foreign)
    /\ hidden \in SUBSET foreign
    /\ \E cuts \in SUBSET (1..Cardinality(primary)) :
        /\ Cardinality(cuts) <= MaxCuts
        /\ wire = ResponsesOf(primary, primaryAt, cuts)
    /\ arrivals = 0 /\ inOrder = TRUE
    /\ primaryItems = {} /\ latestPrimary = Undefined /\ isPrimaryFinalized = FALSE
    /\ foreignItems = {} /\ isForeignFinalized = FALSE
    /\ scan = [left |-> foreign, state |-> "flowing"]
    /\ responseChunker = NewChunker
    /\ queryStreams = {}
    /\ propagationStream = "open"
    /\ propagationChunker = NewChunker

----------------------------------------------------------------------------
\* Mutant: every reference is released at once, seen by the primary or not.
AllItems(items, latest, isFinalized) == items

\* Mutant: the latest primary reference counts as one of the list, even if there
\* is none.
getDiffUpTo(items, latest, isFinalized) ==
    IF isFinalized THEN items ELSE {r \in items : r < latest} \cup {latest}

\* PropagationList.getDiffAndShrink: the references it splices off, which come,
\* with all before them, no later than the latest of the primary.
getDiff(items, latest, isFinalized) ==
    IF isFinalized THEN items
    ELSE IF latest = Undefined THEN {}
    ELSE {r \in items : \A x \in items :
             x = r \/ foreignAt[x] < foreignAt[r] => x <= latest}

\* Mutant: the stream is ended only through a pipe, never by doCheck itself.
doCheckNoEnd(items, latest, primaryFinal, foreignFinal, streams, stream) ==
    LET diff == getDiff(items, latest, primaryFinal)
    IN  /\ foreignItems' = items \ diff
        /\ queryStreams' =
              IF diff = {} THEN streams
              ELSE streams \cup {[asked |-> diff, left |-> diff,
                                  end |-> primaryFinal /\ foreignFinal, failed |-> FALSE]}
        /\ propagationStream' = stream

\* Mutant: doCheck ends the stream without waiting for the running queries.
doCheckNoWait(items, latest, primaryFinal, foreignFinal, streams, stream) ==
    LET diff == getDiff(items, latest, primaryFinal)
    IN  /\ foreignItems' = items \ diff
        /\ queryStreams' =
              IF diff = {} THEN streams
              ELSE streams \cup {[asked |-> diff, left |-> diff,
                                  end |-> primaryFinal /\ foreignFinal, failed |-> FALSE]}
        /\ propagationStream' =
              IF diff = {} /\ primaryFinal /\ foreignFinal /\ stream = "open"
              THEN "ending" ELSE stream

\* Propagator.doCheck, called with the list, the streams and the propagation
\* stream as the event has left them.
doCheck(items, latest, primaryFinal, foreignFinal, streams, stream) ==
    LET diff        == getDiff(items, latest, primaryFinal)
        isFinalized == primaryFinal /\ foreignFinal
    IN  /\ foreignItems' = items \ diff
        /\ queryStreams' =
              IF diff = {} THEN streams
              ELSE streams \cup {[asked |-> diff, left |-> diff,
                                  end |-> isFinalized, failed |-> FALSE]}
        /\ propagationStream' =
              IF diff = {} /\ isFinalized /\ streams = {} /\ stream = "open"
              THEN "ending" ELSE stream

----------------------------------------------------------------------------
\* Mutant: a reference the primary listed is remembered only when it is new,
\* and the matching foreign reference is left in the list.
KeepForeign(refs) == foreignItems

\* PropagationList.pushPrimary over the references of a response: the foreign
\* references it matches are removed ...
ForeignAfter(refs) == foreignItems \ refs

\* ... and the others wait for the scan to reach them.
PrimaryAfter(refs) ==
    primaryItems \cup {[no |-> arrivals + 1, ref |-> r] : r \in refs \ foreignItems}

\* PropagationManager.onQueryResponse and Propagator.onPrimaryResponse.  The
\* broadband may deliver any response next.  Once the propagator is closed the
\* manager has forgotten it and drops the response.
onPrimaryResponse(m) ==
    /\ m \in wire
    /\ wire' = wire \ {m}
    /\ arrivals' = arrivals + 1
    /\ inOrder' = (inOrder /\ \A x \in wire : m.no <= x.no)
    /\ IF propagationStream \in {"closed", "destroyed"}
       THEN UNCHANGED <<listVars, queryStreams, propagationStream>>
       ELSE LET latest == IF m.refs = {} THEN latestPrimary ELSE LastOf(m.refs, primaryAt)
                final  == isPrimaryFinalized \/ m.isFinal
            IN  /\ primaryItems' = PrimaryAfter(m.refs)
                /\ latestPrimary' = latest
                /\ isPrimaryFinalized' = final
                /\ UNCHANGED isForeignFinalized
                /\ doCheck(ForeignAfter(m.refs), latest, final, isForeignFinalized,
                           queryStreams, propagationStream)
    /\ UNCHANGED <<store, scan, responseChunker, propagationChunker>>

\* Mutant: with primary references waiting, an unmatched reference is dropped.
DropUnmatched(r) ==
    [primaryItems |-> primaryItems,
     foreignItems |-> IF primaryItems = {} THEN foreignItems \cup {r} ELSE foreignItems]

\* PropagationList.pushForeign: a reference the primary has is dropped together
\* with every primary reference that arrived before it; any other is kept.
pushForeign(r) ==
    LET matches == {x \in primaryItems : x.ref = r}
        After(x, y) == \/ x.no > y.no
                       \/ x.no = y.no /\ primaryAt[x.ref] > primaryAt[y.ref]
    IN  IF matches # {}
        THEN [primaryItems |-> {x \in primaryItems : \A y \in matches : After(x, y)},
              foreignItems |-> foreignItems]
        ELSE [primaryItems |-> primaryItems,
              foreignItems |-> foreignItems \cup {r}]

\* The 'data' listeners of the scan: the list, then the response Chunker.
ScanData ==
    /\ scan.state = "flowing" /\ scan.left # {}
    /\ LET r      == FirstOf(scan.left, foreignAt)
           pushed == pushForeign(r)
       IN  /\ scan' = [scan EXCEPT !.left = @ \ {r}]
           /\ primaryItems' = pushed.primaryItems
           /\ doCheck(pushed.foreignItems, latestPrimary, isPrimaryFinalized,
                      isForeignFinalized, queryStreams, propagationStream)
           /\ \E bytesFull \in BOOLEAN :
                responseChunker' = Transform(responseChunker, r, bytesFull)
    /\ UNCHANGED <<store, network, latestPrimary, isPrimaryFinalized,
                   isForeignFinalized, propagationChunker>>

\* The 'end' listener of the scan.
ScanEnd ==
    /\ scan = [left |-> {}, state |-> "flowing"]
    /\ scan' = [scan EXCEPT !.state = "ended"]
    /\ isForeignFinalized' = TRUE
    /\ doCheck(foreignItems, latestPrimary, isPrimaryFinalized, TRUE,
               queryStreams, propagationStream)
    /\ UNCHANGED <<store, network, primaryItems, latestPrimary,
                   isPrimaryFinalized, responseChunker, propagationChunker>>

\* The pipeline has ended the response Chunker, which finishes a tick later.
ResponseFinish ==
    /\ scan.state = "ended" /\ ~responseChunker.isFinal
    /\ responseChunker' = Finish(responseChunker)
    /\ UNCHANGED <<store, network, listVars, scan, queryStreams,
                   propagationStream, propagationChunker>>

\* The scan fails: the pipeline logs the error and destroys the Chunker.
ScanError ==
    /\ scan.state = "flowing"
    /\ scan' = [scan EXCEPT !.state = "failed"]
    /\ UNCHANGED <<store, network, listVars, responseChunker, queryStreams,
                   propagationStream, propagationChunker>>

----------------------------------------------------------------------------
\* A query of missing messages yields one that it finds, in any order (a
\* reference is looked up in one bucket only, so that a row of an earlier bucket
\* may be hidden: CassandraDBAdapter.ts 507-535, 763-770).  Written to a stream
\* that is ending it is a write after end, which destroys both ends of the
\* propagation pipeline; a closed stream has been unpiped from its sources.
QueryData(q, r) ==
    /\ q \in queryStreams /\ ~q.failed /\ r \in q.left \ hidden
    /\ propagationStream \in {"open", "ending"}
    /\ queryStreams' = (queryStreams \ {q}) \cup {[q EXCEPT !.left = @ \ {r}]}
    /\ IF propagationStream = "open"
       THEN /\ \E bytesFull \in BOOLEAN :
                propagationChunker' = Transform(propagationChunker, r, bytesFull)
            /\ UNCHANGED propagationStream
       ELSE propagationStream' = "destroyed" /\ UNCHANGED propagationChunker
    /\ UNCHANGED <<store, network, listVars, scan, responseChunker>>

\* Its 'end', when it has yielded what it finds: first doCheck's listener, then the pipe, which ends the propagation
\* stream if it was told to when it was set up.
QueryEnd(q) ==
    /\ q \in queryStreams /\ ~q.failed /\ q.left \subseteq hidden
    /\ propagationStream \in {"open", "ending"}
    /\ doCheck(foreignItems, latestPrimary, isPrimaryFinalized, isForeignFinalized,
               queryStreams \ {q}, IF q.end THEN "ending" ELSE propagationStream)
    /\ UNCHANGED <<store, network, primaryItems, latestPrimary,
                   isPrimaryFinalized, isForeignFinalized, scan, responseChunker,
                   propagationChunker>>

\* Its 'error': logged, and the stream stays in the set for ever.
QueryError(q) ==
    /\ q \in queryStreams /\ ~q.failed
    /\ queryStreams' = (queryStreams \ {q}) \cup {[q EXCEPT !.failed = TRUE]}
    /\ UNCHANGED <<store, network, listVars, scan, responseChunker,
                   propagationStream, propagationChunker>>

\* The propagation pipeline completes: final group, then closeCallback.
PropagationFinish ==
    /\ propagationStream = "ending"
    /\ propagationStream' = "closed"
    /\ propagationChunker' = Finish(propagationChunker)
    /\ UNCHANGED <<store, network, listVars, scan, responseChunker, queryStreams>>

\* closeCallback has run: PropagationManager has forgotten the propagator.
Closed == propagationStream \in {"closed", "destroyed"}

Next ==
    \/ \E m \in wire : onPrimaryResponse(m)
    \/ ScanData \/ ScanEnd \/ ResponseFinish \/ ScanError
    \/ \E q \in queryStreams : QueryEnd(q) \/ QueryError(q)
    \/ \E q \in queryStreams : \E r \in q.left : QueryData(q, r)
    \/ PropagationFinish

Spec == Init /\ [][Next]_vars

\* The event loop serves every stream and every delivered message; the network
\* delivers every response of the primary.  Failures are not fair.
Steps ==
    \/ \E m \in wire : onPrimaryResponse(m)
    \/ ScanData \/ ScanEnd \/ ResponseFinish
    \/ \E q \in queryStreams : QueryEnd(q) \/ \E r \in q.left : QueryData(q, r)
    \/ PropagationFinish

FairSpec == Spec /\ WF_vars(Steps)

----------------------------------------------------------------------------
TypeOK ==
    /\ primary \subseteq Refs /\ foreign \subseteq Refs /\ hidden \subseteq foreign
    /\ primaryAt \in [primary -> Refs] /\ foreignAt \in [foreign -> Refs]
    /\ wire \subseteq [no : 0..MaxCuts, refs : SUBSET Refs, isFinal : BOOLEAN]
    /\ arrivals \in Nat /\ inOrder \in BOOLEAN
    /\ primaryItems \subseteq [no : Nat, ref : Refs]
    /\ latestPrimary \in Refs \cup {Undefined}
    /\ isPrimaryFinalized \in BOOLEAN /\ isForeignFinalized \in BOOLEAN
    /\ foreignItems \subseteq Refs
    /\ scan \in [left : SUBSET Refs, state : {"flowing", "ended", "failed"}]
    /\ responseChunker \in ChunkerType(Refs)
    /\ queryStreams \subseteq QueryStream
    /\ propagationStream \in {"open", "ending", "closed", "destroyed"}
    /\ propagationChunker \in ChunkerType(Refs)

\* What the primary lacks and this node finds by reference.
Missing == foreign \ (primary \cup hidden)

\* Both stores yield ascending references.
Sorted(S, at) == \A a, b \in S : a < b => at[a] < at[b]
Ascending == Sorted(primary, primaryAt) /\ Sorted(foreign, foreignAt)

\* What has left the list: being queried, in the propagation Chunker, or sent.
Left(streams) == UNION {q.left : q \in streams}
Released == Left(queryStreams) \cup propagationChunker.items \cup propagationChunker.out

\* The references of the primary that this node has received.
Received == primary \ UNION {m.refs : m \in wire}

\* No message the primary lacks is forgotten: from the scan to the list to a
\* query to the Chunker, it is always somewhere (PropagationList.ts 19-48, 81-99;
\* Propagator.ts 148-170), in whatever order the stores yield references and
\* responses arrive; but for the messages that no query by reference finds.
NothingForgotten ==
    propagationStream # "destroyed" =>
        Missing \subseteq scan.left \cup foreignItems \cup Released

\* Only what the primary lacks is sent to it, when the stores yield ascending
\* references and responses arrive in order:
\* matching works although references leave primaryItems early (splice from 0)
\* and foreignItems before the primary is final (PropagationList.ts 44, 90-98).
OnlyMissingReleased == inOrder /\ Ascending => Released \cap primary = {}

\* Before the primary is final, nothing above the references it has listed is
\* released (PropagationList.ts 86-98).  The Aggregator relies on it: a message
\* propagated ahead of its own scan would make it skip what the scan has yet to
\* yield.
NeverAheadOfPrimary ==
    \A r \in Released : isPrimaryFinalized \/ \E x \in Received : r <= x

\* The final response comes after all the others and together they list every
\* reference of the store (Propagator.ts 101-110, Chunker.ts 30-32, 51-60).
FinalResponseIsComplete ==
    responseChunker.isFinal => responseChunker.out = foreign

\* A query of this node has failed.
Failed == scan.state = "failed" \/ \E q \in queryStreams : q.failed

\* "handles the propagation of missing data from the foreign node to the primary
\* node" (Propagator.ts 17-20): once the propagator is closed, and if no query
\* failed, every message the primary lacks, and a query finds, has been sent.
ClosedMeansPropagated == Closed /\ ~Failed => Missing \subseteq propagationChunker.out

\* It is so at least when the primary answers with a single response: nothing is
\* then released before the primary is final (Propagator.ts 168-176,
\* PropagationList.ts 82-88).
SingleResponseSuffices ==
    arrivals + Cardinality(wire) = 1 => ClosedMeansPropagated

\* If no query fails, the propagator closes and is forgotten by its manager, in
\* whatever order responses, scan and queries come to an end (Propagator.ts
\* 159-176, PropagationManager.ts 116-118).
EventuallyClosed == <>(Closed \/ Failed)
=============================================================================
