----------------------------- MODULE Aggregator -----------------------------
(***************************************************************************)
(* plugins/logStore/network/Aggregator.ts with its AggregationList: one    *)
(* query at the primary node.  The node scans its own store, lists what    *)
(* the foreign nodes have, stores what they propagate, and streams to the  *)
(* client each stretch of references that is present, by a range query of  *)
(* its store.                                                              *)
(*                                                                         *)
(* A message is its MessageRef, here a positive integer.  The foreign      *)
(* nodes are the environment: they send some of what they have, at any     *)
(* time the module Propagator allows, and may fall silent.                 *)
(***************************************************************************)
EXTENDS Chunker, Sequences

CONSTANTS
    MaxRef,                \* bound: references are 1..MaxRef
    Nodes,                 \* the foreign nodes
    Layouts                \* how the messages may lie in Cassandra's buckets (see Init)

ASSUME AggregatorAssumption ==
    MaxRef \in Nat /\ Layouts \subseteq {"one", "several", "overlapping"}

VARIABLES
    online,                  \* heartbeat.onlineNodes when the query started
    primary,                 \* the primary's store when the query started
    peers,                   \* the foreign stores
    buckets,                 \* how the messages lie in Cassandra
    db,                      \* the primary's store now
    toRespond, toPropagate,  \* foreign node -> what it still has to send
    inOrder,                 \* no final response has overtaken another
    propagationOver,         \* foreign nodes whose propagation stream has ended
    foreignNodeResponses,    \* foreign node -> absent, waiting or finalized
    items, ready, threshold, \* AggregationList
    scan,                    \* the initial query stream
    responseChunker,         \* the Chunker of the response pipeline
    storing,                 \* onPropagation calls whose stores are under way
    queryStreams,            \* range queries piped to the client
    output,                  \* the references the client has been given
    stream,                  \* open, ending (end() called), closed or destroyed
    exited                   \* the process was ended by an unhandled error

environment == <<online, primary, peers, buckets>>
foreignVars == <<toRespond, inOrder, toPropagate, propagationOver>>
listVars == <<items, ready, threshold>>
vars == <<environment, db, foreignVars, foreignNodeResponses, listVars, scan,
          responseChunker, storing, queryStreams, output, stream, exited>>

Refs == 1..MaxRef
Undefined == 0
MaxOf(S) == CHOOSE r \in S : \A x \in S : x <= r
MinOf(S) == CHOOSE r \in S : \A x \in S : r <= x

\* Of one bucket, and in SQLite, a query yields the messages in order.  A statement over
\* several buckets has no ORDER BY.  If buckets overlap in time, a query of a range may
\* also pass over messages in it: it looks, before its start, only into the last bucket.
Init ==
    /\ online \in SUBSET Nodes
    /\ buckets \in Layouts
    /\ primary \in SUBSET Refs
    /\ peers \in [Nodes -> SUBSET Refs]
    /\ db = primary
    /\ toRespond = [f \in Nodes |-> [left |-> peers[f], isFinal |-> FALSE]]
    /\ toPropagate = [f \in Nodes |-> IF buckets = "one" THEN peers[f] \ primary ELSE peers[f]]
    /\ inOrder = TRUE
    /\ propagationOver = {}
    /\ foreignNodeResponses = [f \in Nodes |-> IF f \in online THEN "waiting" ELSE "absent"]
    /\ items = {} /\ ready = {} /\ threshold = Undefined
    /\ scan = [left |-> primary, state |-> "flowing"]
    /\ responseChunker = NewChunker
    /\ storing = {}
    /\ queryStreams = {}
    /\ output = <<>>
    /\ stream = "open"
    /\ exited = FALSE

----------------------------------------------------------------------------
(* AggregationList *)

List == [items |-> items, ready |-> ready, threshold |-> threshold]

\* Mutant: a reference listed as missing is never marked ready later on.
pushOnce(list, refs, isReady) ==
    LET fresh == {r \in refs : r > list.threshold} \ list.items
    IN  [list EXCEPT !.items = @ \cup fresh,
                     !.ready = IF isReady THEN @ \cup fresh ELSE @]

\* push, for each of refs: pushPrimary and pushPropagation with isReady,
\* pushForeign without.
push(list, refs, isReady) ==
    LET fresh == {r \in refs : r > list.threshold}
    IN  [list EXCEPT !.items = @ \cup fresh,
                     !.ready = IF isReady THEN @ \cup fresh ELSE @]

\* Mutant: the stretch goes on past a reference that is not ready.
ReadyOnes(list) == list.ready

\* The stretch from readyFrom to readyTo: the longest ready prefix.
ReadyPrefix(list) == {r \in list.items : \A x \in list.items : x <= r => x \in list.ready}

\* Mutant: the last reference of the stretch stays in the list.
shrinkShort(list, to) ==
    [items |-> {r \in list.items : r >= to}, ready |-> {r \in list.ready : r >= to},
     threshold |-> to]

shrink(list, to) ==
    [items |-> {r \in list.items : r > to}, ready |-> {r \in list.ready : r > to},
     threshold |-> to]

----------------------------------------------------------------------------
\* Mutant: one answer is enough to go on.
NobodyAnswered(responses) ==
    /\ \E f \in Nodes : responses[f] = "waiting"
    /\ \A f \in Nodes : responses[f] # "finalized"

\* No handler ever sets messageRef, so a node is waited for until it is final.
isWaitingForForeignNodes(responses) == \E f \in Nodes : responses[f] = "waiting"

\* Mutant: the stream ends as soon as the list is empty.
NothingListed(list, streams) == list.items = {}

NothingLeft(list, streams) == list.items = {} /\ streams = {}

\* doCheck, called with the list, the responses, the streams and the store as
\* the event has left them.
doCheck(list, responses, streams, scanning, store) ==
    LET prefix == ReadyPrefix(list)
        from   == MinOf(prefix)
        to     == MaxOf(prefix)
        after  == IF ~isWaitingForForeignNodes(responses) /\ prefix # {}
                  THEN shrink(list, to) ELSE list
    IN  /\ stream' = IF /\ ~isWaitingForForeignNodes(responses)
                        /\ NothingLeft(list, streams \cup scanning) /\ stream = "open"
                     THEN "ending" ELSE stream
        /\ queryStreams' =
              IF isWaitingForForeignNodes(responses) \/ prefix = {} THEN streams
              ELSE streams \cup {[from |-> from, to |-> to, done |-> {},
                                  must |-> {r \in store : /\ from <= r /\ r <= to
                                                          /\ buckets # "overlapping"}]}
        /\ items' = after.items /\ ready' = after.ready /\ threshold' = after.threshold

\* The scan counts as one of the queryStreams until it ends or fails.
Scanning(state) == IF state = "flowing" THEN {scan} ELSE {}

\* AggregationManager hands messages only to an aggregator it still knows: one that
\* arrives later changes nothing, and is no step.
Known == ~exited /\ stream \in {"open", "ending"}

----------------------------------------------------------------------------
(* The primary's own scan *)

ScanData(r) ==
    /\ Known /\ scan.state = "flowing" /\ r \in scan.left
    /\ buckets = "one" => \A x \in scan.left : r <= x
    /\ scan' = [scan EXCEPT !.left = @ \ {r}]
    /\ doCheck(push(List, {r}, TRUE), foreignNodeResponses, queryStreams, Scanning("flowing"), db)
    /\ \E bytesFull \in BOOLEAN : responseChunker' = Transform(responseChunker, r, bytesFull)
    /\ UNCHANGED <<environment, db, foreignVars, foreignNodeResponses, storing, output,
                   exited>>

ScanEnd ==
    /\ Known /\ scan = [left |-> {}, state |-> "flowing"]
    /\ scan' = [scan EXCEPT !.state = "ended"]
    /\ doCheck(List, foreignNodeResponses, queryStreams, Scanning("ended"), db)
    /\ UNCHANGED <<environment, db, foreignVars, foreignNodeResponses, responseChunker,
                   storing, output, exited>>

\* The stream leaves the set, but doCheck is not called; the pipeline destroys
\* the Chunker.
ScanError ==
    /\ Known /\ scan.state = "flowing"
    /\ scan' = [scan EXCEPT !.state = "failed"]
    /\ UNCHANGED <<environment, db, foreignVars, foreignNodeResponses, listVars,
                   responseChunker, storing, queryStreams, output, stream, exited>>

\* The final response is published a tick after the scan ends, whatever became
\* of the client's stream meanwhile.
ResponseFinish ==
    /\ ~exited /\ scan.state = "ended" /\ ~responseChunker.isFinal
    /\ responseChunker' = Finish(responseChunker)
    /\ UNCHANGED <<environment, db, foreignVars, foreignNodeResponses, listVars, scan,
                   storing, queryStreams, output, stream, exited>>

----------------------------------------------------------------------------
(* Foreign nodes *)

\* The response can be the next one of node f: it does not come after the final one, and
\* has all that is left if it is the final one.
IsNext(f, refs, isFinal) ==
    /\ ~toRespond[f].isFinal
    /\ isFinal => refs = toRespond[f].left

\* A QueryResponse of node f, which need not be the next one.
onForeignResponse(f, refs, isFinal) ==
    /\ Known
    /\ refs \subseteq toRespond[f].left
    /\ isFinal => ~toRespond[f].isFinal
    /\ ~isFinal => refs # {}
    /\ inOrder' = (inOrder /\ IsNext(f, refs, isFinal))
    /\ toRespond' = [toRespond EXCEPT ![f] =
                        [left |-> @.left \ refs, isFinal |-> @.isFinal \/ isFinal]]
    /\ LET responses == [foreignNodeResponses EXCEPT ![f] =
                            IF isFinal THEN "finalized"
                            ELSE IF @ = "absent" THEN "waiting" ELSE @]
       IN  /\ foreignNodeResponses' = responses
           /\ doCheck(push(List, refs, FALSE), responses, queryStreams,
                      Scanning(scan.state), db)
    /\ UNCHANGED <<environment, db, toPropagate, propagationOver, scan, responseChunker,
                   storing, output, exited>>

\* Propagator!NeverAheadOfPrimary: what a foreign node may send by now.
MayPropagate(refs) ==
    responseChunker.isFinal \/ \A r \in refs : \E x \in responseChunker.out : r <= x

\* A QueryPropagate of node f arrives: a store of each message is started.  The
\* last one of a node, which may be empty, comes when its propagation is over, whether
\* all has been sent or not (run propagator_early_end).
onPropagation(f, refs, isLast) ==
    /\ Known
    /\ f \notin propagationOver
    /\ refs \subseteq toPropagate[f] /\ MayPropagate(refs)
    /\ IF isLast THEN responseChunker.isFinal ELSE refs # {}
    /\ toPropagate' = [toPropagate EXCEPT ![f] = @ \ refs]
    /\ propagationOver' = IF isLast THEN propagationOver \cup {f} ELSE propagationOver
    /\ IF refs = {}
       THEN /\ doCheck(List, foreignNodeResponses, queryStreams, Scanning(scan.state), db)
            /\ UNCHANGED storing
       ELSE /\ storing' = storing \cup {[node |-> f, refs |-> refs, left |-> refs]}
            /\ UNCHANGED <<listVars, queryStreams, stream>>
    /\ UNCHANGED <<environment, db, toRespond, inOrder, foreignNodeResponses, scan,
                   responseChunker, output, exited>>

\* Promise.all: doCheck runs when the last store of the call has succeeded.
IsLastStore(p) == p.left = {}

\* One store of a call succeeds: the reference becomes ready.  That of a batch which is
\* given up is never settled (BatchManager.ts 152).
StoreDone(p, r) ==
    /\ ~exited /\ p \in storing /\ r \in p.left
    /\ db' = db \cup {r}
    /\ LET rest == [p EXCEPT !.left = @ \ {r}]
           list == push(List, {r}, TRUE)
       IN  /\ storing' = (storing \ {p}) \cup (IF rest.left = {} THEN {} ELSE {rest})
           /\ IF IsLastStore(rest)
              THEN doCheck(list, foreignNodeResponses, queryStreams,
                           Scanning(scan.state), db \cup {r})
              ELSE /\ items' = list.items /\ ready' = list.ready
                   /\ UNCHANGED <<threshold, queryStreams, stream>>
    /\ UNCHANGED <<environment, foreignVars, foreignNodeResponses, scan,
                   responseChunker, output, exited>>

\* A store is rejected, as SQLite rejects a message it has: nobody handles the
\* rejected Promise.all, and node.ts ends the process.
StoreFailed(p, r) ==
    /\ ~exited /\ p \in storing /\ r \in p.left
    /\ exited' = TRUE
    /\ UNCHANGED <<environment, db, foreignVars, foreignNodeResponses, listVars, scan,
                   responseChunker, storing, queryStreams, output, stream>>

----------------------------------------------------------------------------
(* Range queries piped to the client *)

\* A range query yields what the store holds in its range: all that was there
\* when it started, and what was added since if it still sees it.  A write after
\* end destroys the stream.
QueryData(q, r) ==
    /\ Known /\ q \in queryStreams
    /\ r \in db \ q.done /\ q.from <= r /\ r <= q.to
    /\ buckets = "one" => /\ \A x \in q.done : x < r
                          /\ \A x \in q.must : x < r => x \in q.done
    /\ queryStreams' = (queryStreams \ {q}) \cup {[q EXCEPT !.done = @ \cup {r}]}
    /\ IF stream = "open"
       THEN output' = Append(output, r) /\ UNCHANGED stream
       ELSE stream' = "destroyed" /\ UNCHANGED output
    /\ UNCHANGED <<environment, db, foreignVars, foreignNodeResponses, listVars, scan,
                   responseChunker, storing, exited>>

QueryEnd(q) ==
    /\ Known /\ q \in queryStreams /\ q.must \subseteq q.done
    /\ doCheck(List, foreignNodeResponses, queryStreams \ {q}, Scanning(scan.state), db)
    /\ UNCHANGED <<environment, db, foreignVars, foreignNodeResponses, scan,
                   responseChunker, storing, output, exited>>

\* Nothing listens to the 'error' of a range query: it is an uncaught exception.
QueryError(q) ==
    /\ Known /\ q \in queryStreams
    /\ exited' = TRUE
    /\ UNCHANGED <<environment, db, foreignVars, foreignNodeResponses, listVars, scan,
                   responseChunker, storing, queryStreams, output, stream>>

\* The client has read to the end; 'close' makes the manager forget the aggregator.
Close ==
    /\ ~exited /\ stream = "ending"
    /\ stream' = "closed"
    /\ UNCHANGED <<environment, db, foreignVars, foreignNodeResponses, listVars, scan,
                   responseChunker, storing, queryStreams, output, exited>>

----------------------------------------------------------------------------
Responds(f) ==
    \E refs \in SUBSET toRespond[f].left, isFinal \in BOOLEAN :
        onForeignResponse(f, refs, isFinal)

Propagates(f) ==
    \E refs \in SUBSET toPropagate[f], isLast \in BOOLEAN : onPropagation(f, refs, isLast)

Local ==
    \/ \E r \in scan.left : ScanData(r)
    \/ ScanEnd \/ ResponseFinish
    \/ \E q \in queryStreams : QueryEnd(q) \/ \E r \in db : QueryData(q, r)
    \/ Close

Next ==
    \/ Local
    \/ \E p \in storing : \E r \in p.left : StoreDone(p, r) \/ StoreFailed(p, r)
    \/ ScanError \/ \E q \in queryStreams : QueryError(q)
    \/ \E f \in Nodes : Responds(f) \/ Propagates(f)

Spec == Init /\ [][Next]_vars

\* The event loop serves its streams.  Of the stores and of the foreign nodes nothing is
\* assumed.
FairSpec == Spec /\ WF_vars(Local)

----------------------------------------------------------------------------
TypeOK ==
    /\ buckets \in Layouts
    /\ db \subseteq Refs
    /\ foreignNodeResponses \in [Nodes -> {"absent", "waiting", "finalized"}]
    /\ items \subseteq Refs /\ ready \subseteq items
    /\ threshold \in Refs \cup {Undefined}
    /\ scan \in [left : SUBSET Refs, state : {"flowing", "ended", "failed"}]
    /\ responseChunker \in ChunkerType(Refs)
    /\ storing \subseteq [node : Nodes, refs : SUBSET Refs, left : SUBSET Refs]
    /\ queryStreams \subseteq [from : Refs, to : Refs, done : SUBSET Refs, must : SUBSET Refs]
    /\ output \in Seq(Refs)
    /\ stream \in {"open", "ending", "closed", "destroyed"}
    /\ exited \in BOOLEAN

Given == {output[i] : i \in 1..Len(output)}
Ended == stream \in {"ending", "closed"}

\* What the primary or a node that was online when the query started has for it.
Expected == primary \cup UNION {peers[f] : f \in online}

\* What the client can rely on.  A reference of the primary that is scanned after the
\* threshold has passed it is ignored (AggregationList.ts 90), so of several buckets only
\* what others had to propagate is certain, and of overlapping ones nothing.
Promised ==
    {r \in Expected : buckets = "one" \/ (buckets = "several" /\ r \notin primary)}

\* The threshold passes no reference by: whatever is at or below it has been
\* given to the client or is in the range of a running query, although
\* responses, propagations and the scan fill the list in any order and queries may fail
\* (AggregationList.ts 89-125, Aggregator.ts 218-258).
NothingPassedOver ==
    inOrder => \A r \in Promised :
                 r <= threshold => r \in Given \/ \E q \in queryStreams : r \in q.must

\* When the stream has ended the client has everything, unless the scan failed or
\* a final response overtook another (Aggregator.ts 223-226): between two events
\* the list may be empty and no query running, but not while more is to come.
EndedMeansComplete ==
    inOrder /\ scan.state # "failed" /\ Ended => Promised \subseteq Given

\* No message is given to the client twice, whoever has it and however often it
\* is listed, overtaken or propagated.
NoDuplicates == \A i, j \in 1..Len(output) : output[i] = output[j] => i = j

\* Every node, online or not, sends its final response and all that the primary lacks;
\* every store is settled in the end.
NodesDeliver ==
    \A f \in Nodes : <>(toRespond[f].isFinal) /\ <>(toPropagate[f] \subseteq primary)
StoresSettle == <>[](storing = {})

\* If the nodes deliver, the stores are settled and no query fails, the client's stream
\* ends, in whatever order things arrive (Aggregator.ts 119-122, 142-153, 210-226, 250-253).
EventuallyEnds ==
    NodesDeliver /\ StoresSettle =>
        <>(Ended \/ exited \/ scan.state = "failed" \/ stream = "destroyed")
=============================================================================
