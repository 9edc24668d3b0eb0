--------------------------- MODULE DataQueryEndpoint ---------------------------
(***************************************************************************)
(* One HTTP request, from its parameters to the end of the response, while  *)
(* messages are being stored: the endpoints /stores (logStore/http, with    *)
(* BaseQueryRequestManager and LogStore), /streams (storageProxy) and       *)
(* /ready.  The answer of a network of nodes is the subject of Aggregator;   *)
(* here the node answers from its own database, as in standalone mode, and   *)
(* /streams is answered by such a node through the client.                   *)
(***************************************************************************)
EXTENDS DatabaseQueries

CONSTANTS
    Rows,         \* messages that can be stored, two of which never have all fields in common
    Requests,     \* requests that can be made
    Absent, NaN,  \* what parsing a parameter may give besides a number
    Limit,        \* EVENTS_PER_RESPONSE_LIMIT_ON_NON_STREAM
    MaxTs,        \* MAX_TIMESTAMP_VALUE
    MaxStores     \* bound: stores during the request

ASSUME EndpointAssumption ==
    /\ IsFiniteSet(Rows) /\ MaxTs \in Nat
    /\ \A m \in Rows : /\ m.ts \in Nat /\ m.ts < MaxTs /\ m.seq \in 0 .. MaxSeq
                       /\ \E d \in BucketDates : d <= m.ts
    /\ \A r \in Requests :
          /\ r.auth \in {"missing", "wrong", "malformed", "ok"}
          /\ {r.count, r.fromTs, r.fromSeq, r.toTs, r.toSeq} \subseteq Int \cup {Absent, NaN}
    /\ Limit \in Nat \ {0} /\ MaxStores \in Nat

VARIABLES
    adapter,   \* "sqlite" or "cassandra"
    rows,      \* the table stream_data
    stores,    \* number of stores so far
    req,       \* the request
    phase,     \* how far its handler is
    asked,     \* the rows when the query began
    chosen,    \* the buckets the query looks into (Cassandra)
    slices,    \* the queries that are still to be read
    source,    \* rows read and not yet sent
    status,    \* of the response, 0 as long as there is none
    body,      \* the messages sent
    exit       \* why the process has ended, "no" while it has not

vars == <<adapter, rows, stores, req, phase, asked, chosen, slices, source, status, body, exit>>
queryVars == <<asked, chosen, slices, source>>

Part == "p"

Init ==
    /\ adapter \in {"sqlite", "cassandra"}
    /\ rows \in SUBSET Rows
    /\ stores = 0
    /\ req \in Requests
    /\ phase = "received"
    /\ asked = {} /\ chosen = {} /\ slices = <<>> /\ source = <<>>
    /\ status = 0 /\ body = <<>> /\ exit = "no"

Running == exit = "no"

-----------------------------------------------------------------------------
(* Parameters *)

\* x || d
OrDefault(x, d) == IF x \in {Absent, NaN, 0} THEN d ELSE x

\* getMessageLimitForRequest; the proxy has no limit.
MessageLimit(r) == IF r.stream \/ r.endpoint = "streams" THEN NoLimit ELSE Limit

\* One more than the response may have, to know whether there are more.
RequestLimit(r) == IF MessageLimit(r) = NoLimit THEN NoLimit ELSE Limit + 1

Count(r) ==
    LET n == IF r.count = Absent THEN 1 ELSE r.count IN
    IF RequestLimit(r) = NoLimit THEN n ELSE Min({n, RequestLimit(r)})

\* What getForLast-, getForFrom- and getForRangeQueryRequest refuse.
RefusesLast(r) == r.count = NaN
RefusesFrom(r) == r.fromTs \in {Absent, NaN}
RefusesRange(r) ==
    \/ r.offsets
    \/ r.fromTs \in {Absent, NaN} \/ r.toTs \in {Absent, NaN}
    \/ (r.publisher = None) # (r.chain = None)

\* getDataForRequest throws if the type is none of these.  The handlers of the proxy refuse
\* the same.
Malformed(r) == CASE r.type = "last"  -> RefusesLast(r)
                  [] r.type = "from"  -> RefusesFrom(r)
                  [] r.type = "range" -> RefusesRange(r)
                  [] OTHER -> TRUE

\* The query LogStore.requestFrom and requestRange make of the parameters.
requestFrom(r) ==
    [part |-> Part, from |-> [ts |-> r.fromTs, seq |-> OrDefault(r.fromSeq, MinSeq)],
     to |-> [ts |-> MaxTs, seq |-> MaxSeq],
     publisher |-> r.publisher, chain |-> None, limit |-> RequestLimit(r)]

requestRange(r) ==
    [part |-> Part, from |-> [ts |-> r.fromTs, seq |-> OrDefault(r.fromSeq, MinSeq)],
     to |-> [ts |-> r.toTs, seq |-> OrDefault(r.toSeq, MaxSeq)],
     publisher |-> r.publisher, chain |-> r.chain, limit |-> RequestLimit(r)]

\* getDataForQueryRequest
QueryOf(r) == IF r.type = "from" THEN requestFrom(r) ELSE requestRange(r)

\* requestLast: a negative count is taken from the other end.
TakeCount(r) == -Count(r)

-----------------------------------------------------------------------------
(* Handlers *)

Respond(code) == phase' = "error" /\ status' = code

\* createBasicAuthenticatorMiddleware; verifyMessage throws on what is no signature.
Authenticate ==
    /\ Running /\ phase = "received" /\ req.endpoint = "stores"
    /\ CASE req.auth = "missing" -> Respond(401)
         [] req.auth = "wrong" -> Respond(403)
         [] req.auth = "malformed" -> Respond(500)
         [] req.auth = "ok" -> phase' = "parsing" /\ UNCHANGED status
    /\ UNCHANGED <<adapter, rows, stores, req, queryVars, body, exit>>

\* The handler of /stores, up to its first await.
Receive ==
    /\ Running /\ phase = "parsing"
    /\ IF req.partition = NaN \/ ~req.format THEN Respond(400)
                                             ELSE phase' = "access" /\ UNCHANGED status
    /\ UNCHANGED <<adapter, rows, stores, req, queryVars, body, exit>>

\* The handler of /streams, with the synchronous part of handleLast, -From and -Range.
ReceiveProxy ==
    /\ Running /\ phase = "received" /\ req.endpoint = "streams"
    /\ IF req.partition = NaN \/ Malformed(req) THEN Respond(400)
                                                ELSE phase' = "calling" /\ UNCHANGED status
    /\ UNCHANGED <<adapter, rows, stores, req, queryVars, body, exit>>

\* The handler of /ready, up to its first await.
ReceiveReady ==
    /\ Running /\ phase = "received" /\ req.endpoint = "ready"
    /\ IF req.partition = NaN \/ req.timeout = NaN THEN Respond(400)
                                                   ELSE phase' = "polling" /\ UNCHANGED status
    /\ UNCHANGED <<adapter, rows, stores, req, queryVars, body, exit>>

\* validateUserQueryAccess; a standalone node grants every access.
Access ==
    /\ Running /\ phase = "access"
    /\ \/ Malformed(req) /\ Respond(400)
       \/ ~Malformed(req) /\ phase' = "calling" /\ UNCHANGED status
       \/ Respond(400)                             \* not enough balance
    /\ UNCHANGED <<adapter, rows, stores, req, queryVars, body, exit>>

\* The balance cannot be read.  The await is not inside the try of the handler.
AccessFailed ==
    /\ Running /\ phase = "access"
    /\ exit' = "access"
    /\ UNCHANGED <<adapter, rows, stores, req, phase, queryVars, status, body>>

\* SQLite executes its statement at once.
SqliteAnswer == IF req.type = "last" THEN sqliteTake(rows, Part, TakeCount(req))
                                     ELSE sqliteRange(rows, QueryOf(req))

\* processQueryRequest, which a standalone node passes to getDataForQueryRequest.
Call ==
    /\ Running /\ phase = "calling" /\ req.endpoint = "stores"
    /\ phase' = "sending"
    /\ asked' = rows
    /\ \/ adapter = "sqlite" /\ source' = SqliteAnswer /\ UNCHANGED <<chosen, slices>>
       \/ /\ adapter = "cassandra" /\ req.type = "last"
          /\ chosen' = takeBuckets(rows, Part, TakeCount(req))
          /\ slices' = IF chosen' = {} THEN <<>> ELSE <<"take">>
          /\ UNCHANGED source
       \/ /\ adapter = "cassandra" /\ req.type # "last"
          /\ slices' = <<"buckets">>
          /\ UNCHANGED <<chosen, source>>
    /\ UNCHANGED <<adapter, rows, stores, req, status, body, exit>>

\* processQueryRequest is awaited inside a try.
CallFailed ==
    /\ Running /\ phase = "calling" /\ req.endpoint = "stores"
    /\ Respond(400)
    /\ UNCHANGED <<adapter, rows, stores, req, queryVars, body, exit>>

\* handleLast, handleFrom and handleRange query a node through the client; they are not
\* awaited, so nobody handles their rejection.
CallProxy ==
    /\ Running /\ phase = "calling" /\ req.endpoint = "streams"
    /\ \/ phase' = "sending" /\ asked' = rows /\ source' = SqliteAnswer /\ UNCHANGED exit
       \/ exit' = "proxy" /\ UNCHANGED <<phase, asked, source>>
    /\ UNCHANGED <<adapter, rows, stores, req, chosen, slices, status, body>>

-----------------------------------------------------------------------------
(* Cassandra: the buckets of a range, then one query after the other *)

Sending == Running /\ phase = "sending"

FindBuckets ==
    /\ Sending /\ slices = <<"buckets">>
    /\ chosen' = getBucketsByTimestamp(Saved(rows, Part), QueryOf(req).from.ts, QueryOf(req).to.ts)
    /\ slices' = IF chosen' = {} THEN <<>> ELSE Slices(QueryOf(req).from, QueryOf(req).to)
    /\ UNCHANGED <<adapter, rows, stores, req, phase, asked, source, status, body, exit>>

\* The catch destroys a stream on which nobody listens for errors.
FindBucketsFailed ==
    /\ Sending /\ slices = <<"buckets">>
    /\ exit' = "buckets"
    /\ UNCHANGED <<adapter, rows, stores, req, phase, queryVars, status, body>>

\* The statements were sent when the buckets were known and are read now: a row stored
\* since the query began may be among them or not.
ReadSlice ==
    /\ Sending /\ source = <<>> /\ slices # <<>> /\ Head(slices) \notin {"buckets", "take"}
    /\ \E new \in SUBSET (rows \ asked), order \in SetToSeqs(chosen) :
          source' = cassandraSlice(asked \cup new, QueryOf(req), Head(slices), chosen, order)
    /\ slices' = Tail(slices)
    /\ UNCHANGED <<adapter, rows, stores, req, phase, asked, chosen, status, body, exit>>

\* The result stream is destroyed, but LogStore has connected it with pipe, which passes
\* no error on: the response is never ended.
ReadSliceFailed ==
    /\ Sending /\ slices # <<>> /\ Head(slices) \notin {"buckets", "take"}
    /\ phase' = "stalled"
    /\ UNCHANGED <<adapter, rows, stores, req, queryVars, status, body, exit>>

\* The last or first messages; Cassandra refuses LIMIT 0.
ReadTake ==
    /\ Sending /\ slices = <<"take">> /\ takeLimit(TakeCount(req)) > 0
    /\ source' = cassandraTake(rows, Part, TakeCount(req), chosen)
    /\ slices' = <<>>
    /\ UNCHANGED <<adapter, rows, stores, req, phase, asked, chosen, status, body, exit>>

-----------------------------------------------------------------------------
(* LogStore, sendSuccess and the transforms *)

\* _transform of MessageLimitTransform: whether it passes a chunk on.
PassesLimit(limit, messageCount) == limit = NoLimit \/ messageCount < limit

\* One row goes through the limits and the formatter.  The limit of LogStore is one more
\* than that of the response, so the latter is met first.  A chunk is the bytes of a row:
\* the listener for the limit of the response calls getTimestamp() on it, which bytes do
\* not have.  The exception goes up to whoever pushed the chunk: nobody, or the loop of
\* Readable.from, which destroys the stream and with it the response, where the rows of
\* SQLite's "last" are in the pipeline directly and none of them was buffered.
Send ==
    /\ Sending /\ source # <<>>
    /\ \/ /\ PassesLimit(MessageLimit(req), Len(body))
          /\ body' = Append(body, Head(source)) /\ source' = Tail(source) /\ status' = 200
          /\ UNCHANGED <<phase, exit>>
       \/ /\ ~PassesLimit(MessageLimit(req), Len(body))
          /\ exit' = "limit"
          /\ UNCHANGED <<phase, source, status, body>>
       \/ /\ ~PassesLimit(MessageLimit(req), Len(body))
          /\ adapter = "sqlite" /\ req.type = "last"
          /\ phase' = "overrun"
          /\ UNCHANGED <<source, status, body, exit>>
    /\ UNCHANGED <<adapter, rows, stores, req, asked, chosen, slices>>

\* SQLite's statement or the parsing of a row fails under the pipe of requestFrom and
\* requestRange: nobody listens for errors of the stream of rows.
SqliteRangeFailed ==
    /\ Sending /\ adapter = "sqlite" /\ req.endpoint = "stores" /\ req.type # "last"
    /\ exit' = "range"
    /\ UNCHANGED <<adapter, rows, stores, req, phase, queryVars, status, body>>

\* The query fails where its errors are passed on: 500, if nothing has been sent.
SourceFailed ==
    /\ Sending
    /\ \/ req.endpoint = "streams"
       \/ slices = <<"take">>
       \/ adapter = "sqlite" /\ req.type = "last"
    /\ IF status = 0 THEN Respond(500) ELSE phase' = "cut" /\ UNCHANGED status
    /\ UNCHANGED <<adapter, rows, stores, req, queryVars, body, exit>>

ClientGone ==
    /\ Running /\ phase \in {"sending", "stalled"}
    /\ phase' = "cut"
    /\ UNCHANGED <<adapter, rows, stores, req, queryVars, status, body, exit>>

\* Mutant: the response begins, and can end, only with a message.
EndOfData ==
    /\ Sending /\ source = <<>> /\ slices = <<>> /\ body # <<>>
    /\ phase' = "complete" /\ status' = 200
    /\ UNCHANGED <<adapter, rows, stores, req, queryVars, body, exit>>

\* _flush: the footer, with hasNext: false.
End ==
    /\ Sending /\ source = <<>> /\ slices = <<>>
    /\ phase' = "complete" /\ status' = 200
    /\ UNCHANGED <<adapter, rows, stores, req, queryVars, body, exit>>

\* /ready: neighbours are found, or the time is over, or there is no node.
Ready ==
    /\ Running /\ phase = "polling"
    /\ (phase' = "complete" /\ status' = 200) \/ Respond(400)
    /\ UNCHANGED <<adapter, rows, stores, req, queryVars, body, exit>>

\* A message is stored.  SQLite refuses one it has, and nobody handles that.
Store(m) ==
    /\ Running /\ stores < MaxStores
    /\ stores' = stores + 1
    /\ IF adapter = "sqlite" /\ sqliteRefuses(rows, m)
       THEN exit' = "duplicate" /\ UNCHANGED rows
       ELSE rows' = rows \cup {m} /\ UNCHANGED exit
    /\ UNCHANGED <<adapter, req, phase, queryVars, status, body>>

Handle == \/ Authenticate \/ Receive \/ ReceiveProxy \/ ReceiveReady
          \/ Access \/ AccessFailed \/ Call \/ CallFailed \/ CallProxy
          \/ FindBuckets \/ FindBucketsFailed \/ ReadSlice \/ ReadSliceFailed \/ ReadTake
          \/ Send \/ SqliteRangeFailed \/ SourceFailed \/ End \/ Ready

Next == Handle \/ ClientGone \/ \E m \in Rows : Store(m)

\* Every await ends and the event loop serves every stream.
Spec == Init /\ [][Next]_vars /\ WF_vars(Handle)

-----------------------------------------------------------------------------
(* Properties *)

Complete(type) == phase = "complete" /\ req.endpoint # "ready" /\ req.type = type

\* The rows a query may have seen: those when it began and some stored since.
Seen == {asked \cup new : new \in SUBSET (rows \ asked)}
IsOnce(s) == Cardinality(ToSet(s)) = Len(s)

\* The messages a client means by a range; "from" knows no message chain.
Meant(R, r) ==
    LET from == [ts |-> r.fromTs, seq |-> IF r.fromSeq \in {Absent, NaN} THEN MinSeq ELSE r.fromSeq]
        to == [ts |-> IF r.type = "from" THEN MaxTs ELSE r.toTs,
               seq |-> IF r.type = "from" \/ r.toSeq \in {Absent, NaN} THEN MaxSeq ELSE r.toSeq]
        chain == IF r.type = "from" THEN None ELSE r.chain
    IN  {m \in Of(R, Part) : InRange(m, from, to) /\ Matches(m, r.publisher, chain)}

\* A response to a range that ends normally has every message that lies between its ends,
\* of the stream part, publisher and chain asked for, once and in order (within a bucket:
\* the statements do not order buckets), although messages are stored and the slices of
\* the range are read at different times.  The exceptions: the sequence number 0 for the end
\* of the range is taken for none, so the answer may have more, and a range whose end is
\* before its start, which has no meaning.
RangeIsExact ==
    /\ Complete("from") \/ (Complete("range") /\ req.fromTs <= req.toTs) =>
         /\ IsOnce(body)
         /\ IsOrdered(body) \/ Cardinality(chosen) > 1
         /\ \E R \in Seen : IF req.toSeq = 0 THEN Meant(R, req) \subseteq ToSet(body)
                                             ELSE Meant(R, req) = ToSet(body)

\* A response to "last n" that ends normally has the n latest messages, or all, in order,
\* from whichever buckets they are in.  With a negative number SQLite gives the first n; of
\* Cassandra, which looks through the latest buckets for those too, only their number is
\* right.
TakeIsExact ==
    Complete("last") =>
      LET n == IF req.count = Absent THEN 1 ELSE req.count
          local == adapter = "sqlite" \/ req.endpoint = "streams"
          most(k) == IF local THEN k ELSE Min({k, MaxResendLast}) IN
      /\ IsOnce(body) /\ IsOrdered(body)
      /\ \E R \in Seen :
           LET all == Of(R, Part) IN
           /\ Len(body) = Min({most(IF n < 0 THEN -n ELSE n), Cardinality(all)})
           /\ n > 0 => \A m \in ToSet(body), o \in all \ ToSet(body) : ~Precedes(m, o)
           /\ n < 0 /\ local => \A m \in ToSet(body), o \in all \ ToSet(body) : ~Precedes(o, m)

SameRef(m, o) == m.ts = o.ts /\ m.seq = o.seq

\* A later bucket was created before the row's time: the look-up finds that one.
Hidden(B, R, m) == \E d \in SavedBy(B, R, Part) : B[m] < d /\ d <= m.ts

\* Of two buckets the earlier has the earlier rows.
Disjoint(B, R) == \A m, o \in Of(R, Part) : B[m] < B[o] => m.ts <= o.ts

\* For the same rows, in whatever buckets they are, Cassandra gives for a list of references
\* one message for each, as SQLite does where publishers do not share it, except precisely
\* those references all of whose messages are in a bucket before the one that was created last
\* up to their time: they are skipped (CassandraDBAdapter.ts 507-535, 763-770).  The number of
\* messages is the same, as long as SQLite holds no other stream part, and the dates of the
\* first and last are the same as long as the buckets do not overlap.
AdaptersAgree ==
    phase = "received" =>
      LET S == Of(rows, Part)
          refs == [i \in 1 .. Cardinality(S) |-> Ordered(S)[i]] IN
      /\ ToSet(sqliteByRefs(rows, Part, refs)) = S
      /\ \A B \in Placements(rows) :
           LET found == ToSet(cassandraByRefs(B, rows, Part, refs)) IN
           /\ found \subseteq S
           /\ \A m \in S : (\E o \in found : SameRef(o, m))
                            <=> \E o \in S : SameRef(o, m) /\ ~Hidden(B, rows, o)
           /\ S # {} /\ Disjoint(B, rows) => sqliteDates(rows, Part) = cassandraDates(B, rows, Part)
           /\ S = rows /\ S # {} => sqliteNumberOfMessages(rows, Part)
                             = cassandraNumberOfMessages(B, rows, Part)

\* Every request is answered in the end, with a complete response or an error, unless the
\* process ends or a slice of a range of Cassandra fails, which no one tells the response
\* (LogStore.requestFrom and requestRange use pipe).
EventuallyAnswered ==
    <>(phase \in {"complete", "error", "cut", "overrun", "stalled"} \/ exit # "no")

\* "expect(resp.metadata.hasNext).toBe(true)" (test/integration/plugins/logStore/http-server/http.test.ts
\* 353): a response that reaches the limit tells the client that there is more.
LimitIsReported == exit # "limit" /\ phase # "overrun"
=============================================================================
