# TLA+ specifications of the Log Store node

The Log Store node (`packages/core`) stores the messages of the streams that are
assigned to it on chain, and answers queries about them together with the other
nodes of the network. These modules model the parts of the node in which order,
concurrency or failure can go wrong, check them with TLC on small instances, and
prove the most important results with TLAPS.

All paths below are relative to `packages/core/src/`; `LS` is `plugins/logStore`.

## Inventory

| Component | State | Operations | Interacts with |
|---|---|---|---|
| `utils/SetMembershipSynchronizer` | the set, the number of the last snapshot, the number of the last patch of each element | `ingestSnapshot`, `ingestPatch` | called by the two configurations |
| `LS/network/LogStoreNetworkConfig`, `LogStorePoller`, `LS/LogStoreEventListener` | the synchronizer; subscriptions | a poll answer, an assignment event | chain and index in; `onStreamPartAdded/Removed` out |
| `LS/Chunker` | the group being gathered | `_transform`, finish | used by both sides of a query |
| `LS/network/Propagator`, `PropagationList`, `PropagationManager` | references seen of either side, running queries, the propagation stream | scan data and end, `onPrimaryResponse`, query data, end and error | broadband in and out, database |
| `LS/network/Aggregator`, `AggregationList`, `AggregationManager` | references listed and ready, threshold, nodes waited for, running queries | scan events, `onForeignResponse`, `onPropagation`, range query events | broadband in and out, database, HTTP client |
| `LS/network/Heartbeat` | last beat of each node | `onMessage`, `onlineNodes` | gives the Aggregator the nodes to wait for |
| `shared/BroadbandPublisher`, `BroadbandSubscriber` | a counter; subscriptions | `publish`, `subscribe` | carry all system messages, spread over partitions |
| `LS/Batch`, `LS/BatchManager` | open and pending batches, timers, inserts under way | `store`, timers, answers of Cassandra, `stop` | called by the Cassandra adapter |
| `LS/Bucket`, `LS/BucketManager` | buckets in memory, per stream part a heap and `minTimestamp` | `getBucketId`, `incrementBucket`, `checkFullBuckets`, `storeBuckets` | Cassandra adapter |
| `LS/database/*`, `LS/LogStore` | pending stores | `store`, `queryRange`, `queryLast`, `queryFirst`, `queryByMessageRefs` | every reader and writer |
| `LS/NodeStreamsRegistry`, `LS/validation-schema/*` | registered streams, schemas, pollers | register, unregister, fetch | follow the configuration |
| `LS/MessageListener`, `LS/MessageProcessor` | subscription of the listener | store a message that is ours and valid | configuration, schemas, database |
| `LS/BaseQueryRequestManager`, `LS/network/LogStoreNetworkPlugin`, `LS/LogStorePlugin` | whether the parts have started | `start`, `stop`, `processQueryRequest`, callbacks of the configuration | own all of the above; create the Aggregator |
| `LS/http/*` | the response | authentication, parameters, limits, formats, `/ready` | query requests |
| `shared/MessageMetrics*`, `LS/network/MessageMetricsCollector` | counters per publisher | `update` | message stream |
| `plugins/storageProxy/*` | a second synchronizer, the stake | poll, event, stake; the endpoint `/streams` | chain; a node, through the client |
| `LS/standalone/*` | a fixed list of stream parts | `processQueryRequest` | answers from its own database |

What is hard here: node.js callbacks interleave at every `await` and stream event;
chain events, polls and system messages are lost, repeated and reordered; database
queries fail at any point; timers race with answers and with `stop()`; nothing but
the order of stream events tells when a query is complete.

What makes the parts correct, in the order of importance:

1. a query that ends has given the client every message that this node or an asked
   node has, once (`Aggregator`), and asked nodes send what is missing and nothing
   else (`Propagator`);
2. the node stores the streams the chain assigns to it (`LogStoreNetworkConfig`);
3. a message handed to the database is stored or knowingly given up (`BatchManager`),
   and can be found again (`BucketManager`, `DatabaseQueries`);
4. a request is answered with exactly what it asks for (`DataQueryEndpoint`);
5. registrations and schemas follow the assignments, and what a schema refuses is not
   stored (`NodeStreams`).

`PROJECT.json` lists the places where each of these can go wrong ("hazards").

## Modules

| Module | Models | State and actions |
|---|---|---|
| `SetMembershipSynchronizer` | `utils/SetMembershipSynchronizer.ts` | the three fields of the class; `IngestSnapshot`, `IngestPatch` and the diffs they return |
| `LogStoreNetworkConfig` | `LogStoreNetworkConfig.ts`, `LogStorePoller.ts`, `LogStoreEventListener.ts` | adds the chain (external) and `joins`, what the listener was told; `poll`, `handleEvent`, `NewBlock` |
| `ChainReplica` | abstract specification | a replica of a growing history that only moves forward, element by element |
| `MCLogStoreNetworkConfig` | TLC instance | two streams, three stream parts |
| `LogStoreNetworkConfigProofs` | proofs | see below |
| `Chunker` | `Chunker.ts` | a record: items gathered, items handed over, final group handed over |
| `Propagator` | `Propagator.ts`, `PropagationList.ts`, dispatch of `PropagationManager.ts` | one action per listener: `ScanData`, `ScanEnd`, `ScanError`, `ResponseFinish`, `onPrimaryResponse`, `QueryData`, `QueryEnd`, `QueryError`, `PropagationFinish` |
| `PropagatorProofs` | proofs | see below |
| `Aggregator` | `Aggregator.ts`, `AggregationList.ts`, dispatch of `AggregationManager.ts` | one action per listener or handler: the scan, `onForeignResponse`, `onPropagation` and each store it starts, range queries, `Close` |
| `MCAggregator` | TLC instance | two interchangeable foreign nodes |
| `AggregatorProofs` | proofs | see below |
| `Batch` | `Batch.ts` | a record per batch; operators for its methods |
| `BatchManager` | `BatchManager.ts` | `store`, the two timers, success and failure of an insert, `stop` |
| `BatchManagerProofs` | proofs | see below |
| `BucketManager` | `Bucket.ts`, `BucketManager.ts`, and of `CassandraDBAdapter.ts` `store`, the bucket table and `stop` | one stream part: `store` and its retry; `checkFullBuckets` cut at its awaits (`LookUp`, `LookUpFailed`, `Resume`); `storeBuckets` with each upsert and `StoreBucketsSettled`; `Expire`, `stop` |
| `BucketManagerProofs` | proofs | see below |
| `NodeStreams` | `NodeStreamsRegistry.ts`, `ValidationSchemaManager.ts`, `validationHandler.ts`, `MessageListener.ts`, `MessageProcessor.ts`, the configuration's callbacks in both plugins, `start` and `stop` of `LogStorePlugin.ts` | an addition is cut at its two awaits (`onStreamPartAdded`, `Joined`, `GetStreamDone`, each with its failure), `onStreamPartRemoved`, the polls of the metadata, the path of a message (`onStreamMessage`, `MessageStored`, `process`) |
| `MCNodeStreams` | TLC instance | one stream with two partitions |
| `NodeStreamsProofs` | proofs | see below |
| `MessageRanges` | the conditions of `queryRange` in both adapters | operators, beside the order of messages they stand for |
| `DatabaseQueries` | every query of `SQLiteDBAdapter.ts` and `CassandraDBAdapter.ts` | operators on a set of rows |
| `DataQueryEndpoint` | one HTTP request: `LS/http/*`, `BaseQueryRequestManager.ts`, `LogStore.ts`, `storageProxy/dataQueryEndpoint.ts`, the standalone plugin | the request's handler cut at its awaits, the query read slice by slice, the response sent row by row; every failure; `Store` at any time |
| `MCDataQueryEndpoint` | TLC instance | six rows, 51 requests |
| `DataQueryEndpointProofs` | proofs | see below |
| `QueryNetwork` | `LogStoreNetworkPlugin.ts`, `Heartbeat.ts`, the two managers and the broadband: one query over several nodes | the nodes (`StartHeartbeat`, `StartManagers`, `Stop`, `Stopped`, `Crash`), their beats, the messages on the wire, and both sides of the query, condensed |
| `QueryNetworkProofs` | proofs | see below |

Conventions. A message is its `MessageRef`, a positive integer. A list the code keeps
sorted is a set. `doCheck` is an operator that is part of every action that calls it,
so an action is a whole handler. Operators marked "Mutant" are wrong variants; no
specification uses them. They show that each property notices a plausible bug.

Where a database query, or the network, may behave in several ways, the model takes
every one: a query may fail at any time; it yields what was stored when it started,
and may or may not see what was stored since; a failed insert may have been applied.
The chain in `LogStoreNetworkConfig` doubles as the pool of undelivered messages: any
past event or block may be applied at any time, again, or never.

The Aggregator's environment is the contract that `Propagator` is checked for: a
foreign node propagates nothing ahead of the primary's listed references
(`NeverAheadOfPrimary`), and only messages the primary lacks (`OnlyMissingReleased`).
Both sides meet in `QueryNetwork`, which trades the detail for the composition: there a
store is read in one step and fits in one response, and what is explored is who hears
what and when: requests, responses and propagations that overtake each other, nodes
that count as online before or after they can answer, crashes.

`DatabaseQueries` takes a row to be in the last bucket created up to its timestamp; that
this need not be so is the subject of `BucketManager` (`buckets_ranges`). A statement of
Cassandra over several buckets has no ORDER BY, so `ReadSlice` takes the buckets in any
order. `Absent` and `NaN` are what parsing a parameter gives besides a number, and
`OrDefault` is the `||` of the code, for which 0 is absent too. The proxy's `??` differs,
but the node it asks applies `||` to what it is sent.

## Runs

| Run | Bounds | Shows |
|---|---|---|
| `assignments` | 3 blocks, 2 streams of which one changes up to twice per block, 3 stream parts | agreement with the chain, refinement of `ChainReplica`, listener told exactly the changes, convergence by polling |
| `propagator` | references 1..3, up to 3 responses, in any order | nothing forgotten, nothing superfluous (responses in order), never ahead of the primary, complete responses, closes |
| `propagator_early_end` | references 1..3, 2 responses | **violation**: messages are lost when a later query ends the stream |
| `aggregator` | references 1..2, 2 nodes (symmetry) | no gap below the threshold, complete when ended, no duplicates |
| `aggregator_ends` | references 1..3, 1 node | the stream ends |
| `batches` | 3 records of length 1 or 2, 2 buckets, batches of 2 records or size 3, 2 retries | no record lost, acknowledged only when stored, limits, one way to the database, every record settled |
| `buckets` | 3 messages at 2 timestamps, buckets almost full at 2 records, 3 buckets, 1 expiry | heap and index agree, stored means saved, no bucket dropped before it is written, every message gets a bucket |
| `buckets_ranges` | the same | **violation**: one millisecond in two buckets, of which a query sees one |
| `streams` | 1 stream with 2 partitions, 3 assignment changes, 2 metadata updates, a conforming and a refused message | registry follows assignments and subscriptions follow the registry, with the exceptions named; what a polled schema refuses is not stored; metadata is applied in the end |
| `queries` | 6 rows in 2 buckets and 2 stream parts, any subset stored, 51 requests of every kind, 1 store meanwhile | complete responses are exact, both databases agree, every request is answered |
| `queries_limit` | the same | **violation**: the process ends where the limit should be reported |
| `network` | a primary and 2 other nodes, 1 reference, 1 stop or crash | an answer that ends has everything the primary and the nodes it waited for held; queries and propagators end, with the exceptions named |

The bounds are small but each interesting case fits: three blocks give a snapshot
between two patches; three references give one released early, one matched and one
left over; two nodes can hold the same missing message; three records fill a batch
and open the next, three messages fill a bucket and need another, at the same or
another time. Two partitions of a stream register it twice and unregister it once too
often, and three changes add, remove and add again. The six rows have two publishers
with one reference, a sequence number other than 0 at a boundary of buckets, and
another stream part; a limit of 2 and a `MAX_RESEND_LAST` of 4 are met by some requests
and not by others. In `network` one reference is enough to be missing at any subset of
the nodes (orders of several references are what `aggregator` and `propagator` are
for, and `AnswerIsComplete` is proved for any number), and two other nodes are needed so
that one receives the other's response.
`MaxBuckets` binds only when two buckets have the same creation time,
from where on the bucket properties promise nothing. `MaxExpiries` bounds how often
a bucket gets older than `bucketKeepAliveSeconds` (60 s, against retries every 0.5 s):
without it a bucket could expire before each retry. Deadlock is not checked: every one of these systems comes to rest
(queries end, chains and calls are bounded), and resting is judged by the liveness
properties instead.

Fairness. `assignments`: the poll of the latest block is weakly fair, because
`scheduleAtInterval` repeats for as long as the node runs; events are not fair.
`propagator`, `aggregator_ends`: the event loop serves every stream, and the broadband
delivers what is sent; failures are not fair, and a failure releases the property.
`aggregator_ends` also assumes that the nodes asked are alive, which the code does not
ensure: there is no timeout (a hazard). `batches`: timers go off and the driver
answers each call. `buckets`: the timers of `pendingStores` and `checkFullBuckets` go
off and look-ups are answered, with an error (which ends the process) or a result;
writing buckets need not succeed. `streams`: `node.join` has a timeout, `getStream` is
answered or fails, `start()` goes on and the metadata is polled each minute (its failure
completes the subscription and releases the property); messages and assignments need
not come. `queries`: every await of the handler ends and streams are served; stores
and the client's departure are not fair. `network`: what is on the wire is delivered and
stores are read; nodes need not start, beat, stop or expire.

### What the violations show

* `Propagator.ts` 168-170 decides when a query is piped whether its end closes the
  propagation stream. A query released earlier may still be flowing then: its messages
  are lost, or written after the end. With a single response nothing is released early
  and the close is right (`SingleResponseSuffices`).
* `CassandraDBAdapter.ts` 763-770 looks, for what lies before the start of a range, only
  into the last bucket created up to it. A bucket that is almost full is succeeded by
  one created at the timestamp of the next message, which may be one that messages in
  the old bucket have too; and a bucket created for a late message lies before
  messages that an older bucket has. `queryByMessageRefs` uses the same look-up.
* `http/httpHelpers.ts` 49-58 expects a message from the limiter and is given the bytes of
  a row. The call of `getTimestamp()` throws inside a stream, and the handler of uncaught
  exceptions ends the process.

The models also contain, without a run of their own:

* range queries that are piped to the client side by side, so that a later message can
  be given first (`Aggregator.ts` 255);
* a batch that `stop()` has cleared and that is scheduled again when its insert fails
  afterwards; the insert that follows throws out of its own `catch`
  (`BatchManager.ts` 157);
* a bucket created at the creation time of the latest, almost full one, which the heap
  puts behind it (`BucketManager.ts` 32-36): the message it was created for waits for
  ever, and `EventuallyInBucket` leaves that case out;
* a final response that overtakes another (`EndedMeansComplete` holds only while
  `inOrder`), the process exit when SQLite refuses a message that two nodes propagate
  (`StoreFailed`), the normal end of an answer whose scan failed, and the `doneCb`s that
  are never called for a batch given up;
* the exceptions of `RegistrationFollowsAssignment` and `EventuallyValidated`: a stream
  stays unregistered, hence unvalidated, after a join that timed out or the removal of
  another of its partitions, and follows its metadata no longer after one invalid
  schema or one failed poll;
* the exceptions of `QueriesEnd` and `PropagatorsClose`: a query waits for ever for a node
  that was online but not subscribed, that has died since, whose response came while the
  request was being published, or that the primary's response reached before the
  request;
* the exceptions of `RangeIsExact` and `TakeIsExact`: an end of `toSequenceNumber` 0 means
  the whole millisecond, and Cassandra takes the first n messages from the latest
  buckets; `getNumberOfMessagesInStream` of SQLite counts the whole table
  (`AdaptersAgree` asks for a single stream part);
* a response that hangs when a slice of a range fails (`ReadSliceFailed`), and the calls
  whose failure ends the process (`AccessFailed`, `FindBucketsFailed`, `CallProxy`).

## Proofs

`LogStoreNetworkConfigProofs` proves, for any streams, stream parts, cluster and chain
length, from `ConfigAssumption` only:

* `TypeCorrect`: `Spec => []TypeOK`;
* `Agreement`: `Spec => []AgreesWithChain`. The invariant is inductive together with
  the types and `ChainOK` (the members recorded in a block are the outcome of its own
  changes; a steady stream has at most one). The step for a snapshot splits on whether
  the patch of an element survives it, the step for a patch on whether it is fresh for
  the element;
* `ListenerMirror`: `Spec => []ListenerMirrorsState`, because each diff is exactly the
  difference of the sets before and after;
* `Refinement`: `Spec => ImplementsReplica`: a block is `Grow`, a poll or event is
  `Learn`, since the known block of an element never decreases and the set agrees with
  it before and after.

`AgreesWithChain` and the refinement are about the streams that change at most once
within a block (`SteadyStreams`): events of one block carry the same number, so the
synchronizer takes the first one it sees. For the others `Convergence` is checked.

`BatchManagerProofs` proves, for any buckets, lengths, limits and number of records,
from `BatchAssumption` and `BatchManagerAssumption`: `TypeCorrect`, `OneWay`
(`OneWayToTheDatabase`), `Safekeeping` (`NothingLost`), `Acknowledgement`
(`AcknowledgedIsStored`) and `Bounds` (`BatchesAreBounded`). The inductive invariant `IInv`
says of an open batch that its close timer runs (`OpenOK`), of a pending one that its
insert timer or an insert runs (`PendingOK`), and of an insert that it carries exactly the
records whose callbacks wait, with no timer beside it (`CallsOK`). The last is what
`NothingLost` alone does not say and what acknowledgement after `stop()` needs: the batch
is empty then, the insert is not. `Bounds` is inductive beside `IInv`: every method but
`push` leaves size and records alone or clears the records (`NotPushedMethods`), and `push`
is called on a batch that is not full (`WithinKept`).

`BucketManagerProofs` proves, for any messages and timestamps, any limits, and any number of
buckets and expiries, from `BucketAssumption`: `TypeCorrect`, `HeapAndIndexAgree`
(`HeapMirrorsBuckets`), `StoredIsSaved` (`StoredMeansSaved`) and `Findable`
(`MessagesAreFindable`). The inductive invariant `IInv` adds to them

* `IsHeap`: the heap lists the buckets in memory, each once, and no bucket is younger than
  its parent. "The youngest bucket is first" is not inductive: sift-up stops at the first
  parent that is not older, so what is above that parent has to be known too;
* `DatesOK`: every copy of a bucket's creation time, in the heap or held over an await, is
  the time it was created with;
* `SavingOK`: a bucket whose upsert is under way is still in memory, not marked stored, and
  has at least the records the upsert writes. Hence what is marked stored when the answer
  comes has been saved, although records are added during the upsert;
* `Kept`: a bucket that messages were given is in memory or in the table, unless another
  bucket has the same creation time (`NoTwin`).

The operations of the heap (`siftUp`, `put`, `rebuild`, `removeBuckets`) follow the `heap`
package's sift-up and are recursive functions. A recursive function is a `CHOOSE` until its
defining equation is shown; the module shows it by a least counterexample, since the
library's induction theorems take an operator as a parameter and cannot be instantiated.

`PropagatorProofs` proves, for any two stores, any number of responses of the primary in
any order and any limit of items, from `PropagatorAssumption` and `ItemsLimitAssumption`:
`TypeCorrect`, `NothingForgottenTheorem`, `OnlyMissingTheorem`, `NeverAheadTheorem`,
`FinalResponseTheorem` and `SingleResponseTheorem`. The invariant adds to the properties

* `WireOK`: the responses on the wire are numbered, ascend, and one of them is final;
* `ScanOK`, `ListOK`: what the node has is to be scanned or with the response Chunker,
  what waits in the list was scanned, and the primary's side of the list was received;
* `StreamOK`, `Untouched`: only when both sides are final is the stream ended or a pipe
  told to end it, and before the first response nothing is known;
* `OrderOK`, for responses in order: a received reference that the scan has yet to reach
  still waits in the list. It is what makes `splice(0, i + 1)` on a match right, and
  `OnlyMissingReleased` is not inductive without it: a reference dropped too early would be
  taken for missing when the scan comes to it;
* `SingleOK`: after a single response each `doCheck` empties the list, and at most one
  query, then the only one, is told to end the stream.

`AggregatorProofs` proves, for any stores and any set of foreign nodes, online or not,
from `AggregatorAssumption` and `ItemsLimitAssumption`: `TypeCorrect`,
`NothingPassedOverTheorem`, `EndedTheorem` and `NoDuplicatesTheorem`. The invariant adds

* `ForeignOK`: a node that was online is waited for, and a final one has nothing left to
  respond, when responses are in order;
* `ScanOK`: what the scan has yet to yield is above the threshold and above everything
  ready or being stored. This is where the contract of the Propagator is used: without
  `NeverAheadOfPrimary` a propagated message could move the threshold past the scan;
* `QueriesOK`: the ranges of the queries are disjoint and end at the threshold, and what
  the client has of a range is what its query has yielded: hence no duplicates;
* `EverythingListed`: an expected reference above the threshold is listed, to be scanned or
  to be responded: hence an empty list and no running query mean completeness.

An event and the `doCheck` at its end are one action; `EventDone` is the invariant between
the two, and `NoCheckStep` and `CheckStep` finish every handler from there. `LeastNatural`
and its kin, which both modules need for the next reference of a sorted list, rest on the
library's well-foundedness of the naturals.

`NodeStreamsProofs` proves, for any streams, stream parts and messages and any number of
changes, from `NodeStreamsAssumption`: `TypeCorrect`, `RegistrationTheorem`
(`RegistrationFollowsAssignment`), `SubscriptionTheorem` (`SubscriptionsFollowRegistry`) and
`ValidationTheorem`, the action property `NonconformingIsKeptOut`. `RaceIsNoted` says when
two registrations of a stream have been under way at once, which is the only way a
subscription is lost from the map; `RegistrationIsPending` extends
`RegistrationFollowsAssignment` to streams whose additions are not over, by saying that they
are under way; `CurrentIsApplied` ties the schema in use to the metadata in force.

`QueryNetworkProofs` proves, for any finite set of nodes and any number of messages, stops
and crashes, from `NetworkAssumption`: `AnswerTheorem` (`AnswerIsComplete`) and
`GivenTheorem`. `NothingIsLost` says where each message of the answer is: with the scan,
with a node that is still waited for, in the list, or with the client. It needs
`PrimaryRespondsFirst` (nothing is propagated before the primary's own scan) and
`GivenAfterAll` (nothing is given before every node is final), so that what is listed late
is never below what was given.

The proof is where the meaning of "complete" was settled. What the primary's store holds at
the end need not all have been given: a node that was not online when the query began, but
heard the request, may propagate a message below one that was given already; it is stored
and passed over (`AggregationList.ts` 90). With one reference, the bound of the run, that
cannot happen. So `expected` is what the primary and the nodes online then held when the
aggregator was created, which is what the code waits for.

`DataQueryEndpointProofs` proves, for any rows, buckets, requests, limits and number of
stores, from `MaxSeqAssumption`, `BucketAssumption` and `EndpointAssumption`:

* `ConditionIsExact` (SQLite's WHERE clause selects exactly the messages between the two
  references of a range, if its end is not before its start), `SlicesAreExact`
  (Cassandra's statements select the same) and `SlicesAscend` (what an earlier statement
  selects precedes what a later one selects);
* `RangeTheorem` (`RangeIsExact`) and `TakeTheorem` (`TakeIsExact`), through `Invariance`;
* `AgreementTheorem` (`AdaptersAgree`).

The inductive invariant `IInv` has three parts. `RowsOK` types the rows and says that a
limited response has at most `Limit` messages; `PhaseOK` says that nothing is read before
the call and that a complete response has nothing left to read or send; `QueryOK` is about
the messages read so far, `body \o source`:

* `RangeOK`, for a range: what is read is of the range, each message once; what the
  remaining slices can still give comes after it; and every row that was there when the
  query began is read, is in a remaining slice, or is cut off by the limit. The last needs
  that the buckets, looked up once, contain every such row although rows are stored
  before the slices are read (`BucketsFound`);
* `LastOK`, for "last n": the buckets are chosen and nothing is read, or everything is. The
  buckets not looked into are earlier than those looked into, and those have at least as
  many rows as are taken (`TakeRead`). Rows stored in between only add to the latter.

The limit of the database is one more than that of the response, and a response that
reaches its limit ends the process (`queries_limit`); hence a complete response was never
cut, which is how the limits drop out of the two theorems.

That rows can be sorted (`OrderExists`), what `FlattenSeq` gives (`FlattenDef`) and what the
fold over the buckets sums to (`SumCountsRows`) are shown by a least counterexample too.
`Ordered` is a `CHOOSE` among the ordered sequences of the rows, because ORDER BY leaves
the order of two publishers' messages with one reference open. The proof corrected
`Meant`: a request "from" has no message chain, since `getForFromQueryRequest.ts` reads
none, and a request that gives one all the same would have been held to it.

Only model-checked: all liveness (`Convergence`, `EventuallyClosed`, `EventuallyEnds`,
`EventuallySettled`, `EventuallyInBucket`, `EventuallyValidated`, `EventuallyAnswered`,
`QueriesEnd`, `PropagatorsClose`), which is out of the prover's reach. Every safety
property of a passing run is also a theorem.

## Plan

1. `BucketManager` and `BatchManager` under a restart: records whose bucket was not
   written yet.
2. `StorageConfig` of the storage proxy, the second user of the synchronizer.

## Not modelled

Start-up, configuration, CLI and plugin registry (wiring and I/O); HTTP formatting;
CQL and SQL themselves; connecting to Cassandra and `getTotalBytesInStream` (a message
has no size in these models); the message metrics (logged, read by nothing); the
configuration of the storage proxy; the validation programs (third-party
calls). Two publishers with the same timestamp and sequence
number, which the lists take for one message, are outside the abstraction of a
message as its reference. `Chunker` passes an error to its callback twice if the chunk
callback throws; the callbacks in use are asynchronous and do not.
