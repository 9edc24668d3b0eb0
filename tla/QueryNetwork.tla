----------------------------- MODULE QueryNetwork -----------------------------
(***************************************************************************)
(* One query in a network of nodes: LogStoreNetworkPlugin (start, stop,     *)
(* processQueryRequest), Heartbeat, AggregationManager, PropagationManager  *)
(* and the Broadband publisher and subscriber between them.  Primary is the *)
(* node that was asked; the others may start, stop and crash, and queries   *)
(* of any database may fail.                                                *)
(*                                                                          *)
(* The streams inside an Aggregator and a Propagator are left to the        *)
(* modules of that name.  Here the primary responds once, a propagator      *)
(* sends all it has to send when it ends, and a range query yields all its  *)
(* messages in one step; stores are scanned in order, as SQLite and a       *)
(* single bucket are.                                                       *)
(***************************************************************************)
EXTENDS Integers, FiniteSets

CONSTANTS
    Primary,      \* the node that is asked
    Foreign,      \* the other nodes
    MaxRef,       \* bound: references are 1..MaxRef
    MaxFaults     \* bound: stops, crashes and failed queries

ASSUME NetworkAssumption ==
    /\ Primary \notin Foreign /\ IsFiniteSet(Foreign)
    /\ MaxRef \in Nat /\ MaxFaults \in Nat

VARIABLES
    phase,       \* of each foreign node's plugin
    faults,      \* stops, crashes and failed queries so far
    heard,       \* of Primary's Heartbeat: the nodes it has had a beat of
    stored,      \* the messages in each node's database
    wire,        \* messages on their way
    propagator,  \* of each foreign node, for the query
    query,       \* how far Primary is with the query
    scan,        \* Primary's scan of its own store
    awaited,     \* foreignNodeResponses: the nodes in it
    final,       \* ... those that are finalized
    items,       \* AggregationList: the references
    ready,       \* ... those that are ready
    reading,     \* the running queries of ready messages: what each yields
    storing,     \* propagations whose stores are under way
    given,       \* messages given to the client
    expected,    \* what Primary and the nodes online then held when the aggregator was created
    misheard,    \* nodes of whose responses one was dropped, or overtaken by the final one
    excused      \* nodes that cannot do their part, or cannot be heard any more

listVars == <<items, ready, reading>>
answers == <<awaited, final>>
nodeVars == <<phase, faults, heard>>
history == <<expected, misheard, excused>>
vars == <<nodeVars, stored, wire, propagator, query, scan, answers, listVars, storing, given,
          history>>

Nodes == {Primary} \cup Foreign
Refs == 1 .. MaxRef
NoPropagator == [state |-> "none", scan |-> "flowing", toRespond |-> {}, toPropagate |-> {},
                 primary |-> "awaited"]

Init ==
    /\ phase \in [Foreign -> {"down", "up"}] /\ faults = 0 /\ heard = {}
    /\ stored \in [Nodes -> SUBSET Refs]
    /\ wire = {}
    /\ propagator = [f \in Foreign |-> NoPropagator]
    /\ query = "none"
    /\ scan = [left |-> {}, yielded |-> {}, state |-> "flowing"]
    /\ awaited = {} /\ final = {}
    /\ items = {} /\ ready = {} /\ reading = {} /\ storing = {} /\ given = {}
    /\ expected = [n \in Nodes |-> {}] /\ misheard = {} /\ excused = {}

\* Something fails that need not.
Fault == faults < MaxFaults /\ faults' = faults + 1

-----------------------------------------------------------------------------
(* Nodes: what has subscribed hears, and what has started its heartbeat is heard of. *)

\* PropagationManager is subscribed until all subscriptions are gone.
Subscribed(f) == phase[f] \in {"up", "stopping"}

\* A node is followed while the query can touch it: the request is still to come, or its
\* propagator is there.
Expects(f) == query = "none" \/ \E m \in wire : m.type = "request" /\ m.to = f
Follows(f) == Expects(f) \/ propagator[f].state = "open"

\* start() awaits heartbeat.start first, the two managers after it.
StartHeartbeat(f) ==
    /\ Expects(f) /\ phase[f] = "down"
    /\ phase' = [phase EXCEPT ![f] = "starting"]
    /\ UNCHANGED <<faults, heard, stored, wire, propagator, query, scan, answers, listVars,
                   storing, given, history>>

StartManagers(f) ==
    /\ Expects(f) /\ phase[f] = "starting"
    /\ phase' = [phase EXCEPT ![f] = "up"]
    /\ UNCHANGED <<faults, heard, stored, wire, propagator, query, scan, answers, listVars,
                   storing, given, history>>

\* onInterval of a node and onMessage of Primary's Heartbeat
Beat(f) ==
    /\ query \in {"none", "publishing"} /\ phase[f] \in {"starting", "up"}
    /\ heard' = heard \cup {f}
    /\ UNCHANGED <<phase, faults, stored, wire, propagator, query, scan, answers, listVars,
                   storing, given, history>>

\* stop() clears the timer of the heartbeat at once; the subscriptions end later.
Stop(f) ==
    /\ Follows(f) /\ phase[f] = "up" /\ Fault
    /\ phase' = [phase EXCEPT ![f] = "stopping"]
    /\ UNCHANGED <<heard, stored, wire, propagator, query, scan, answers, listVars, storing,
                   given, history>>

\* The process is gone and with it the map of propagators.
Gone(f) ==
    /\ phase' = [phase EXCEPT ![f] = "down"]
    /\ propagator' = [propagator EXCEPT ![f] = IF @.state = "open" THEN NoPropagator ELSE @]
    /\ excused' = IF propagator[f].state = "open" THEN excused \cup {f} ELSE excused
    /\ UNCHANGED <<heard, stored, wire, query, scan, answers, listVars, storing, given, expected,
                   misheard>>

Stopped(f) == Follows(f) /\ phase[f] = "stopping" /\ Gone(f) /\ UNCHANGED faults

\* Also what a failed publish of a response comes to: nobody handles its rejection.
Crash(f) == Follows(f) /\ phase[f] # "down" /\ Fault /\ Gone(f)

-----------------------------------------------------------------------------
(* Broadband *)

\* AggregationManager knows the aggregator, or soon will; else what comes is dropped.
Listens == query \in {"publishing", "waiting"}

\* The managers that do anything with a message: a foreign node ignores the others'
\* (PropagationManager.ts 134).
Receivers(from) == IF from = Primary THEN Foreign ELSE IF Listens THEN {Primary} ELSE {}

\* BroadbandPublisher.publish.  Messages take the partitions in turn, and those of different
\* partitions may overtake each other.
publish(from, type, refs) ==
    wire' = wire \cup [type : {type}, refs : {refs}, from : {from}, to : Receivers(from)]

\* A subscription takes a message.  A QueryResponse with isFinal is of the type "final".
Takes(m, types) == m.type \in types /\ wire' = wire \ {m}
IsResponse(m) == m.type \in {"response", "final"}

-----------------------------------------------------------------------------
(* The primary: LogStoreNetworkPlugin, AggregationManager and its Aggregator *)

\* processQueryRequest publishes the request ...
processQueryRequest ==
    /\ query = "none"
    /\ query' = "publishing" /\ publish(Primary, "request", {})
    /\ UNCHANGED <<nodeVars, stored, propagator, scan, answers, listVars, storing, given, history>>

PublishFailed ==
    /\ query = "none"
    /\ query' = "failed"
    /\ UNCHANGED <<nodeVars, stored, wire, propagator, scan, answers, listVars, storing, given,
                   history>>

\* ... awaits that, and only then creates the aggregator, for the nodes online by then:
\* those whose last beat is not older than THRESHOLD, gone or not.
aggregate ==
    /\ query = "publishing"
    /\ query' = "waiting"
    /\ \E onlineNodes \in SUBSET heard :
          /\ awaited' = onlineNodes
          /\ expected' = [n \in Nodes |-> IF n \in onlineNodes \cup {Primary}
                                         THEN stored[n] ELSE {}]
    /\ scan' = [scan EXCEPT !.left = stored[Primary]]
    /\ UNCHANGED <<nodeVars, stored, wire, propagator, final, listVars, storing, given, misheard,
                   excused>>

\* Mutant: the first answer is enough.
isWaitingForAnyNode(nodes, finalized) == nodes # {} /\ finalized = {}

isWaitingForForeignNodes(nodes, finalized) == nodes \ finalized # {}

\* AggregationList.push ignores what is not above all that has been queried.
Fresh(refs) == {r \in refs : \A x \in given \cup UNION reading : x < r}

\* The stretch from readyFrom to readyTo
ReadyPrefix(list, isReady) == {r \in list : \A x \in list : x <= r => x \in isReady}

\* doCheck, with the list, the nodes, the streams and the store as an event has left them.
doCheck(list, isReady, nodes, finalized, scanning, running) ==
    LET waiting == isWaitingForForeignNodes(nodes, finalized)
        prefix  == IF waiting THEN {} ELSE ReadyPrefix(list, isReady)
        range   == {r \in stored'[Primary] : \E a, b \in prefix : a <= r /\ r <= b}
    IN  /\ query' = IF ~waiting /\ list = {} /\ scanning # "flowing" /\ running = {}
                    THEN "ended" ELSE query
        /\ items' = list \ prefix /\ ready' = isReady \ prefix
        /\ reading' = IF prefix = {} THEN running ELSE running \cup {range}

\* The scan goes on when the aggregator is closed.
Scanning == query \in {"waiting", "closed"} /\ scan.state = "flowing"

ScanData(r) ==
    /\ Scanning /\ r \in scan.left /\ \A x \in scan.left : r <= x
    /\ scan' = [scan EXCEPT !.left = @ \ {r}, !.yielded = @ \cup {r}]
    /\ UNCHANGED stored
    /\ IF query = "waiting"
       THEN doCheck(items \cup Fresh({r}), ready \cup Fresh({r}), awaited, final, "flowing",
                    reading)
       ELSE UNCHANGED <<query, listVars>>
    /\ UNCHANGED <<nodeVars, wire, propagator, answers, storing, given, history>>

\* The scan ends, and the primary's response is published.
ScanEnd ==
    /\ Scanning /\ scan.left = {}
    /\ scan' = [scan EXCEPT !.state = "ended"]
    /\ publish(Primary, "final", scan.yielded)
    /\ UNCHANGED stored
    /\ IF query = "waiting"
       THEN doCheck(items, ready, awaited, final, "ended", reading)
       ELSE UNCHANGED <<query, listVars>>
    /\ UNCHANGED <<nodeVars, propagator, answers, storing, given, history>>

\* The scan fails: there is no final response, and no doCheck.
ScanError ==
    /\ Scanning /\ Fault
    /\ scan' = [scan EXCEPT !.state = "failed"]
    /\ UNCHANGED <<phase, heard, stored, wire, propagator, query, answers, listVars, storing,
                   given, history>>

\* A range query has yielded its messages and ends.
QueryEnd(range) ==
    /\ query = "waiting" /\ range \in reading
    /\ given' = given \cup range
    /\ UNCHANGED stored
    /\ doCheck(items, ready, awaited, final, scan.state, reading \ {range})
    /\ UNCHANGED <<nodeVars, wire, propagator, scan, answers, storing, history>>

\* The other responses of the sender that are still on their way
Overtaken(m) == {x \in wire : IsResponse(x) /\ x.from = m.from /\ x.to = m.to} \ {m}

\* AggregationManager.onMessage, a response: while there is no aggregator it is dropped.
onForeignResponse(m) ==
    /\ Listens /\ m.to = Primary /\ Takes(m, {"response", "final"})
    /\ UNCHANGED stored
    /\ IF query = "waiting"
       THEN /\ awaited' = awaited \cup {m.from}
            /\ final' = IF m.type = "final" THEN final \cup {m.from} ELSE final
            /\ doCheck(items \cup Fresh(m.refs), ready, awaited', final', scan.state, reading)
            /\ misheard' = IF m.type = "final" /\ Overtaken(m) # {}
                           THEN misheard \cup {m.from} ELSE misheard
            /\ UNCHANGED excused
       ELSE /\ misheard' = misheard \cup {m.from}
            /\ excused' = IF m.type = "final" THEN excused \cup {m.from} ELSE excused
            /\ UNCHANGED <<answers, query, listVars>>
    /\ UNCHANGED <<nodeVars, propagator, scan, storing, given, expected>>

\* ... a propagation: the stores of its messages are started.
onPropagation(m) ==
    /\ query = "waiting" /\ m.to = Primary /\ Takes(m, {"propagate"})
    /\ UNCHANGED stored
    /\ IF m.refs = {}
       THEN /\ doCheck(items, ready, awaited, final, scan.state, reading)
            /\ UNCHANGED storing
       ELSE /\ storing' = storing \cup {[from |-> m.from, left |-> m.refs]}
            /\ UNCHANGED <<query, listVars>>
    /\ UNCHANGED <<nodeVars, propagator, scan, answers, given, history>>

\* A store has succeeded; the last one of a propagation calls doCheck.  A store whose batch
\* is given up is never settled (BatchManager.ts 152).
StoreDone(p, r) ==
    /\ query = "waiting" /\ p \in storing /\ r \in p.left
    /\ stored' = [stored EXCEPT ![Primary] = @ \cup {r}]
    /\ IF p.left = {r}
       THEN /\ storing' = storing \ {p}
            /\ doCheck(items \cup Fresh({r}), ready \cup Fresh({r}), awaited, final, scan.state,
                       reading)
       ELSE /\ storing' = (storing \ {p}) \cup {[p EXCEPT !.left = @ \ {r}]}
            /\ items' = items \cup Fresh({r}) /\ ready' = ready \cup Fresh({r})
            /\ UNCHANGED <<query, reading>>
    /\ UNCHANGED <<nodeVars, wire, propagator, scan, answers, given, history>>

\* The aggregator is gone: what it had, and what is on its way to it, concerns nobody.
Forget ==
    /\ wire' = {m \in wire : m.to # Primary}
    /\ awaited' = {} /\ final' = {}
    /\ items' = {} /\ ready' = {} /\ reading' = {} /\ storing' = {} /\ given' = {}
    /\ UNCHANGED <<phase, heard, stored, propagator, scan, history>>

\* The client goes away: 'close' removes the aggregator from the map.
ClientGone == query = "waiting" /\ query' = "closed" /\ Forget /\ UNCHANGED faults

\* The process ends: a crash, or a store that is rejected or a range query that fails, which
\* nobody handles.
PrimaryExit == query \in {"publishing", "waiting", "closed"} /\ query' = "lost" /\ Fault /\ Forget

-----------------------------------------------------------------------------
(* A foreign node: PropagationManager and its Propagator *)

\* onQueryRequest
onQueryRequest(m) ==
    /\ m.to \in Foreign /\ Takes(m, {"request"})
    /\ IF Subscribed(m.to)
       THEN /\ propagator' = [propagator EXCEPT ![m.to] =
                  [NoPropagator EXCEPT !.state = "open", !.toRespond = stored[m.to],
                                       !.toPropagate = stored[m.to]]]
            /\ UNCHANGED excused
       ELSE UNCHANGED propagator /\ excused' = excused \cup {m.to}
    /\ UNCHANGED <<nodeVars, stored, query, scan, answers, listVars, storing, given, expected,
                   misheard>>

\* onQueryResponse
onPrimaryResponse(m) ==
    /\ m.to \in Foreign /\ Takes(m, {"final"})
    /\ propagator' = IF propagator[m.to].state = "open"
                     THEN [propagator EXCEPT ![m.to].toPropagate = @ \ m.refs,
                                             ![m.to].primary = "final"]
                     ELSE propagator
    /\ excused' = IF propagator[m.to].state = "none" THEN excused \cup {m.to} ELSE excused
    /\ UNCHANGED <<nodeVars, stored, query, scan, answers, listVars, storing, given, expected,
                   misheard>>

ForeignScans(f) == propagator[f].state = "open" /\ propagator[f].scan = "flowing"

\* The Chunker of the response hands over a group that is not the last.
RespondPart(f, refs) ==
    /\ ForeignScans(f) /\ refs # {} /\ refs \subseteq propagator[f].toRespond
    /\ propagator' = [propagator EXCEPT ![f].toRespond = @ \ refs]
    /\ publish(f, "response", refs)
    /\ UNCHANGED <<nodeVars, stored, query, scan, answers, listVars, storing, given, history>>

\* Mutant: a node with nothing left to list does not send a final response.
RespondSome(f) ==
    /\ ForeignScans(f)
    /\ propagator' = [propagator EXCEPT ![f].toRespond = {}, ![f].scan = "ended"]
    /\ IF propagator[f].toRespond = {} THEN UNCHANGED wire
       ELSE publish(f, "final", propagator[f].toRespond)
    /\ UNCHANGED <<nodeVars, stored, query, scan, answers, listVars, storing, given, history>>

\* The scan ends, with the final response.
RespondFinal(f) ==
    /\ ForeignScans(f)
    /\ propagator' = [propagator EXCEPT ![f].toRespond = {}, ![f].scan = "ended"]
    /\ publish(f, "final", propagator[f].toRespond)
    /\ UNCHANGED <<nodeVars, stored, query, scan, answers, listVars, storing, given, history>>

\* It fails: there is no final response.
ForeignScanError(f) ==
    /\ ForeignScans(f) /\ Fault
    /\ propagator' = [propagator EXCEPT ![f].scan = "failed"]
    /\ excused' = excused \cup {f}
    /\ UNCHANGED <<phase, heard, stored, wire, query, scan, answers, listVars, storing, given,
                   expected, misheard>>

\* Both sides are final: what is left to send is sent.
Finalized(f) ==
    propagator[f].state = "open" /\ propagator[f].scan = "ended"
    /\ propagator[f].primary = "final"

\* Mutant: a propagator with nothing to send is not ended.
PropagateSome(f) ==
    /\ Finalized(f) /\ propagator[f].toPropagate # {}
    /\ propagator' = [propagator EXCEPT ![f].state = "closed"]
    /\ publish(f, "propagate", propagator[f].toPropagate)
    /\ UNCHANGED <<nodeVars, stored, query, scan, answers, listVars, storing, given, history>>

\* All that the primary lacks, in a group that may be empty, and the propagator is removed
\* from the map ...
PropagateEnd(f) ==
    /\ Finalized(f)
    /\ propagator' = [propagator EXCEPT ![f].state = "closed"]
    /\ publish(f, "propagate", propagator[f].toPropagate)
    /\ UNCHANGED <<nodeVars, stored, query, scan, answers, listVars, storing, given, history>>

\* ... or only some of it: the stream is ended under a query (run propagator_early_end) ...
PropagateEarly(f, refs) ==
    /\ Finalized(f) /\ Fault
    /\ refs \subseteq propagator[f].toPropagate /\ refs # propagator[f].toPropagate
    /\ propagator' = [propagator EXCEPT ![f].state = "closed"]
    /\ publish(f, "propagate", refs)
    /\ excused' = excused \cup {f}
    /\ UNCHANGED <<phase, heard, stored, query, scan, answers, listVars, storing, given, expected,
                   misheard>>

\* ... or a query fails: it stays in queryStreams, and the propagator in the map.
PropagateError(f) ==
    /\ Finalized(f) /\ Fault /\ propagator[f].toPropagate # {}
    /\ propagator' = [propagator EXCEPT ![f].state = "failed"]
    /\ excused' = excused \cup {f}
    /\ UNCHANGED <<phase, heard, stored, wire, query, scan, answers, listVars, storing, given,
                   expected, misheard>>

-----------------------------------------------------------------------------
\* What the event loops and the network bring about.
Steps ==
    \/ aggregate \/ ScanEnd \/ \E r \in scan.left : ScanData(r)
    \/ \E range \in reading : QueryEnd(range)
    \/ \E m \in wire : \/ onForeignResponse(m) \/ onPropagation(m)
                       \/ onQueryRequest(m) \/ onPrimaryResponse(m)
    \/ \E f \in Foreign : RespondFinal(f) \/ PropagateEnd(f)

Next ==
    \/ Steps
    \/ processQueryRequest \/ PublishFailed \/ ClientGone \/ PrimaryExit \/ ScanError
    \/ \E p \in storing : \E r \in p.left : StoreDone(p, r)
    \/ \E f \in Foreign : \/ StartHeartbeat(f) \/ StartManagers(f) \/ Beat(f)
                          \/ Stop(f) \/ Stopped(f) \/ Crash(f)
                          \/ ForeignScanError(f) \/ PropagateError(f)
                          \/ \E refs \in SUBSET propagator[f].toRespond : RespondPart(f, refs)
                          \/ \E refs \in SUBSET propagator[f].toPropagate : PropagateEarly(f, refs)

\* Of the stores nothing is assumed, nor that anything is handed over before the end.
Spec == Init /\ [][Next]_vars /\ WF_vars(Steps)

-----------------------------------------------------------------------------
(* Properties *)

\* When the answer of a query ends, the client has been given every message that the primary
\* or a node online when the request had been published held by then, wherever the message
\* was, although nodes start, stop and crash, and queries of the foreign nodes fail
\* (Aggregator.ts 142-153, 218-226, PropagationManager.ts 87-141).  Excepted are a failed
\* scan of the primary, and the messages of nodes of whose responses one came while the
\* request was still being published, or was overtaken by their final one.
AnswerIsComplete ==
    query = "ended" /\ scan.state # "failed" =>
        \A n \in Nodes \ misheard : expected[n] \subseteq given

\* Every query that is waiting ends, unless the primary's own scan has failed, a store is not
\* settled, or a node it waits for cannot do its part any more: it was not subscribed yet, or
\* no more, when the request came, or has ended since; a query of its store has failed; its
\* propagation has ended early; its final response came while the request was still being
\* published (LogStoreNetworkPlugin.ts 185-187), or the primary's reached it before the
\* request did (PropagationManager.ts 138).
QueriesEnd ==
    <>[](query = "waiting" =>
            \/ scan.state = "failed" \/ storing # {}
            \/ excused \cap awaited # {})

\* Every propagator is closed and forgotten by its manager, unless the primary is lost or its
\* scan has failed, a query of the node itself has failed, or the primary's final response
\* came before the request and was dropped: then it stays for ever (PropagationManager.ts
\* 116-121, 138-140).
PropagatorsClose ==
    <>[](\A f \in Foreign :
            \/ propagator[f].state \in {"none", "closed"}
            \/ f \in excused \/ query = "lost" \/ scan.state = "failed")
=============================================================================
