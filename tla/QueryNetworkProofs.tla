-------------------------- MODULE QueryNetworkProofs --------------------------
(***************************************************************************)
(* The answer of a query is complete when it ends (AnswerIsComplete of      *)
(* module QueryNetwork), for any number of nodes, messages and faults.      *)
(***************************************************************************)
EXTENDS QueryNetwork, TLAPS

Requests == [type : {"request"}, refs : {{}}, from : {Primary}, to : Foreign]
ForeignResponses == [type : {"response", "final"}, refs : SUBSET Refs, from : Foreign,
                     to : {Primary}]
PrimaryResponses == [type : {"final"}, refs : SUBSET Refs, from : {Primary}, to : Foreign]
Propagations == [type : {"propagate"}, refs : SUBSET Refs, from : Foreign, to : {Primary}]
Messages == Requests \cup ForeignResponses \cup PrimaryResponses \cup Propagations

PropagatorType == [state : {"none", "open", "closed", "failed"},
                   scan : {"flowing", "ended", "failed"},
                   toRespond : SUBSET Refs, toPropagate : SUBSET Refs, primary : {"awaited", "final"}]

\* The messages and the lists of references are well formed.
WellFormed ==
    /\ stored \in [Nodes -> SUBSET Refs]
    /\ wire \subseteq Messages
    /\ propagator \in [Foreign -> PropagatorType]
    /\ scan \in [left : SUBSET Refs, yielded : SUBSET Refs, state : {"flowing", "ended"}]
    /\ final \subseteq Foreign
    /\ items \subseteq Refs /\ ready \subseteq Refs /\ reading \subseteq SUBSET Refs
    /\ storing \subseteq [from : Foreign, left : SUBSET Refs]
    /\ given \subseteq Refs
    /\ expected \in [Nodes -> SUBSET Refs]

\* What follows is about a query that can still be answered in full.
Alive == query \in {"none", "publishing"} \/ (query = "waiting" /\ scan.state # "failed")

Responses(f) == {m \in wire : IsResponse(m) /\ m.from = f}
FinalSent(f) == f \in final \/ \E m \in Responses(f) : m.type = "final"
Queried == given \cup UNION reading
Listed == Queried \cup items
OnTheWay(f) == UNION {m.refs : m \in Responses(f)}

\* What a node that was online has to list; before the aggregator is there every node may be.
Claimed(f) == IF query = "publishing" THEN stored[f] ELSE expected[f]

\* Before the aggregator is created there is nothing in it.
BeforeTheAggregator ==
    query \in {"none", "publishing"} =>
        /\ items = {} /\ ready = {} /\ reading = {} /\ given = {}
        /\ final = {} /\ scan.left = {} /\ scan.state = "flowing"

\* A node does nothing about the query before the request reaches it, which is once.
RequestFirst ==
    /\ query = "none" => \A m \in wire : m.type # "request"
    /\ \A f \in Foreign :
          (query = "none" \/ \E m \in wire : m.type = "request" /\ m.to = f) =>
              propagator[f].state = "none" /\ f \notin final /\ Responses(f) = {}

\* The final response is the last that a node sends, and the last that is taken, unless it
\* overtakes another.
FinalIsLast ==
    \A f \in Foreign :
        /\ ForeignScans(f) => ~FinalSent(f)
        /\ f \in final \ misheard => Responses(f) = {}

\* Where the messages of a foreign node are: in its propagator, in its responses, in the list
\* or in a query of ready messages; in one of the last three when it has sent its final
\* response.
ListedOrToCome ==
    \A f \in Foreign \ misheard :
        /\ ForeignScans(f)
           => Claimed(f) \subseteq Listed \cup OnTheWay(f) \cup propagator[f].toRespond
        /\ FinalSent(f) => Claimed(f) \subseteq Listed \cup OnTheWay(f)

\* Nothing is propagated before the primary's scan has ended.
PropagationAfterScan ==
    scan.state = "flowing" =>
        /\ storing = {}
        /\ \A m \in wire : m \notin PrimaryResponses \cup Propagations
        /\ \A f \in Foreign : propagator[f].primary = "awaited"

\* The aggregator waits for every node whose messages are expected.
ExpectedAreAwaited ==
    /\ \A n \in Nodes : expected[n] \subseteq stored[n]
    /\ query = "waiting" => \A f \in Foreign : expected[f] # {} => f \in awaited

\* The scan is ahead of all that is ready or queried, and both are in the store.
ScanIsAhead ==
    /\ ready \cup scan.left \subseteq stored[Primary]
    /\ \A y \in scan.left : \A x \in ready \cup Queried : x < y
    /\ scan.state = "ended" => scan.left = {}

\* Where the primary's own messages are.
PrimaryIsListed ==
    query = "waiting" => expected[Primary] \subseteq Listed \cup scan.left

\* No query of ready messages has passed over an expected message.
NothingPassedOver ==
    query = "waiting" =>
        \A n \in Nodes \ misheard : \A r \in expected[n] : \A x \in Queried :
            r <= x => r \in Queried

LiveInv ==
    /\ WellFormed
    /\ BeforeTheAggregator
    /\ RequestFirst
    /\ FinalIsLast
    /\ ListedOrToCome
    /\ PropagationAfterScan
    /\ ExpectedAreAwaited
    /\ ScanIsAhead
    /\ PrimaryIsListed
    /\ NothingPassedOver

IInv == (Alive => LiveInv) /\ AnswerIsComplete

-----------------------------------------------------------------------------
(* The operators *)

\* References are numbers.
LEMMA RefsAreInt == Refs \subseteq Int
  BY NetworkAssumption DEF Refs

\* What a doCheck does to the list: it keeps every reference or queries for it, all that is
\* queried for is up to one that is ready, no reference below is passed over, and the answer
\* is ended only when nothing is left and nobody is waited for.
Checked(list, isReady, nodes, finalized, scanning, running) ==
    /\ query' \in {query, "ended"}
    /\ query' = "ended" =>
          query = "ended" \/ /\ nodes \subseteq finalized /\ list = {}
                             /\ scanning # "flowing" /\ running = {} /\ reading' = {}
    /\ items' \subseteq list /\ ready' \subseteq isReady
    /\ running \subseteq reading' /\ reading' \subseteq SUBSET Refs
    /\ list \subseteq items' \cup UNION reading'
    /\ \A x \in (UNION reading') \ (UNION running) :
          /\ nodes \subseteq finalized
          /\ \E b \in isReady : x <= b
          /\ \A r \in list : r <= x => r \in UNION reading'

\* The stretch that is ready is downward closed, and all of it is in the store.
LEMMA DoCheck ==
  ASSUME NEW list \in SUBSET Refs, NEW isReady \in SUBSET Refs, NEW nodes, NEW finalized,
         NEW scanning, NEW running \in SUBSET (SUBSET Refs),
         stored' \in [Nodes -> SUBSET Refs], isReady \subseteq stored'[Primary],
         doCheck(list, isReady, nodes, finalized, scanning, running)
  PROVE  Checked(list, isReady, nodes, finalized, scanning, running)
<1> DEFINE waiting == isWaitingForForeignNodes(nodes, finalized)
           prefix  == IF waiting THEN {} ELSE ReadyPrefix(list, isReady)
           range   == {r \in stored'[Primary] : \E a, b \in prefix : a <= r /\ r <= b}
<1>1. /\ query' = IF ~waiting /\ list = {} /\ scanning # "flowing" /\ running = {}
                  THEN "ended" ELSE query
      /\ items' = list \ prefix /\ ready' = isReady \ prefix
      /\ reading' = IF prefix = {} THEN running ELSE running \cup {range}
  BY DEF doCheck
<1>2. waiting <=> ~(nodes \subseteq finalized)
  BY DEF isWaitingForForeignNodes
<1>3. /\ prefix \subseteq list /\ prefix \subseteq isReady
      /\ \A b \in prefix : \A r \in list : r <= b => r \in prefix
      /\ prefix # {} => nodes \subseteq finalized
  <2> HIDE DEF waiting
  <2>1. CASE waiting
    BY <2>1
  <2>2. CASE ~waiting
    <3>1. prefix = {r \in list : \A x \in list : x <= r => x \in isReady}
      BY <2>2 DEF ReadyPrefix
    <3> HIDE DEF prefix
    <3>2. prefix \subseteq list /\ nodes \subseteq finalized
      BY <1>2, <2>2, <3>1
    <3>3. prefix \subseteq isReady
      <4>1. \A r \in list : r <= r
        BY RefsAreInt
      <4> QED
        BY <3>1, <4>1
    <3>4. ASSUME NEW b \in prefix, NEW r \in list, r <= b
          PROVE  r \in prefix
      <4>1. ASSUME NEW x \in list, x <= r PROVE x \in isReady
        <5>1. x \in Int /\ r \in Int /\ b \in Int
          BY <3>2, RefsAreInt
        <5>2. x <= b
          BY <3>4, <4>1, <5>1
        <5> QED
          BY <3>1, <5>2
      <4> QED
        BY <3>1, <4>1
    <3> QED
      BY <3>2, <3>3, <3>4
  <2> QED
    BY <2>1, <2>2
<1>4. range \in SUBSET Refs
  <2>1. Primary \in Nodes
    BY DEF Nodes
  <2>2. stored'[Primary] \in SUBSET Refs
    BY <2>1
  <2> QED
    BY <2>2
<1>5. prefix \subseteq range
  <2> HIDE DEF prefix
  <2>1. \A r \in prefix : r \in stored'[Primary] /\ r <= r
    BY <1>3, RefsAreInt
  <2> QED
    BY <2>1
<1>6. \A x \in range : /\ \E b \in isReady : x <= b
                       /\ \A r \in list : r <= x => r \in range
  <2> SUFFICES ASSUME NEW x \in range
               PROVE  /\ \E b \in isReady : x <= b
                      /\ \A r \in list : r <= x => r \in range
    OBVIOUS
  <2>1. PICK b \in prefix : x <= b
    OBVIOUS
  <2>2. ASSUME NEW r \in list, r <= x PROVE r \in prefix
    <3>1. r \in Int /\ x \in Int /\ b \in Int
      <4> HIDE DEF prefix, range
      <4> QED
        BY <1>3, <1>4, RefsAreInt
    <3>2. r <= b
      BY <2>1, <2>2, <3>1
    <3> QED
      BY <1>3, <3>2
  <2> QED
    BY <1>3, <1>5, <2>1, <2>2
<1>7. prefix = {} => reading' = running
  BY <1>1
<1>8. prefix # {} => reading' = running \cup {range}
  BY <1>1
<1> HIDE DEF waiting, prefix, range
<1>9. /\ prefix = {} => UNION reading' = UNION running
      /\ prefix # {} => UNION reading' = (UNION running) \cup range
  <2>1. UNION (running \cup {range}) = (UNION running) \cup range
    OBVIOUS
  <2> QED
    BY <1>7, <1>8, <2>1
<1>10. /\ query' \in {query, "ended"}
       /\ query' = "ended" =>
             query = "ended" \/ /\ nodes \subseteq finalized /\ list = {}
                                /\ scanning # "flowing" /\ running = {} /\ reading' = {}
  BY <1>1, <1>2, <1>3
<1>11. /\ items' \subseteq list /\ ready' \subseteq isReady
       /\ running \subseteq reading' /\ reading' \subseteq SUBSET Refs
  BY <1>1, <1>4, <1>7, <1>8
<1>12. list \subseteq items' \cup UNION reading'
  BY <1>1, <1>5, <1>9
<1>13. ASSUME NEW x \in (UNION reading') \ (UNION running)
       PROVE  /\ nodes \subseteq finalized
              /\ \E b \in isReady : x <= b
              /\ \A r \in list : r <= x => r \in UNION reading'
  <2>1. prefix # {} /\ x \in range
    BY <1>9, <1>13
  <2> QED
    BY <1>3, <1>6, <1>9, <2>1
<1> QED
  BY <1>10, <1>11, <1>12, <1>13 DEF Checked

Packet(type, refs, from, to) == [type |-> type, refs |-> refs, from |-> from, to |-> to]

\* What publish puts on the wire: a copy for each receiver.
LEMMA Published ==
  ASSUME NEW from, NEW type, NEW refs, publish(from, type, refs)
  PROVE  \A x : x \in wire' <=> x \in wire \/ \E n \in Receivers(from) :
                                                 x = Packet(type, refs, from, n)
  BY DEF publish, Packet

\* Messages are told apart by their type and their sender.
LEMMA MessageKinds ==
  ASSUME NEW m \in Messages
  PROVE  /\ m.type = "request" => m \in Requests
         /\ IsResponse(m) /\ m.to = Primary => m \in ForeignResponses
         /\ m.type = "final" /\ m.to \in Foreign => m \in PrimaryResponses
         /\ m.type = "propagate" => m \in Propagations
         /\ m \in PrimaryResponses => m.type = "final" /\ m.from = Primary
         /\ m \in Propagations => m.type = "propagate"
  BY NetworkAssumption
  DEF Messages, Requests, ForeignResponses, PrimaryResponses, Propagations, IsResponse

\* There is one request for each node.
LEMMA OneRequest ==
  ASSUME NEW m \in Requests, NEW n \in Requests, m.to = n.to
  PROVE  m = n
<1>1. m = Packet("request", {}, Primary, m.to)
  BY DEF Requests, Packet
<1>2. n = Packet("request", {}, Primary, n.to)
  BY DEF Requests, Packet
<1> QED
  BY <1>1, <1>2

\* The nodes are Primary and the foreign ones, and Primary is not one of those.
LEMMA NodesSplit == Primary \in Nodes /\ Primary \notin Foreign /\ Foreign \subseteq Nodes
  BY NetworkAssumption DEF Nodes

-----------------------------------------------------------------------------
(* Steps that do not touch the list *)

listState == <<query, stored, scan, answers, listVars, given, expected, misheard>>

\* The parts of the invariant that are about the list alone
AboutTheList ==
    /\ BeforeTheAggregator
    /\ ExpectedAreAwaited
    /\ ScanIsAhead
    /\ PrimaryIsListed
    /\ NothingPassedOver

\* They are kept when nothing of it changes.
LEMMA ListUnchanged ==
  ASSUME LiveInv, UNCHANGED listState
  PROVE  AboutTheList'
  BY DEF LiveInv, listState, answers, listVars, AboutTheList, BeforeTheAggregator,
         ExpectedAreAwaited, ScanIsAhead, PrimaryIsListed, NothingPassedOver, Queried, Listed

\* The parts that relate the list to the propagators and the wire
AboutTheWire == RequestFirst /\ FinalIsLast /\ ListedOrToCome

\* No propagator starts or goes on scanning that did not, no request or response comes up, and
\* the list only grows.
Calm ==
    /\ UNCHANGED <<query, final>>
    /\ stored' = [stored EXCEPT ![Primary] = stored'[Primary]]
    /\ expected' = expected
    /\ misheard \subseteq misheard'
    /\ Listed \subseteq Listed'
    /\ \A f \in Foreign : Responses(f)' = Responses(f)
    /\ \A m \in wire' : m.type = "request" => m \in wire
    /\ \A f \in Foreign :
          /\ propagator[f].state = "none" => propagator'[f].state = "none"
          /\ ForeignScans(f)' =>
                ForeignScans(f) /\ propagator'[f].toRespond = propagator[f].toRespond

\* Such a step keeps them.
LEMMA CalmStep ==
  ASSUME LiveInv, Calm
  PROVE  AboutTheWire'
<1> USE DEF LiveInv
<1>1. \A f \in Foreign : /\ Responses(f)' = Responses(f)
                         /\ OnTheWay(f)' = OnTheWay(f)
                         /\ FinalSent(f)' <=> FinalSent(f)
                         /\ Claimed(f)' = Claimed(f)
  <2> SUFFICES ASSUME NEW f \in Foreign
               PROVE  /\ Responses(f)' = Responses(f)
                      /\ OnTheWay(f)' = OnTheWay(f)
                      /\ FinalSent(f)' <=> FinalSent(f)
                      /\ Claimed(f)' = Claimed(f)
    OBVIOUS
  <2>1. Responses(f)' = Responses(f)
    BY DEF Calm
  <2>2. stored'[f] = stored[f]
    BY NodesSplit DEF Calm, WellFormed
  <2>3. final' = final /\ query' = query /\ expected' = expected
    BY DEF Calm
  <2>4. OnTheWay(f)' = OnTheWay(f)
    BY <2>1 DEF OnTheWay
  <2>5. FinalSent(f)' <=> FinalSent(f)
    BY <2>1, <2>3 DEF FinalSent
  <2> QED
    BY <2>1, <2>2, <2>3, <2>4, <2>5 DEF Claimed
<1>2. RequestFirst'
  BY <1>1 DEF Calm, RequestFirst
<1>3. FinalIsLast'
  BY <1>1 DEF Calm, FinalIsLast
<1>4. ListedOrToCome'
  BY <1>1 DEF Calm, ListedOrToCome
<1> QED
  BY <1>2, <1>3, <1>4 DEF AboutTheWire

\* The invariant from its parts
LEMMA Parts ==
  ASSUME WellFormed', AboutTheList', AboutTheWire', PropagationAfterScan'
  PROVE  LiveInv'
  BY DEF AboutTheList, AboutTheWire, LiveInv

\* Nodes that start, beat and begin to stop
LEMMA NodeStep ==
  ASSUME LiveInv, UNCHANGED <<stored, wire, propagator, query, scan, answers, listVars, storing,
                              given, expected, misheard>>
  PROVE  LiveInv'
<1> USE DEF LiveInv
<1>1. WellFormed'
  BY DEF WellFormed, answers, listVars
<1>2. AboutTheList'
  BY ListUnchanged DEF listState
<1>3. AboutTheWire'
  BY DEF answers, listVars, AboutTheWire, RequestFirst, FinalIsLast, ListedOrToCome, FinalSent,
         Responses, OnTheWay, Claimed, Listed, Queried, ForeignScans
<1>4. PropagationAfterScan'
  BY DEF PropagationAfterScan
<1> QED
  BY <1>1, <1>2, <1>3, <1>4, Parts

\* A node that is gone loses its propagator.
LEMMA GoneStep ==
  ASSUME LiveInv, NEW f \in Foreign, Gone(f)
  PROVE  LiveInv'
<1> USE DEF LiveInv
<1>1. UNCHANGED <<stored, wire, query, scan, answers, listVars, storing, given, expected,
                  misheard>>
  BY DEF Gone
<1>2. NoPropagator \in PropagatorType /\ NoPropagator.state = "none"
      /\ NoPropagator.primary = "awaited"
  BY DEF NoPropagator, PropagatorType
<1>3. propagator \in [Foreign -> PropagatorType]
  BY DEF WellFormed
<1>4. \A h \in Foreign : propagator'[h] \in {propagator[h], NoPropagator}
  BY <1>3 DEF Gone
<1>5. propagator' \in [Foreign -> PropagatorType]
  BY <1>2, <1>3 DEF Gone
<1>6. WellFormed'
  BY <1>1, <1>5 DEF WellFormed, answers, listVars
<1>7. Calm
  <2>1. Listed \subseteq Listed'
    BY <1>1 DEF listVars, Listed, Queried
  <2>2. stored' = [stored EXCEPT ![Primary] = stored'[Primary]]
    BY <1>1 DEF WellFormed
  <2>3. \A h \in Foreign : Responses(h)' = Responses(h)
    BY <1>1 DEF Responses
  <2>4. \A h \in Foreign :
          /\ propagator[h].state = "none" => propagator'[h].state = "none"
          /\ ForeignScans(h)' =>
                ForeignScans(h) /\ propagator'[h].toRespond = propagator[h].toRespond
    BY <1>2, <1>4 DEF ForeignScans
  <2> QED
    BY <1>1, <2>1, <2>2, <2>3, <2>4 DEF Calm, answers
<1>8. PropagationAfterScan'
  BY <1>1, <1>2, <1>4 DEF PropagationAfterScan
<1>9. AboutTheList'
  BY <1>1, ListUnchanged DEF listState
<1> QED
  BY <1>6, <1>7, <1>8, <1>9, CalmStep, Parts

\* The propagators of f end their scans and close: what their steps have in common.
LEMMA ClosingStep ==
  ASSUME LiveInv, NEW f \in Foreign, NEW p \in PropagatorType,
         propagator' = [propagator EXCEPT ![f] = p],
         p.primary = propagator[f].primary,
         ~(p.state = "open" /\ p.scan = "flowing"),
         UNCHANGED <<stored, query, scan, answers, listVars, storing, given, expected, misheard>>,
         \A m \in wire' : m \in wire \/ (m \in Propagations /\ propagator[f].primary = "final"),
         wire \subseteq wire', propagator[f].state = "open"
  PROVE  LiveInv'
<1> USE DEF LiveInv
<1>1. propagator \in [Foreign -> PropagatorType]
  BY DEF WellFormed
<1>2. propagator' \in [Foreign -> PropagatorType]
  BY <1>1
<1>3. wire' \subseteq Messages
  BY DEF WellFormed, Messages
<1>4. WellFormed'
  BY <1>2, <1>3 DEF WellFormed, answers, listVars
<1>5. \A m \in wire' : m.type # "propagate" => m \in wire
  BY DEF Propagations
<1>6. Calm
  <2>1. Listed \subseteq Listed'
    BY DEF listVars, Listed, Queried
  <2>2. stored' = [stored EXCEPT ![Primary] = stored'[Primary]]
    BY DEF WellFormed
  <2>3. \A h \in Foreign : Responses(h)' = Responses(h)
    BY <1>5 DEF Responses, IsResponse
  <2>4. \A h \in Foreign :
          /\ propagator[h].state = "none" => propagator'[h].state = "none"
          /\ ForeignScans(h)' =>
                ForeignScans(h) /\ propagator'[h].toRespond = propagator[h].toRespond
    BY <1>1 DEF ForeignScans
  <2>5. \A m \in wire' : m.type = "request" => m \in wire
    BY <1>5
  <2> QED
    BY <2>1, <2>2, <2>3, <2>4, <2>5 DEF Calm, answers
<1>7. PropagationAfterScan'
  BY <1>1 DEF PropagationAfterScan
<1>8. AboutTheList'
  BY ListUnchanged DEF listState
<1> QED
  BY <1>4, <1>6, <1>7, <1>8, CalmStep, Parts

\* A foreign scan or a query of missing messages fails, or the propagation is sent.
LEMMA PropagatorEnds ==
  ASSUME LiveInv, NEW f \in Foreign,
         \/ ForeignScanError(f) \/ PropagateEnd(f) \/ PropagateError(f)
         \/ \E refs \in SUBSET propagator[f].toPropagate : PropagateEarly(f, refs)
  PROVE  LiveInv'
<1>1. propagator \in [Foreign -> PropagatorType] /\ propagator[f] \in PropagatorType
  BY DEF LiveInv, WellFormed
<1>2. CASE ForeignScanError(f)
  <2> DEFINE p == [propagator[f] EXCEPT !.scan = "failed"]
  <2>1. p \in PropagatorType /\ p.primary = propagator[f].primary
        /\ p.scan = "failed" /\ propagator[f].state = "open"
    BY <1>1, <1>2 DEF PropagatorType, ForeignScanError, ForeignScans
  <2>2. propagator' = [propagator EXCEPT ![f] = p]
    BY <1>2 DEF ForeignScanError
  <2>3. UNCHANGED <<stored, wire, query, scan, answers, listVars, storing, given, expected,
                    misheard>>
    BY <1>2 DEF ForeignScanError
  <2> HIDE DEF p
  <2>4. UNCHANGED <<stored, query, scan, answers, listVars, storing, given, expected, misheard>>
    BY <2>3
  <2>5. wire' = wire
    BY <2>3
  <2>7. /\ wire \subseteq wire'
        /\ \A m \in wire' : m \in wire \/ (m \in Propagations /\ propagator[f].primary = "final")
    BY <2>5
  <2>6. ~(p.state = "open" /\ p.scan = "flowing")
    BY <2>1
  <2> QED
    BY <2>1, <2>2, <2>4, <2>6, <2>7, ClosingStep
<1>3. CASE PropagateError(f)
  <2> DEFINE p == [propagator[f] EXCEPT !.state = "failed"]
  <2>1. p \in PropagatorType /\ p.primary = propagator[f].primary /\ p.state = "failed"
        /\ propagator[f].state = "open"
    BY <1>1, <1>3 DEF PropagatorType, PropagateError, Finalized
  <2>2. propagator' = [propagator EXCEPT ![f] = p]
    BY <1>3 DEF PropagateError
  <2>3. UNCHANGED <<stored, wire, query, scan, answers, listVars, storing, given, expected,
                    misheard>>
    BY <1>3 DEF PropagateError
  <2> HIDE DEF p
  <2>4. UNCHANGED <<stored, query, scan, answers, listVars, storing, given, expected, misheard>>
    BY <2>3
  <2>5. wire' = wire
    BY <2>3
  <2>7. /\ wire \subseteq wire'
        /\ \A m \in wire' : m \in wire \/ (m \in Propagations /\ propagator[f].primary = "final")
    BY <2>5
  <2>6. ~(p.state = "open" /\ p.scan = "flowing")
    BY <2>1
  <2> QED
    BY <2>1, <2>2, <2>4, <2>6, <2>7, ClosingStep
<1>4. ASSUME NEW refs \in SUBSET Refs, propagator[f].primary = "final", propagator[f].state = "open",
             propagator' = [propagator EXCEPT ![f].state = "closed"],
             publish(f, "propagate", refs),
             UNCHANGED <<stored, query, scan, answers, listVars, storing, given, expected,
                         misheard>>
      PROVE  LiveInv'
  <2> DEFINE p == [propagator[f] EXCEPT !.state = "closed"]
  <2>1. p \in PropagatorType /\ p.primary = propagator[f].primary /\ p.state = "closed"
    BY <1>1 DEF PropagatorType
  <2>2. propagator' = [propagator EXCEPT ![f] = p]
    BY <1>4
  <2>3. \A x : x \in wire' <=> x \in wire \/ \E n \in Receivers(f) :
                                                x = Packet("propagate", refs, f, n)
    BY <1>4, Published
  <2>4. \A n \in Receivers(f) : n = Primary
    BY NodesSplit DEF Receivers
  <2>5. Packet("propagate", refs, f, Primary) \in Propagations
    BY DEF Packet, Propagations
  <2>6. \A m \in wire' : m \in wire \/ (m \in Propagations /\ propagator[f].primary = "final")
    BY <1>4, <2>3, <2>4, <2>5
  <2>7. wire \subseteq wire'
    BY <2>3
  <2> HIDE DEF p
  <2> QED
    BY <1>4, <2>1, <2>2, <2>6, <2>7, ClosingStep
<1>5. propagator[f].toPropagate \in SUBSET Refs
  BY <1>1 DEF PropagatorType
<1>6. CASE PropagateEnd(f)
  <2>1. /\ propagator[f].state = "open" /\ propagator[f].primary = "final"
        /\ propagator' = [propagator EXCEPT ![f].state = "closed"]
        /\ publish(f, "propagate", propagator[f].toPropagate)
        /\ UNCHANGED <<stored, query, scan, answers, listVars, storing, given, expected,
                       misheard>>
    BY <1>5, <1>6 DEF PropagateEnd, Finalized, history
  <2> QED
    BY <1>4, <1>5, <2>1
<1>7. CASE \E refs \in SUBSET propagator[f].toPropagate : PropagateEarly(f, refs)
  <2>1. PICK refs \in SUBSET propagator[f].toPropagate : PropagateEarly(f, refs)
    BY <1>7
  <2>2. /\ propagator[f].state = "open" /\ propagator[f].primary = "final"
        /\ propagator' = [propagator EXCEPT ![f].state = "closed"]
        /\ publish(f, "propagate", refs)
        /\ UNCHANGED <<stored, query, scan, answers, listVars, storing, given, expected,
                       misheard>>
    BY <1>5, <2>1 DEF PropagateEarly, Finalized
  <2>3. refs \in SUBSET Refs
    BY <1>5, <2>1
  <2> QED
    BY <1>4, <2>2, <2>3
<1> QED
  BY <1>2, <1>3, <1>6, <1>7

\* A response of the primary comes only after its scan has ended, and it starts no scan.
LEMMA PrimaryResponseStep ==
  ASSUME LiveInv, NEW m \in wire, onPrimaryResponse(m)
  PROVE  LiveInv'
<1> USE DEF LiveInv
<1>1. propagator \in [Foreign -> PropagatorType] /\ wire \subseteq Messages
  BY DEF WellFormed
<1>2. /\ m.to \in Foreign /\ m.type = "final" /\ wire' = wire \ {m}
      /\ propagator' = IF propagator[m.to].state = "open"
                       THEN [propagator EXCEPT ![m.to].toPropagate = @ \ m.refs,
                                               ![m.to].primary = "final"]
                       ELSE propagator
      /\ UNCHANGED <<stored, query, scan, answers, listVars, storing, given, expected, misheard>>
  BY DEF onPrimaryResponse, Takes
<1>3. m \in PrimaryResponses /\ m.from = Primary
  BY <1>1, <1>2, MessageKinds
<1> DEFINE p == [propagator[m.to] EXCEPT !.toPropagate = @ \ m.refs, !.primary = "final"]
<1>4. p \in PropagatorType /\ p.state = propagator[m.to].state /\ p.scan = propagator[m.to].scan
      /\ p.toRespond = propagator[m.to].toRespond
  <2>1. propagator[m.to] \in PropagatorType
    BY <1>1, <1>2
  <2> QED
    BY <2>1 DEF PropagatorType
<1>5. propagator' \in {propagator, [propagator EXCEPT ![m.to] = p]}
  BY <1>1, <1>2
<1> HIDE DEF p
<1>6. propagator' \in [Foreign -> PropagatorType]
  BY <1>1, <1>2, <1>4, <1>5
<1>7. WellFormed'
  BY <1>1, <1>2, <1>6 DEF WellFormed, answers, listVars
<1>8. Calm
  <2>1. Listed \subseteq Listed'
    BY <1>2 DEF listVars, Listed, Queried
  <2>2. stored' = [stored EXCEPT ![Primary] = stored'[Primary]]
    BY <1>2 DEF WellFormed
  <2>3. \A h \in Foreign : Responses(h)' = Responses(h)
    BY <1>2, <1>3, NodesSplit DEF Responses, IsResponse
  <2>4. \A h \in Foreign :
          /\ propagator[h].state = "none" => propagator'[h].state = "none"
          /\ ForeignScans(h)' =>
                ForeignScans(h) /\ propagator'[h].toRespond = propagator[h].toRespond
    BY <1>1, <1>4, <1>5 DEF ForeignScans
  <2> QED
    BY <1>2, <2>1, <2>2, <2>3, <2>4 DEF Calm, answers
<1>9. PropagationAfterScan'
  BY <1>2, <1>3 DEF PropagationAfterScan
<1>10. AboutTheList'
  BY <1>2, ListUnchanged DEF listState
<1> QED
  BY <1>7, <1>8, <1>9, <1>10, CalmStep, Parts

\* The request creates a propagator that has all its node's messages to list.
LEMMA RequestStep ==
  ASSUME LiveInv, NEW m \in wire, onQueryRequest(m)
  PROVE  LiveInv'
<1>1. /\ propagator \in [Foreign -> PropagatorType] /\ wire \subseteq Messages
      /\ stored \in [Nodes -> SUBSET Refs] /\ WellFormed
  BY DEF LiveInv, WellFormed
<1>2. /\ m.to \in Foreign /\ m.type = "request" /\ wire' = wire \ {m}
      /\ UNCHANGED <<stored, query, scan, answers, listVars, storing, given, expected, misheard>>
  BY DEF onQueryRequest, Takes
<1> DEFINE f == m.to
           p == [NoPropagator EXCEPT !.state = "open", !.toRespond = stored[f],
                                     !.toPropagate = stored[f]]
<1>3. propagator' \in {propagator, [propagator EXCEPT ![f] = p]}
  BY DEF onQueryRequest
<1>4. /\ p \in PropagatorType /\ p.toRespond = stored[f] /\ p.primary = "awaited"
  <2>1. stored[f] \in SUBSET Refs
    BY <1>1, <1>2, NodesSplit
  <2> QED
    BY <2>1 DEF PropagatorType, NoPropagator
<1> HIDE DEF p
<1>5. propagator' \in [Foreign -> PropagatorType]
  BY <1>1, <1>2, <1>3, <1>4
<1>6. \A h \in Foreign : /\ h # f => propagator'[h] = propagator[h]
                         /\ propagator'[h] \in {propagator[h], p}
  BY <1>1, <1>2, <1>3
<1>7. WellFormed'
  BY <1>1, <1>2, <1>5 DEF WellFormed, answers, listVars
<1>8. PropagationAfterScan'
  BY <1>2, <1>4, <1>6 DEF LiveInv, PropagationAfterScan
<1>9. AboutTheList'
  BY <1>2, ListUnchanged DEF listState
<1>10. query # "none" /\ f \notin final /\ Responses(f) = {}
  BY <1>2 DEF LiveInv, RequestFirst
<1>11. UNCHANGED <<query, final, misheard>>
  BY <1>2 DEF answers
<1>12. \A h \in Foreign : /\ Responses(h)' = Responses(h)
                          /\ OnTheWay(h)' = OnTheWay(h)
                          /\ FinalSent(h)' <=> FinalSent(h)
                          /\ Claimed(h)' = Claimed(h)
                          /\ Listed' = Listed
  <2> SUFFICES ASSUME NEW h \in Foreign
               PROVE  /\ Responses(h)' = Responses(h)
                      /\ OnTheWay(h)' = OnTheWay(h)
                      /\ FinalSent(h)' <=> FinalSent(h)
                      /\ Claimed(h)' = Claimed(h)
                      /\ Listed' = Listed
    OBVIOUS
  <2>1. Responses(h)' = Responses(h)
    BY <1>2 DEF Responses, IsResponse
  <2> QED
    BY <1>2, <1>11, <2>1 DEF OnTheWay, FinalSent, Claimed, Listed, Queried, listVars
<1>13. RequestFirst'
  <2>1. \A x \in wire' : x.type = "request" => x \in wire /\ x.to # f
    BY <1>1, <1>2, MessageKinds, OneRequest
  <2> QED
    BY <1>6, <1>10, <1>11, <1>12, <2>1 DEF LiveInv, RequestFirst
<1>14. ~FinalSent(f)
  BY <1>10 DEF FinalSent
<1>15. FinalIsLast'
  <2>1. \A h \in Foreign : ForeignScans(h)' /\ h # f => ForeignScans(h)
    BY <1>6 DEF ForeignScans
  <2> QED
    BY <1>2, <1>11, <1>12, <1>14, <2>1 DEF LiveInv, FinalIsLast
<1>16. ListedOrToCome'
  <2> SUFFICES ASSUME NEW h \in Foreign \ misheard'
               PROVE  /\ ForeignScans(h)'
                         => Claimed(h)' \subseteq Listed' \cup OnTheWay(h)'
                                                    \cup propagator'[h].toRespond
                      /\ FinalSent(h)' => Claimed(h)' \subseteq Listed' \cup OnTheWay(h)'
    BY DEF ListedOrToCome
  <2>1. CASE propagator'[h] = propagator[h]
    BY <1>11, <1>12, <2>1 DEF LiveInv, ListedOrToCome, ForeignScans
  <2>2. CASE h = f /\ propagator'[h] = p
    <3>1. Claimed(f) \subseteq stored[f]
      BY <1>2, NodesSplit DEF LiveInv, ExpectedAreAwaited, Claimed
    <3> QED
      BY <1>4, <1>12, <1>14, <2>2, <3>1
  <2> QED
    BY <1>6, <2>1, <2>2
<1> QED
  BY <1>7, <1>8, <1>9, <1>13, <1>15, <1>16, Parts DEF AboutTheWire

\* A response of a node: what it lists goes from its propagator to the wire.
LEMMA RespondStep ==
  ASSUME LiveInv, query \in {"none", "publishing", "waiting"}, NEW f \in Foreign,
         RespondFinal(f) \/ \E refs \in SUBSET propagator[f].toRespond : RespondPart(f, refs)
  PROVE  LiveInv'
<1>1. /\ propagator \in [Foreign -> PropagatorType] /\ propagator[f] \in PropagatorType
      /\ propagator[f].toRespond \in SUBSET Refs /\ wire \subseteq Messages /\ WellFormed
  BY DEF LiveInv, WellFormed, PropagatorType
<1>2. PICK refs \in SUBSET Refs, type \in {"response", "final"} :
         /\ publish(f, type, refs) /\ refs \subseteq propagator[f].toRespond
         /\ ForeignScans(f)
         /\ \E p \in PropagatorType :
               /\ propagator' = [propagator EXCEPT ![f] = p]
               /\ p.toRespond = propagator[f].toRespond \ refs
               /\ p.state = "open" /\ p.primary = propagator[f].primary
               /\ type = "final" => p.scan = "ended" /\ refs = propagator[f].toRespond
         /\ UNCHANGED <<stored, query, scan, answers, listVars, storing, given, expected,
                        misheard>>
  <2>1. CASE RespondFinal(f)
    <3> DEFINE p == [propagator[f] EXCEPT !.toRespond = {}, !.scan = "ended"]
    <3>1. /\ p \in PropagatorType /\ p.toRespond = {} /\ p.state = "open" /\ p.scan = "ended"
          /\ p.primary = propagator[f].primary
      BY <1>1, <2>1 DEF PropagatorType, RespondFinal, ForeignScans
    <3>2. propagator' = [propagator EXCEPT ![f] = p]
      BY <1>1, <2>1 DEF RespondFinal
    <3> HIDE DEF p
    <3>3. /\ publish(f, "final", propagator[f].toRespond) /\ ForeignScans(f)
          /\ UNCHANGED <<stored, query, scan, answers, listVars, storing, given, expected,
                         misheard>>
      BY <2>1 DEF RespondFinal, history
    <3>4. p.toRespond = propagator[f].toRespond \ propagator[f].toRespond
      BY <3>1
    <3> QED
      BY <1>1, <3>1, <3>2, <3>3, <3>4
  <2>2. CASE \E refs \in SUBSET propagator[f].toRespond : RespondPart(f, refs)
    <3>1. PICK refs \in SUBSET propagator[f].toRespond : RespondPart(f, refs)
      BY <2>2
    <3> DEFINE p == [propagator[f] EXCEPT !.toRespond = propagator[f].toRespond \ refs]
    <3>2. /\ p \in PropagatorType /\ p.toRespond = propagator[f].toRespond \ refs
          /\ p.state = "open" /\ p.primary = propagator[f].primary
      BY <1>1, <3>1 DEF PropagatorType, RespondPart, ForeignScans
    <3>3. propagator' = [propagator EXCEPT ![f] = p]
      BY <1>1, <3>1 DEF RespondPart
    <3> HIDE DEF p
    <3>4. /\ publish(f, "response", refs) /\ ForeignScans(f)
          /\ UNCHANGED <<stored, query, scan, answers, listVars, storing, given, expected,
                         misheard>>
      BY <3>1 DEF RespondPart, history
    <3>5. refs \in SUBSET Refs /\ refs \subseteq propagator[f].toRespond
      BY <1>1, <3>1
    <3> QED
      BY <3>2, <3>3, <3>4, <3>5
  <2> QED
    BY <2>1, <2>2
<1>3. PICK p \in PropagatorType :
         /\ propagator' = [propagator EXCEPT ![f] = p]
         /\ p.toRespond = propagator[f].toRespond \ refs
         /\ p.state = "open" /\ p.primary = propagator[f].primary
         /\ type = "final" => p.scan = "ended" /\ refs = propagator[f].toRespond
  BY <1>2
<1> DEFINE m == Packet(type, refs, f, Primary)
<1>4. query # "none" /\ f \notin final /\ propagator[f].state = "open"
      /\ ~FinalSent(f)
  BY <1>2 DEF LiveInv, RequestFirst, ForeignScans, FinalIsLast, FinalSent
<1>5. wire' = wire \cup {m}
  <2>1. Receivers(f) = {Primary}
    BY <1>4, NodesSplit DEF Receivers, Listens
  <2>2. publish(f, type, refs)
    BY <1>2
  <2>3. \A x : x \in wire' <=> x \in wire \/ \E n \in Receivers(f) : x = Packet(type, refs, f, n)
    BY <2>2, Published
  <2> QED
    BY <2>1, <2>3
<1>6. m \in Messages /\ m.type = type /\ m.from = f /\ m.refs = refs /\ IsResponse(m)
      /\ m \notin PrimaryResponses \cup Propagations
  BY NodesSplit DEF Packet, Messages, ForeignResponses, PrimaryResponses, Propagations, IsResponse
<1> HIDE DEF m
<1>7. \A h \in Foreign : propagator'[h] = IF h = f THEN p ELSE propagator[h]
  BY <1>1, <1>3
<1>8. WellFormed'
  <2>1. propagator' \in [Foreign -> PropagatorType]
    BY <1>1, <1>3
  <2> QED
    BY <1>1, <1>2, <1>5, <1>6, <2>1 DEF WellFormed, answers, listVars
<1>9. PropagationAfterScan'
  BY <1>2, <1>3, <1>5, <1>6, <1>7 DEF LiveInv, PropagationAfterScan
<1>10. AboutTheList'
  BY <1>2, ListUnchanged DEF listState
<1>11. UNCHANGED <<query, final, misheard>> /\ Listed' = Listed
  BY <1>2 DEF answers, listVars, Listed, Queried
<1>12. Responses(f)' = Responses(f) \cup {m}
  BY <1>5, <1>6 DEF Responses
<1>13. OnTheWay(f)' = OnTheWay(f) \cup refs
  BY <1>6, <1>12 DEF OnTheWay
<1>14. \A h \in Foreign \ {f} : /\ Responses(h)' = Responses(h)
                                /\ OnTheWay(h)' = OnTheWay(h)
                                /\ FinalSent(h)' <=> FinalSent(h)
  <2> SUFFICES ASSUME NEW h \in Foreign \ {f}
               PROVE  /\ Responses(h)' = Responses(h)
                      /\ OnTheWay(h)' = OnTheWay(h)
                      /\ FinalSent(h)' <=> FinalSent(h)
    OBVIOUS
  <2>1. Responses(h)' = Responses(h)
    BY <1>5, <1>6 DEF Responses
  <2> QED
    BY <1>11, <2>1 DEF OnTheWay, FinalSent
<1>15. \A h \in Foreign : Claimed(h)' = Claimed(h)
  BY <1>2 DEF Claimed
<1>16. RequestFirst'
  <2>1. ~\E x \in wire : x.type = "request" /\ x.to = f
    BY <1>4 DEF LiveInv, RequestFirst
  <2>2. m.type # "request"
    BY <1>6
  <2> QED
    BY <1>4, <1>5, <1>7, <1>11, <1>14, <2>1, <2>2 DEF LiveInv, RequestFirst
<1>17. FinalSent(f)' => type = "final"
  BY <1>4, <1>6, <1>11, <1>12 DEF FinalSent
<1>18. FinalIsLast'
  <2>1. \A h \in Foreign \ {f} : ForeignScans(h)' => ForeignScans(h)
    BY <1>7 DEF ForeignScans
  <2>2. ForeignScans(f)' => type # "final"
    BY <1>3, <1>7 DEF ForeignScans
  <2> QED
    BY <1>4, <1>11, <1>14, <1>17, <2>1, <2>2 DEF LiveInv, FinalIsLast
<1>19. ListedOrToCome'
  <2> SUFFICES ASSUME NEW h \in Foreign \ misheard'
               PROVE  /\ ForeignScans(h)'
                         => Claimed(h)' \subseteq Listed' \cup OnTheWay(h)'
                                                    \cup propagator'[h].toRespond
                      /\ FinalSent(h)' => Claimed(h)' \subseteq Listed' \cup OnTheWay(h)'
    BY DEF ListedOrToCome
  <2>1. CASE h # f
    BY <1>7, <1>11, <1>14, <1>15, <2>1 DEF LiveInv, ListedOrToCome, ForeignScans
  <2>2. CASE h = f
    <3>1. Claimed(f) \subseteq Listed \cup OnTheWay(f) \cup propagator[f].toRespond
      BY <1>2, <1>11, <2>2 DEF LiveInv, ListedOrToCome
    <3>2. propagator[f].toRespond \subseteq refs \cup p.toRespond
      BY <1>3
    <3>3. type = "final" => propagator[f].toRespond \subseteq refs
      BY <1>3
    <3> QED
      BY <1>7, <1>11, <1>13, <1>15, <1>17, <2>2, <3>1, <3>2, <3>3
  <2> QED
    BY <2>1, <2>2
<1> QED
  BY <1>8, <1>9, <1>10, <1>16, <1>18, <1>19, Parts DEF AboutTheWire

-----------------------------------------------------------------------------
(* Steps of the aggregator *)

\* What a doCheck needs of the event before it: the list has grown, and it covers what the
\* scan and the nodes that are final have yielded.
Grown(list, isReady, running) ==
    /\ list \in SUBSET Refs /\ isReady \in SUBSET Refs /\ running \in SUBSET (SUBSET Refs)
    /\ items \subseteq list
    /\ Queried = given' \cup UNION running
    /\ isReady \cup scan'.left \subseteq stored'[Primary]
    /\ \A y \in scan'.left : y \in Refs /\ \A x \in isReady \cup Queried : x < y
    /\ scan'.state = "ended" => scan'.left = {}
    /\ expected[Primary] \subseteq Queried \cup list \cup scan'.left
    /\ \A f \in Foreign \ misheard' : f \in final' => expected[f] \subseteq Queried \cup list
    /\ \A f \in Foreign : expected[f] # {} => f \in awaited'
    /\ misheard \subseteq misheard' /\ expected' = expected
    /\ stored' \in [Nodes -> SUBSET Refs] /\ \A n \in Nodes : stored[n] \subseteq stored'[n]

\* Then nothing is passed over, and if the answer is ended, it is complete.
LEMMA ListStep ==
  ASSUME LiveInv, query = "waiting", NEW list, NEW isReady, NEW running,
         Grown(list, isReady, running),
         doCheck(list, isReady, awaited', final', scan'.state, running)
  PROVE  /\ query' \in {"waiting", "ended"}
         /\ items' \subseteq Refs /\ ready' \subseteq Refs /\ reading' \subseteq SUBSET Refs
         /\ Queried \cup list \subseteq Listed'
         /\ AboutTheList'
         /\ query' = "ended" /\ scan'.state \in {"flowing", "ended"} => AnswerIsComplete'
<1>1. Checked(list, isReady, awaited', final', scan'.state, running)
  BY DoCheck DEF Grown
<1>2. /\ query' \in {query, "ended"}
      /\ query' = "ended" =>
            query = "ended" \/ /\ awaited' \subseteq final' /\ list = {}
                               /\ scan'.state # "flowing" /\ running = {} /\ reading' = {}
      /\ items' \subseteq list /\ ready' \subseteq isReady
      /\ running \subseteq reading' /\ reading' \subseteq SUBSET Refs
      /\ list \subseteq items' \cup UNION reading'
  BY <1>1 DEF Checked
<1>3. \A x \in (UNION reading') \ (UNION running) :
          /\ awaited' \subseteq final'
          /\ \E b \in isReady : x <= b
          /\ \A r \in list : r <= x => r \in UNION reading'
  BY <1>1 DEF Checked
<1>4. /\ list \in SUBSET Refs /\ isReady \in SUBSET Refs
      /\ Queried = given' \cup UNION running
      /\ Queried' = given' \cup UNION reading'
  BY DEF Grown, Queried
<1>5. Queried \subseteq Queried'
  BY <1>2, <1>4
<1>6. Queried \cup list \subseteq Listed'
  BY <1>2, <1>4, <1>5 DEF Listed
<1>7. Queried' \subseteq Int /\ isReady \subseteq Int /\ Refs \subseteq Int
  <2>1. UNION reading' \subseteq Refs
    BY <1>2
  <2>2. Queried \subseteq Refs
    BY DEF LiveInv, WellFormed, Queried
  <2> QED
    BY <1>4, <2>1, <2>2, RefsAreInt
<1>8. ScanIsAhead'
  <2>1. \A y \in scan'.left : y \in Int /\ \A x \in isReady \cup Queried : x < y
    BY <1>7 DEF Grown
  <2>2. ASSUME NEW y \in scan'.left, NEW x \in Queried' \ Queried
        PROVE  x < y
    <3>1. PICK b \in isReady : x <= b
      BY <1>3, <1>4, <2>2
    <3>2. b < y
      BY <2>1
    <3>3. x \in Int /\ b \in Int /\ y \in Int
      BY <1>7, <2>1
    <3> QED
      BY <3>1, <3>2, <3>3
  <2>3. ready' \cup scan'.left \subseteq stored'[Primary]
    BY <1>2 DEF Grown
  <2>4. \A y \in scan'.left : \A x \in ready' \cup Queried' : x < y
    BY <1>2, <2>1, <2>2
  <2>5. scan'.state = "ended" => scan'.left = {}
    BY DEF Grown
  <2> QED
    BY <2>3, <2>4, <2>5 DEF ScanIsAhead
<1>9. PrimaryIsListed'
  BY <1>6 DEF Grown, PrimaryIsListed
<1>10. NothingPassedOver'
  <2> SUFFICES ASSUME NEW n \in Nodes \ misheard', NEW r \in expected[n], NEW x \in Queried',
                      r <= x
               PROVE  r \in Queried'
    BY DEF Grown, NothingPassedOver
  <2>1. CASE x \in Queried
    <3>1. n \in Nodes \ misheard
      BY DEF Grown
    <3>2. r \in Queried
      BY <2>1, <3>1 DEF LiveInv, NothingPassedOver
    <3> QED
      BY <1>5, <3>2
  <2>2. CASE x \notin Queried
    <3>1. x \in (UNION reading') \ (UNION running)
      BY <1>4, <2>2
    <3>2. r \in Queried \cup list \/ (n = Primary /\ r \in scan'.left)
      <4>1. CASE n = Primary
        BY <4>1 DEF Grown
      <4>2. CASE n \in Foreign
        <5>1. n \in awaited'
          BY <4>2 DEF Grown
        <5>2. n \in final'
          BY <1>3, <3>1, <5>1
        <5> QED
          BY <4>2, <5>2 DEF Grown
      <4> QED
        BY <4>1, <4>2 DEF Nodes
    <3>3. r \notin scan'.left
      <4> SUFFICES ASSUME r \in scan'.left PROVE FALSE
        OBVIOUS
      <4>1. PICK b \in isReady : x <= b
        BY <1>3, <3>1
      <4>2. b < r /\ r \in Refs
        BY DEF Grown
      <4>3. b \in Int /\ r \in Int /\ x \in Int
        BY <1>7, <4>2
      <4> QED
        BY <4>1, <4>2, <4>3
    <3>4. r \in list => r \in UNION reading'
      BY <1>3, <3>1
    <3> QED
      BY <1>4, <1>5, <3>2, <3>3, <3>4
  <2> QED
    BY <2>1, <2>2
<1>11. BeforeTheAggregator' /\ ExpectedAreAwaited'
  <2>1. \A n \in Nodes : expected[n] \subseteq stored[n]
    BY DEF LiveInv, ExpectedAreAwaited
  <2> QED
    BY <1>2, <2>1 DEF Grown, BeforeTheAggregator, ExpectedAreAwaited
<1>12. query' = "ended" /\ scan'.state \in {"flowing", "ended"} => AnswerIsComplete'
  <2> SUFFICES ASSUME query' = "ended", scan'.state \in {"flowing", "ended"},
                      NEW n \in Nodes \ misheard'
               PROVE  expected[n] \subseteq given'
    BY DEF AnswerIsComplete, Grown
  <2>1. awaited' \subseteq final' /\ list = {} /\ scan'.state = "ended" /\ running = {}
    BY <1>2
  <2>2. Queried = given'
    BY <1>4, <2>1
  <2>3. CASE n = Primary
    BY <2>1, <2>2, <2>3 DEF Grown
  <2>4. CASE n \in Foreign
    BY <2>1, <2>2, <2>4 DEF Grown
  <2> QED
    BY <2>3, <2>4 DEF Nodes
<1>13. AboutTheList'
  BY <1>8, <1>9, <1>10, <1>11 DEF AboutTheList
<1>14. items' \subseteq Refs /\ ready' \subseteq Refs
  BY <1>2, <1>4
<1> QED
  BY <1>2, <1>6, <1>12, <1>13, <1>14

\* The messages of a node that is final are all listed.
LEMMA FinalIsListed ==
  ASSUME LiveInv, query = "waiting", NEW f \in Foreign \ misheard, f \in final
  PROVE  expected[f] \subseteq Listed
<1>1. Responses(f) = {}
  BY DEF LiveInv, FinalIsLast
<1>2. OnTheWay(f) = {}
  BY <1>1 DEF OnTheWay
<1>3. Claimed(f) \subseteq Listed \cup OnTheWay(f)
  BY DEF LiveInv, ListedOrToCome, FinalSent
<1> QED
  BY <1>2, <1>3 DEF Claimed

\* What a step of the aggregator has to show
Kept == (query' # "ended" => LiveInv') /\ (query' = "ended" => AnswerIsComplete')

\* A doCheck after an event that is not a response of a foreign node
LEMMA AggregatorStep ==
  ASSUME LiveInv, query = "waiting", NEW list, NEW isReady, NEW running,
         Grown(list, isReady, running),
         doCheck(list, isReady, awaited, final, scan'.state, running),
         UNCHANGED <<propagator, answers, expected, misheard>>,
         stored' = [stored EXCEPT ![Primary] = stored'[Primary]],
         \A f \in Foreign : Responses(f)' = Responses(f),
         \A m \in wire' : m.type = "request" => m \in wire,
         wire' \subseteq Messages, given' \subseteq Refs,
         storing' \subseteq [from : Foreign, left : SUBSET Refs],
         scan' \in [left : SUBSET Refs, yielded : SUBSET Refs, state : {"flowing", "ended"}],
         PropagationAfterScan'
  PROVE  Kept
<1>1. awaited' = awaited /\ final' = final
  BY DEF answers
<1>2. doCheck(list, isReady, awaited', final', scan'.state, running)
  BY <1>1
<1>3. /\ query' \in {"waiting", "ended"}
      /\ items' \subseteq Refs /\ ready' \subseteq Refs /\ reading' \subseteq SUBSET Refs
      /\ Queried \cup list \subseteq Listed'
      /\ AboutTheList'
      /\ query' = "ended" /\ scan'.state \in {"flowing", "ended"} => AnswerIsComplete'
  BY <1>2, ListStep
<1>4. query' = "ended" => AnswerIsComplete'
  BY <1>3
<1>5. ASSUME query' = "waiting" PROVE LiveInv'
  <2>1. WellFormed
    BY DEF LiveInv
  <2>2. stored' \in [Nodes -> SUBSET Refs]
    BY DEF Grown
  <2>3. WellFormed'
    BY <1>1, <1>3, <2>1, <2>2 DEF WellFormed
  <2>4. Listed \subseteq Listed'
    BY <1>3 DEF Grown, Listed
  <2>5. \A f \in Foreign : ForeignScans(f)' = ForeignScans(f)
    BY DEF ForeignScans
  <2>6. Calm
    BY <1>1, <1>5, <2>4, <2>5 DEF Calm
  <2> QED
    BY <1>3, <2>3, <2>6, CalmStep, Parts
<1> QED
  BY <1>3, <1>4, <1>5 DEF Kept

\* The list is large enough as it is, whenever a query or a propagation has ended.
LEMMA GrownByNothing ==
  ASSUME LiveInv, query = "waiting", NEW running \in SUBSET (SUBSET Refs),
         Queried = given' \cup UNION running,
         UNCHANGED <<stored, answers, expected, misheard>>,
         scan'.left = scan.left, scan'.state \in {"flowing", "ended"},
         scan'.state = "ended" => scan.left = {}
  PROVE  Grown(items, ready, running)
<1>1. WellFormed /\ ScanIsAhead /\ PrimaryIsListed /\ ExpectedAreAwaited
  BY DEF LiveInv
<1>2. \A f \in Foreign \ misheard' : f \in final' => expected[f] \subseteq Queried \cup items
  BY FinalIsListed DEF answers, Listed
<1>3. /\ items \in SUBSET Refs /\ ready \in SUBSET Refs /\ scan.left \in SUBSET Refs
      /\ stored' \in [Nodes -> SUBSET Refs]
  BY <1>1 DEF WellFormed
<1>4. \A y \in scan'.left : y \in Refs /\ \A x \in ready \cup Queried : x < y
  BY <1>1, <1>3 DEF ScanIsAhead
<1>5. expected[Primary] \subseteq Queried \cup items \cup scan'.left
  BY <1>1 DEF PrimaryIsListed, Listed
<1>6. \A f \in Foreign : expected[f] # {} => f \in awaited'
  BY <1>1 DEF ExpectedAreAwaited, answers
<1>7. ready \cup scan'.left \subseteq stored'[Primary]
  BY <1>1 DEF ScanIsAhead
<1> QED
  BY <1>2, <1>3, <1>4, <1>5, <1>6, <1>7 DEF Grown

\* A message of the scan: it is above all that is ready or queried, so it is listed.
LEMMA ScanDataStep ==
  ASSUME LiveInv, query = "waiting", NEW r \in scan.left, ScanData(r)
  PROVE  Kept
<1>1. WellFormed /\ ScanIsAhead /\ PrimaryIsListed /\ ExpectedAreAwaited
  BY DEF LiveInv
<1>2. /\ scan' = [scan EXCEPT !.left = @ \ {r}, !.yielded = @ \cup {r}]
      /\ UNCHANGED <<stored, wire, propagator, answers, storing, given, expected, misheard>>
      /\ doCheck(items \cup Fresh({r}), ready \cup Fresh({r}), awaited, final, "flowing", reading)
      /\ scan.state = "flowing" /\ \A x \in scan.left : r <= x
  BY DEF ScanData, Scanning, history
<1>3. scan \in [left : SUBSET Refs, yielded : SUBSET Refs, state : {"flowing", "ended"}]
  BY <1>1 DEF WellFormed
<1>4. r \in Refs /\ scan.left \in SUBSET Refs
  BY <1>3
<1>5. /\ scan'.left = scan.left \ {r} /\ scan'.state = "flowing"
      /\ scan' \in [left : SUBSET Refs, yielded : SUBSET Refs, state : {"flowing", "ended"}]
  BY <1>2, <1>3, <1>4
<1>6. Fresh({r}) = {r}
  <2>1. \A x \in Queried : x < r
    BY <1>1 DEF ScanIsAhead
  <2> QED
    BY <2>1 DEF Fresh, Queried
<1>7. PropagationAfterScan'
  BY <1>2, <1>5 DEF LiveInv, PropagationAfterScan
<1> DEFINE list == items \cup {r}
           isReady == ready \cup {r}
<1>8. Grown(list, isReady, reading)
  <2>1. /\ list \in SUBSET Refs /\ isReady \in SUBSET Refs /\ reading \in SUBSET (SUBSET Refs)
        /\ stored' \in [Nodes -> SUBSET Refs]
    BY <1>1, <1>2, <1>4 DEF WellFormed
  <2>2. Queried = given' \cup UNION reading
    BY <1>2 DEF Queried
  <2>3. isReady \cup scan'.left \subseteq stored'[Primary]
    BY <1>1, <1>2, <1>5 DEF ScanIsAhead
  <2>4. ASSUME NEW y \in scan'.left, NEW x \in isReady \cup Queried
        PROVE  x < y
    <3>1. y \in scan.left /\ y # r /\ r <= y
      BY <1>2, <1>5
    <3>2. CASE x \in ready \cup Queried
      BY <1>1, <3>1, <3>2 DEF ScanIsAhead
    <3>3. CASE x = r
      <4>1. y \in Int /\ r \in Int
        BY <1>4, <3>1, RefsAreInt
      <4> QED
        BY <3>1, <3>3, <4>1
    <3> QED
      BY <3>2, <3>3
  <2>5. \A y \in scan'.left : y \in Refs
    BY <1>4, <1>5
  <2>6. expected[Primary] \subseteq Queried \cup list \cup scan'.left
    BY <1>1, <1>5 DEF PrimaryIsListed, Listed
  <2>7. \A f \in Foreign \ misheard' : f \in final' => expected[f] \subseteq Queried \cup list
    BY <1>2, FinalIsListed DEF answers, Listed
  <2>8. \A f \in Foreign : expected[f] # {} => f \in awaited'
    BY <1>1, <1>2 DEF ExpectedAreAwaited, answers
  <2> HIDE DEF isReady
  <2>9. /\ items \subseteq list /\ scan'.state # "ended" /\ misheard \subseteq misheard'
        /\ expected' = expected /\ \A n \in Nodes : stored[n] \subseteq stored'[n]
    BY <1>2, <1>5
  <2> HIDE DEF list
  <2> QED
    BY <2>1, <2>2, <2>3, <2>4, <2>5, <2>6, <2>7, <2>8, <2>9 DEF Grown
<1>9. doCheck(list, isReady, awaited, final, scan'.state, reading)
  BY <1>2, <1>5, <1>6
<1> HIDE DEF list, isReady
<1>10. /\ wire' \subseteq Messages /\ given' \subseteq Refs
       /\ storing' \subseteq [from : Foreign, left : SUBSET Refs]
       /\ \A f \in Foreign : Responses(f)' = Responses(f)
       /\ \A m \in wire' : m.type = "request" => m \in wire
       /\ stored' = [stored EXCEPT ![Primary] = stored'[Primary]]
  BY <1>1, <1>2 DEF WellFormed, Responses
<1>11. UNCHANGED <<propagator, answers, expected, misheard>>
  BY <1>2
<1> QED
  BY <1>5, <1>7, <1>8, <1>9, <1>10, <1>11, AggregatorStep

\* The end of the scan: from now on there may be propagations.
LEMMA ScanEndStep ==
  ASSUME LiveInv, query = "waiting", ScanEnd
  PROVE  Kept
<1>1. WellFormed
  BY DEF LiveInv
<1>2. /\ scan' = [scan EXCEPT !.state = "ended"] /\ scan.left = {}
      /\ publish(Primary, "final", scan.yielded)
      /\ UNCHANGED <<stored, propagator, answers, storing, given, expected, misheard>>
      /\ doCheck(items, ready, awaited, final, "ended", reading)
  BY DEF ScanEnd, history
<1>3. scan \in [left : SUBSET Refs, yielded : SUBSET Refs, state : {"flowing", "ended"}]
  BY <1>1 DEF WellFormed
<1>4. /\ scan'.left = scan.left /\ scan'.state = "ended" /\ scan.yielded \in SUBSET Refs
      /\ scan' \in [left : SUBSET Refs, yielded : SUBSET Refs, state : {"flowing", "ended"}]
  BY <1>2, <1>3
<1>5. Queried = given' \cup UNION reading /\ reading \in SUBSET (SUBSET Refs)
  BY <1>1, <1>2 DEF Queried, WellFormed
<1>6. UNCHANGED <<stored, answers, expected, misheard>>
  BY <1>2
<1>7. Grown(items, ready, reading)
  BY <1>2, <1>4, <1>5, <1>6, GrownByNothing
<1>8. \A x : x \in wire' <=> x \in wire \/ \E n \in Receivers(Primary) :
                                             x = Packet("final", scan.yielded, Primary, n)
  BY <1>2, Published
<1>9. \A n \in Receivers(Primary) : Packet("final", scan.yielded, Primary, n) \in PrimaryResponses
  BY <1>4 DEF Receivers, Packet, PrimaryResponses
<1>10. wire \subseteq wire' /\ \A m \in wire' : m \in wire \/ m \in PrimaryResponses
  BY <1>8, <1>9
<1>11. wire' \subseteq Messages
  BY <1>1, <1>10 DEF WellFormed, Messages
<1>12. \A m \in wire' : m.type = "request" => m \in wire
  BY <1>10 DEF PrimaryResponses
<1>13. \A f \in Foreign : Responses(f)' = Responses(f)
  BY <1>10, NodesSplit DEF Responses, PrimaryResponses
<1>14. PropagationAfterScan'
  BY <1>4 DEF PropagationAfterScan
<1>15. /\ given' \subseteq Refs /\ storing' \subseteq [from : Foreign, left : SUBSET Refs]
       /\ stored' = [stored EXCEPT ![Primary] = stored'[Primary]]
  BY <1>1, <1>2 DEF WellFormed
<1>16. doCheck(items, ready, awaited, final, scan'.state, reading)
  BY <1>2, <1>4
<1>17. UNCHANGED <<propagator, answers, expected, misheard>>
  BY <1>2
<1> QED
  BY <1>4, <1>7, <1>11, <1>12, <1>13, <1>14, <1>15, <1>16, <1>17, AggregatorStep

\* A range query hands over what it yields.
LEMMA QueryEndStep ==
  ASSUME LiveInv, NEW range \in reading, QueryEnd(range)
  PROVE  Kept
<1>1. WellFormed
  BY DEF LiveInv
<1>2. /\ query = "waiting" /\ given' = given \cup range
      /\ UNCHANGED <<stored, wire, propagator, scan, answers, storing, expected, misheard>>
      /\ doCheck(items, ready, awaited, final, scan.state, reading \ {range})
  BY DEF QueryEnd, history
<1>3. Queried = given' \cup UNION (reading \ {range})
  BY <1>2 DEF Queried
<1>4. /\ reading \ {range} \in SUBSET (SUBSET Refs) /\ given' \subseteq Refs
      /\ storing' \subseteq [from : Foreign, left : SUBSET Refs] /\ wire' \subseteq Messages
      /\ scan \in [left : SUBSET Refs, yielded : SUBSET Refs, state : {"flowing", "ended"}]
  BY <1>1, <1>2 DEF WellFormed
<1>5. scan.state = "ended" => scan.left = {}
  BY DEF LiveInv, ScanIsAhead
<1>6. scan'.left = scan.left /\ scan'.state = scan.state
      /\ UNCHANGED <<stored, answers, expected, misheard>>
  BY <1>2
<1>7. Grown(items, ready, reading \ {range})
  BY <1>2, <1>3, <1>4, <1>5, <1>6, GrownByNothing
<1>8. PropagationAfterScan'
  BY <1>2 DEF LiveInv, PropagationAfterScan
<1>9. /\ \A f \in Foreign : Responses(f)' = Responses(f)
      /\ \A m \in wire' : m.type = "request" => m \in wire
      /\ stored' = [stored EXCEPT ![Primary] = stored'[Primary]]
  BY <1>1, <1>2 DEF Responses, WellFormed
<1>10. doCheck(items, ready, awaited, final, scan'.state, reading \ {range})
       /\ UNCHANGED <<propagator, answers, expected, misheard>> /\ scan' = scan
  BY <1>2
<1> QED
  BY <1>2, <1>4, <1>7, <1>8, <1>9, <1>10, AggregatorStep

\* A propagation comes after the end of the scan; its stores are under way then.
LEMMA PropagationStep ==
  ASSUME LiveInv, NEW m \in wire, onPropagation(m)
  PROVE  Kept
<1>1. WellFormed /\ wire \subseteq Messages
  BY DEF LiveInv, WellFormed
<1>2. /\ query = "waiting" /\ m.to = Primary /\ m.type = "propagate" /\ wire' = wire \ {m}
      /\ UNCHANGED <<stored, propagator, scan, answers, given, expected, misheard>>
  BY DEF onPropagation, Takes, history
<1>3. m \in Propagations /\ m.from \in Foreign /\ m.refs \in SUBSET Refs
  <2>1. m \in Propagations
    BY <1>1, <1>2, MessageKinds
  <2> QED
    BY <2>1 DEF Propagations
<1>4. scan.state = "ended" /\ scan.left = {}
  <2>1. scan.state # "flowing"
    BY <1>3 DEF LiveInv, PropagationAfterScan
  <2> QED
    BY <1>1, <2>1 DEF LiveInv, WellFormed, ScanIsAhead
<1>5. PropagationAfterScan'
  BY <1>2, <1>4 DEF PropagationAfterScan
<1>6. /\ \A f \in Foreign : Responses(f)' = Responses(f)
      /\ \A x \in wire' : x.type = "request" => x \in wire
      /\ stored' = [stored EXCEPT ![Primary] = stored'[Primary]]
      /\ wire' \subseteq Messages
  BY <1>1, <1>2 DEF Responses, IsResponse, WellFormed
<1>7. CASE m.refs = {}
  <2>1. storing' = storing /\ doCheck(items, ready, awaited, final, scan.state, reading)
    BY <1>7 DEF onPropagation
  <2>2. /\ Queried = given' \cup UNION reading /\ reading \in SUBSET (SUBSET Refs)
        /\ given' \subseteq Refs /\ storing' \subseteq [from : Foreign, left : SUBSET Refs]
        /\ scan' \in [left : SUBSET Refs, yielded : SUBSET Refs, state : {"flowing", "ended"}]
    BY <1>1, <1>2, <2>1 DEF Queried, WellFormed
  <2>3. UNCHANGED <<stored, answers, expected, misheard>> /\ scan'.left = scan.left
        /\ scan'.state = "ended" /\ scan' = scan
    BY <1>2, <1>4
  <2>4. Grown(items, ready, reading)
    BY <1>2, <1>4, <2>2, <2>3, GrownByNothing
  <2>5. doCheck(items, ready, awaited, final, scan'.state, reading)
        /\ UNCHANGED <<propagator, answers, expected, misheard>>
    BY <1>2, <2>1, <2>3
  <2> QED
    BY <1>2, <1>5, <1>6, <2>2, <2>4, <2>5, AggregatorStep
<1>8. CASE m.refs # {}
  <2>1. /\ storing' = storing \cup {[from |-> m.from, left |-> m.refs]}
        /\ UNCHANGED <<query, listVars>>
    BY <1>8 DEF onPropagation
  <2>2. storing' \subseteq [from : Foreign, left : SUBSET Refs]
    BY <1>1, <1>3, <2>1 DEF WellFormed
  <2>3. WellFormed'
    BY <1>1, <1>2, <1>6, <2>1, <2>2 DEF WellFormed, answers, listVars
  <2>4. AboutTheList'
    BY <1>2, <2>1, ListUnchanged DEF listState
  <2>5. Listed \subseteq Listed' /\ \A f \in Foreign : ForeignScans(f)' = ForeignScans(f)
    BY <1>2, <2>1 DEF listVars, Listed, Queried, ForeignScans
  <2>6. Calm
    BY <1>2, <1>6, <2>1, <2>5 DEF Calm, answers
  <2>7. LiveInv'
    BY <1>5, <2>3, <2>4, <2>6, CalmStep, Parts
  <2> QED
    BY <1>2, <2>1, <2>7 DEF Kept
<1> QED
  BY <1>7, <1>8

\* A stored message is ready, and listed unless it has been passed.
LEMMA StoreStep ==
  ASSUME LiveInv, NEW p \in storing, NEW r \in p.left, StoreDone(p, r)
  PROVE  Kept
<1>1. WellFormed /\ ScanIsAhead /\ PrimaryIsListed /\ ExpectedAreAwaited
  BY DEF LiveInv
<1>2. /\ query = "waiting" /\ stored' = [stored EXCEPT ![Primary] = @ \cup {r}]
      /\ UNCHANGED <<wire, propagator, scan, answers, given, expected, misheard>>
  BY DEF StoreDone, history
<1>3. p \in [from : Foreign, left : SUBSET Refs] /\ r \in Refs
  BY <1>1 DEF WellFormed
<1>4. scan.state = "ended" /\ scan.left = {}
  <2>1. scan.state # "flowing"
    BY DEF LiveInv, PropagationAfterScan
  <2> QED
    BY <1>1, <2>1 DEF WellFormed, ScanIsAhead
<1>5. PropagationAfterScan'
  BY <1>2, <1>4 DEF PropagationAfterScan
<1>6. /\ stored' \in [Nodes -> SUBSET Refs] /\ stored'[Primary] = stored[Primary] \cup {r}
      /\ \A n \in Nodes : stored[n] \subseteq stored'[n]
      /\ stored' = [stored EXCEPT ![Primary] = stored'[Primary]]
  BY <1>1, <1>2, <1>3, NodesSplit DEF WellFormed
<1>7. Fresh({r}) \subseteq {r}
  BY DEF Fresh
<1>8. storing' \subseteq [from : Foreign, left : SUBSET Refs]
  <2>1. [p EXCEPT !.left = @ \ {r}] \in [from : Foreign, left : SUBSET Refs]
    BY <1>3
  <2>2. storing \subseteq [from : Foreign, left : SUBSET Refs]
    BY <1>1 DEF WellFormed
  <2> QED
    BY <2>1, <2>2 DEF StoreDone
<1> DEFINE list == items \cup Fresh({r})
           isReady == ready \cup Fresh({r})
<1>9. /\ list \in SUBSET Refs /\ isReady \in SUBSET Refs /\ reading \in SUBSET (SUBSET Refs)
      /\ items \subseteq list
  BY <1>1, <1>3, <1>7 DEF WellFormed
<1>10. isReady \subseteq stored'[Primary]
  BY <1>1, <1>6, <1>7 DEF ScanIsAhead
<1>11. expected[Primary] \subseteq Queried \cup list
  BY <1>1, <1>2, <1>4 DEF PrimaryIsListed, Listed
<1>12. Queried = given' \cup UNION reading
  BY <1>2 DEF Queried
<1>13. \A f \in Foreign : Responses(f)' = Responses(f)
  BY <1>2 DEF Responses
<1>14. CASE p.left = {r}
  <2>1. doCheck(list, isReady, awaited, final, scan'.state, reading)
    BY <1>2, <1>14 DEF StoreDone
  <2>2. \A f \in Foreign \ misheard' : f \in final' => expected[f] \subseteq Queried \cup list
    BY <1>2, FinalIsListed DEF answers, Listed
  <2>3. \A f \in Foreign : expected[f] # {} => f \in awaited'
    BY <1>1, <1>2 DEF ExpectedAreAwaited, answers
  <2>4. scan'.left = {} /\ misheard \subseteq misheard' /\ expected' = expected
    BY <1>2, <1>4
  <2> HIDE DEF list, isReady
  <2>5. isReady \cup scan'.left \subseteq stored'[Primary]
    BY <1>10, <2>4
  <2>6. \A y \in scan'.left : y \in Refs /\ \A x \in isReady \cup Queried : x < y
    BY <2>4
  <2>7. expected[Primary] \subseteq Queried \cup list \cup scan'.left
    BY <1>11
  <2>8. Grown(list, isReady, reading)
    BY <1>6, <1>9, <1>12, <2>2, <2>3, <2>4, <2>5, <2>6, <2>7 DEF Grown
  <2>9. /\ wire' \subseteq Messages /\ given' \subseteq Refs
        /\ scan' \in [left : SUBSET Refs, yielded : SUBSET Refs, state : {"flowing", "ended"}]
        /\ \A m \in wire' : m.type = "request" => m \in wire
    BY <1>1, <1>2 DEF WellFormed
  <2>10. UNCHANGED <<propagator, answers, expected, misheard>>
    BY <1>2
  <2> QED
    BY <1>2, <1>5, <1>6, <1>8, <1>13, <2>1, <2>8, <2>9, <2>10, AggregatorStep
<1>15. CASE p.left # {r}
  <2>1. items' = list /\ ready' = isReady /\ UNCHANGED <<query, reading>>
    BY <1>15 DEF StoreDone
  <2> HIDE DEF list, isReady
  <2>2. WellFormed'
    BY <1>1, <1>2, <1>6, <1>8, <1>9, <2>1 DEF WellFormed, answers
  <2>3. Queried' = Queried /\ Listed \subseteq Listed' /\ Listed' = Queried \cup list
    BY <1>2, <1>9, <2>1 DEF Queried, Listed
  <2>4. AboutTheList'
    <3>1. BeforeTheAggregator'
      BY <1>2, <2>1 DEF BeforeTheAggregator
    <3>2. ExpectedAreAwaited'
      BY <1>1, <1>2, <1>6, <2>1 DEF ExpectedAreAwaited, answers
    <3>3. ScanIsAhead'
      BY <1>2, <1>4, <1>10, <2>1 DEF ScanIsAhead
    <3>4. PrimaryIsListed'
      BY <1>2, <1>11, <2>3 DEF PrimaryIsListed
    <3>5. NothingPassedOver'
      BY <1>2, <2>1, <2>3 DEF LiveInv, NothingPassedOver
    <3> QED
      BY <3>1, <3>2, <3>3, <3>4, <3>5 DEF AboutTheList
  <2>5. \A f \in Foreign : ForeignScans(f)' = ForeignScans(f)
    BY <1>2 DEF ForeignScans
  <2>6. Calm
    BY <1>2, <1>6, <1>13, <2>1, <2>3, <2>5 DEF Calm, answers
  <2>7. LiveInv'
    BY <1>5, <2>2, <2>4, <2>6, CalmStep, Parts
  <2> QED
    BY <1>2, <2>1, <2>7 DEF Kept
<1> QED
  BY <1>14, <1>15

\* What taking a response of a foreign node does to the wire.
LEMMA ResponseTaken ==
  ASSUME LiveInv, NEW m \in wire, m.to = Primary, IsResponse(m), wire' = wire \ {m}
  PROVE  /\ m \in ForeignResponses /\ m.from \in Foreign /\ m.refs \in SUBSET Refs
         /\ m \in Responses(m.from) /\ wire' \subseteq Messages
         /\ Overtaken(m) = Responses(m.from)'
         /\ \A h \in Foreign : Responses(h)' = Responses(h) \ {m}
         /\ \A h \in Foreign : h # m.from => Responses(h)' = Responses(h)
         /\ OnTheWay(m.from) \subseteq OnTheWay(m.from)' \cup m.refs
<1>1. wire \subseteq Messages
  BY DEF LiveInv, WellFormed
<1>2. m \in ForeignResponses
  BY <1>1, MessageKinds
<1>3. m.from \in Foreign /\ m.refs \in SUBSET Refs
  BY <1>2 DEF ForeignResponses
<1>4. \A h \in Foreign : /\ Responses(h)' = Responses(h) \ {m}
                         /\ h # m.from => Responses(h)' = Responses(h)
  BY DEF Responses
<1>5. m \in Responses(m.from)
  BY DEF Responses
<1>6. \A x \in Responses(m.from) : x.to = Primary
  <2> SUFFICES ASSUME NEW x \in Responses(m.from) PROVE x.to = Primary
    OBVIOUS
  <2>1. x \in Messages /\ IsResponse(x) /\ x.from = m.from
    BY <1>1 DEF Responses
  <2> QED
    BY <1>3, <2>1, NodesSplit
    DEF Messages, Requests, ForeignResponses, PrimaryResponses, Propagations, IsResponse
<1>7. Overtaken(m) = Responses(m.from) \ {m}
  BY <1>6 DEF Overtaken, Responses
<1>8. OnTheWay(m.from) \subseteq OnTheWay(m.from)' \cup m.refs
  BY <1>3, <1>4 DEF OnTheWay
<1> QED
  BY <1>1, <1>2, <1>3, <1>4, <1>5, <1>7, <1>8

\* A response that comes before there is an aggregator is dropped, and its node misheard.
LEMMA EarlyResponseStep ==
  ASSUME LiveInv, query = "publishing", NEW m \in wire, onForeignResponse(m)
  PROVE  Kept
<1>1. /\ m.to = Primary /\ IsResponse(m) /\ wire' = wire \ {m}
      /\ misheard' = misheard \cup {m.from}
      /\ UNCHANGED <<answers, query, listVars, stored, propagator, scan, storing, given, expected>>
  BY DEF onForeignResponse, Takes, IsResponse
<1>2. /\ wire' \subseteq Messages /\ m.from \in Foreign
      /\ \A h \in Foreign : Responses(h)' \subseteq Responses(h)
      /\ \A h \in Foreign : h # m.from => Responses(h)' = Responses(h)
  BY <1>1, ResponseTaken
<1>3. WellFormed'
  BY <1>1, <1>2 DEF LiveInv, WellFormed, answers, listVars
<1>4. AboutTheList'
  BY <1>1 DEF LiveInv, AboutTheList, BeforeTheAggregator, ExpectedAreAwaited, ScanIsAhead,
              PrimaryIsListed, NothingPassedOver, Queried, Listed, answers, listVars
<1>5. PropagationAfterScan'
  BY <1>1 DEF LiveInv, PropagationAfterScan
<1>6. RequestFirst'
  BY <1>1, <1>2 DEF LiveInv, RequestFirst, answers
<1>7. \A h \in Foreign : /\ FinalSent(h)' => FinalSent(h)
                         /\ h # m.from => OnTheWay(h)' = OnTheWay(h)
                         /\ ForeignScans(h)' <=> ForeignScans(h)
                         /\ Claimed(h)' = Claimed(h)
  BY <1>1, <1>2 DEF FinalSent, OnTheWay, ForeignScans, Claimed, answers
<1>8. final' = final /\ Listed' = Listed
  BY <1>1 DEF answers, listVars, Listed, Queried
<1>9. FinalIsLast'
  BY <1>1, <1>2, <1>7, <1>8 DEF LiveInv, FinalIsLast
<1>10. ListedOrToCome'
  BY <1>1, <1>7, <1>8 DEF LiveInv, ListedOrToCome
<1>11. LiveInv'
  BY <1>3, <1>4, <1>5, <1>6, <1>9, <1>10, Parts DEF AboutTheWire
<1> QED
  BY <1>1, <1>11 DEF Kept

\* A response that the aggregator takes: what it lists is pushed, or has been queried for.
LEMMA ResponseStep ==
  ASSUME LiveInv, query = "waiting", NEW m \in wire, onForeignResponse(m)
  PROVE  Kept
<1> DEFINE f == m.from
           list == items \cup Fresh(m.refs)
<1>1. /\ m.to = Primary /\ IsResponse(m) /\ wire' = wire \ {m}
      /\ awaited' = awaited \cup {f}
      /\ final' = IF m.type = "final" THEN final \cup {f} ELSE final
      /\ misheard' = IF m.type = "final" /\ Overtaken(m) # {} THEN misheard \cup {f} ELSE misheard
      /\ doCheck(list, ready, awaited', final', scan.state, reading)
      /\ UNCHANGED <<stored, propagator, scan, storing, given, expected>>
  BY DEF onForeignResponse, Takes, IsResponse
<1>2. /\ m \in ForeignResponses /\ f \in Foreign /\ m.refs \in SUBSET Refs
      /\ m \in Responses(f) /\ wire' \subseteq Messages
      /\ Overtaken(m) = Responses(f)'
      /\ \A h \in Foreign : Responses(h)' = Responses(h) \ {m}
      /\ \A h \in Foreign : h # f => Responses(h)' = Responses(h)
      /\ OnTheWay(f) \subseteq OnTheWay(f)' \cup m.refs
  BY <1>1, ResponseTaken
<1>3. WellFormed /\ ScanIsAhead /\ PrimaryIsListed /\ ExpectedAreAwaited
  BY DEF LiveInv
<1>4. Fresh(m.refs) \subseteq m.refs
  BY DEF Fresh
<1>5. ASSUME f \notin misheard, NEW r \in m.refs, r \in expected[f]
      PROVE  r \in Queried \cup list
  <2>1. CASE r \in Fresh(m.refs)
    BY <2>1
  <2>2. CASE r \notin Fresh(m.refs)
    <3>1. PICK x \in Queried : ~(x < r)
      BY <1>5, <2>2 DEF Fresh, Queried
    <3>2. x \in Int /\ r \in Int
      BY <1>2, <1>3, RefsAreInt DEF WellFormed, Queried
    <3>3. r <= x
      BY <3>1, <3>2
    <3>4. f \in Nodes
      BY <1>2, NodesSplit
    <3>5. r \in Queried
      BY <1>5, <3>3, <3>4 DEF LiveInv, NothingPassedOver
    <3> QED
      BY <3>5
  <2> QED
    BY <2>1, <2>2
<1>6. f \in misheard \/ f \notin final
  BY <1>2 DEF LiveInv, FinalIsLast
<1>7. \A h \in Foreign : FinalSent(h)' => FinalSent(h)
  BY <1>1, <1>2 DEF FinalSent
<1>8. misheard \subseteq misheard'
  BY <1>1
<1>9. f \in final' \ misheard' => FinalSent(f) /\ Responses(f)' = {} /\ OnTheWay(f)' = {}
  BY <1>1, <1>2, <1>6 DEF FinalSent, OnTheWay
<1>10. \A h \in Foreign \ misheard' : h \in final' => expected[h] \subseteq Queried \cup list
  <2> SUFFICES ASSUME NEW h \in Foreign \ misheard', h \in final'
               PROVE  expected[h] \subseteq Queried \cup list
    OBVIOUS
  <2>1. CASE h # f
    <3>1. h \in final
      BY <1>1, <2>1
    <3>2. expected[h] \subseteq Listed
      BY <1>8, <3>1, FinalIsListed
    <3> QED
      BY <3>2 DEF Listed
  <2>2. CASE h = f
    <3>1. Claimed(f) \subseteq Listed \cup OnTheWay(f)
      BY <1>8, <1>9, <2>2 DEF LiveInv, ListedOrToCome
    <3>2. expected[f] \subseteq Listed \cup m.refs
      BY <1>2, <1>9, <2>2, <3>1 DEF Claimed
    <3> QED
      BY <1>5, <1>8, <2>2, <3>2 DEF Listed
  <2> QED
    BY <2>1, <2>2
<1>11. list \in SUBSET Refs /\ items \subseteq list
  BY <1>2, <1>3, <1>4 DEF WellFormed
<1>12. expected[Primary] \subseteq Queried \cup list \cup scan'.left
  BY <1>1, <1>3 DEF PrimaryIsListed, Listed
<1> HIDE DEF list
<1>13. Grown(list, ready, reading)
  <2>1. /\ ready \in SUBSET Refs /\ reading \in SUBSET (SUBSET Refs)
        /\ stored' \in [Nodes -> SUBSET Refs] /\ scan.left \in SUBSET Refs
    BY <1>1, <1>3 DEF WellFormed
  <2>2. Queried = given' \cup UNION reading
    BY <1>1 DEF Queried
  <2>3. ready \cup scan'.left \subseteq stored'[Primary]
    BY <1>1, <1>3 DEF ScanIsAhead
  <2>4. \A y \in scan'.left : y \in Refs /\ \A x \in ready \cup Queried : x < y
    BY <1>1, <1>3, <2>1 DEF ScanIsAhead
  <2>5. scan'.state = "ended" => scan'.left = {}
    BY <1>1, <1>3 DEF ScanIsAhead
  <2>6. \A h \in Foreign : expected[h] # {} => h \in awaited'
    BY <1>1, <1>3 DEF ExpectedAreAwaited
  <2>7. expected' = expected /\ \A n \in Nodes : stored[n] \subseteq stored'[n]
    BY <1>1
  <2> QED
    BY <1>8, <1>10, <1>11, <1>12, <2>1, <2>2, <2>3, <2>4, <2>5, <2>6, <2>7 DEF Grown
<1>14. doCheck(list, ready, awaited', final', scan'.state, reading)
  BY <1>1
<1>15. /\ query' \in {"waiting", "ended"}
       /\ items' \subseteq Refs /\ ready' \subseteq Refs /\ reading' \subseteq SUBSET Refs
       /\ Queried \cup list \subseteq Listed'
       /\ AboutTheList'
       /\ query' = "ended" /\ scan'.state \in {"flowing", "ended"} => AnswerIsComplete'
  BY <1>13, <1>14, ListStep
<1>16. scan'.state \in {"flowing", "ended"}
  BY <1>1, <1>3 DEF WellFormed
<1>17. ASSUME query' = "waiting" PROVE LiveInv'
  <2>1. WellFormed'
    <3>1. final' \subseteq Foreign
      BY <1>1, <1>2, <1>3 DEF WellFormed
    <3> QED
      BY <1>1, <1>2, <1>3, <1>15, <3>1 DEF WellFormed
  <2>2. PropagationAfterScan'
    BY <1>1 DEF LiveInv, PropagationAfterScan
  <2>3. ~\E x \in wire : x.type = "request" /\ x.to = f
    BY <1>2 DEF LiveInv, RequestFirst
  <2>4. RequestFirst'
    BY <1>1, <1>2, <1>17, <2>3 DEF LiveInv, RequestFirst
  <2>5. \A h \in Foreign : ForeignScans(h)' <=> ForeignScans(h)
    BY <1>1 DEF ForeignScans
  <2>6. FinalIsLast'
    <3>1. \A h \in Foreign : ForeignScans(h)' => ~FinalSent(h)'
      BY <1>7, <2>5 DEF LiveInv, FinalIsLast
    <3>2. \A h \in Foreign : h # f /\ h \in final' \ misheard' => Responses(h)' = {}
      BY <1>1, <1>2, <1>8 DEF LiveInv, FinalIsLast
    <3> QED
      BY <1>9, <3>1, <3>2 DEF FinalIsLast
  <2>7. Listed \subseteq Listed'
    BY <1>11, <1>15 DEF Listed
  <2>8. ListedOrToCome'
    <3> SUFFICES ASSUME NEW h \in Foreign \ misheard'
                 PROVE  /\ ForeignScans(h)'
                           => Claimed(h)' \subseteq Listed' \cup OnTheWay(h)'
                                                      \cup propagator'[h].toRespond
                        /\ FinalSent(h)' => Claimed(h)' \subseteq Listed' \cup OnTheWay(h)'
      BY DEF ListedOrToCome
    <3>1. h \in Foreign \ misheard /\ Claimed(h)' = expected[h] /\ Claimed(h) = expected[h]
          /\ propagator'[h].toRespond = propagator[h].toRespond
      BY <1>1, <1>8, <1>17 DEF Claimed
    <3>2. /\ ForeignScans(h)
             => expected[h] \subseteq Listed \cup OnTheWay(h) \cup propagator[h].toRespond
          /\ FinalSent(h) => expected[h] \subseteq Listed \cup OnTheWay(h)
      BY <3>1 DEF LiveInv, ListedOrToCome
    <3>3. CASE h # f
      <4>1. OnTheWay(h)' = OnTheWay(h)
        BY <1>2, <3>3 DEF OnTheWay
      <4> QED
        BY <1>7, <2>5, <2>7, <3>1, <3>2, <4>1
    <3>4. CASE h = f
      <4>1. \A r \in expected[f] : r \in m.refs => r \in Listed'
        BY <1>5, <1>15, <3>1, <3>4
      <4> QED
        BY <1>2, <1>7, <2>5, <2>7, <3>1, <3>2, <3>4, <4>1
    <3> QED
      BY <3>3, <3>4
  <2> QED
    BY <1>15, <2>1, <2>2, <2>4, <2>6, <2>8, Parts DEF AboutTheWire
<1> QED
  BY <1>15, <1>16, <1>17 DEF Kept

\* The aggregator is created: the scan and the nodes online are to list all that is expected.
LEMMA AggregateStep ==
  ASSUME LiveInv, aggregate
  PROVE  LiveInv'
<1>1. WellFormed /\ BeforeTheAggregator
  BY DEF LiveInv
<1>2. /\ query = "publishing" /\ query' = "waiting"
      /\ scan' = [scan EXCEPT !.left = stored[Primary]]
      /\ UNCHANGED <<stored, wire, propagator, final, items, ready, reading, storing, given,
                     misheard>>
  BY DEF aggregate, listVars
<1>3. PICK onlineNodes \in SUBSET heard :
         /\ awaited' = onlineNodes
         /\ expected' = [n \in Nodes |-> IF n \in onlineNodes \cup {Primary}
                                         THEN stored[n] ELSE {}]
  BY DEF aggregate
<1>4. /\ stored \in [Nodes -> SUBSET Refs] /\ stored[Primary] \in SUBSET Refs
      /\ scan \in [left : SUBSET Refs, yielded : SUBSET Refs, state : {"flowing", "ended"}]
  BY <1>1, NodesSplit DEF WellFormed
<1>5. /\ expected' \in [Nodes -> SUBSET Refs]
      /\ \A n \in Nodes : expected'[n] \subseteq stored[n]
      /\ \A f \in Foreign : expected'[f] # {} => f \in awaited'
      /\ expected'[Primary] = stored[Primary]
  BY <1>3, <1>4, NodesSplit
<1>6. /\ scan'.left = stored[Primary] /\ scan'.state = scan.state
      /\ scan' \in [left : SUBSET Refs, yielded : SUBSET Refs, state : {"flowing", "ended"}]
  BY <1>2, <1>4
<1>7. /\ items = {} /\ ready = {} /\ reading = {} /\ given = {} /\ final = {}
      /\ scan.state = "flowing"
  BY <1>1, <1>2 DEF BeforeTheAggregator
<1>8. WellFormed'
  BY <1>1, <1>2, <1>5, <1>6 DEF WellFormed
<1>9. Queried' = {} /\ Queried = {} /\ Listed' = {} /\ Listed = {}
  BY <1>2, <1>7 DEF Queried, Listed
<1>10. AboutTheList'
  <2>1. BeforeTheAggregator' /\ ExpectedAreAwaited'
    BY <1>2, <1>5 DEF BeforeTheAggregator, ExpectedAreAwaited
  <2>2. ScanIsAhead'
    BY <1>2, <1>6, <1>7, <1>9 DEF ScanIsAhead
  <2>3. PrimaryIsListed' /\ NothingPassedOver'
    BY <1>5, <1>6, <1>9 DEF PrimaryIsListed, NothingPassedOver
  <2> QED
    BY <2>1, <2>2, <2>3 DEF AboutTheList
<1>11. PropagationAfterScan'
  BY <1>2, <1>6 DEF LiveInv, PropagationAfterScan
<1>12. \A f \in Foreign : /\ Responses(f)' = Responses(f) /\ OnTheWay(f)' = OnTheWay(f)
                          /\ FinalSent(f)' <=> FinalSent(f)
                          /\ ForeignScans(f)' <=> ForeignScans(f)
                          /\ Claimed(f)' \subseteq Claimed(f)
  <2> SUFFICES ASSUME NEW f \in Foreign
               PROVE  /\ Responses(f)' = Responses(f) /\ OnTheWay(f)' = OnTheWay(f)
                      /\ FinalSent(f)' <=> FinalSent(f)
                      /\ ForeignScans(f)' <=> ForeignScans(f)
                      /\ Claimed(f)' \subseteq Claimed(f)
    OBVIOUS
  <2>1. Responses(f)' = Responses(f)
    BY <1>2 DEF Responses
  <2>2. Claimed(f)' \subseteq Claimed(f)
    BY <1>2, <1>5, NodesSplit DEF Claimed
  <2> QED
    BY <1>2, <2>1, <2>2 DEF OnTheWay, FinalSent, ForeignScans
<1>13. RequestFirst' /\ FinalIsLast'
  BY <1>2, <1>12 DEF LiveInv, RequestFirst, FinalIsLast
<1>14. ListedOrToCome'
  BY <1>2, <1>9, <1>12 DEF LiveInv, ListedOrToCome
<1> QED
  BY <1>8, <1>10, <1>11, <1>13, <1>14, Parts DEF AboutTheWire

\* The request is published: no node has done anything yet.
LEMMA PublishStep ==
  ASSUME LiveInv, processQueryRequest
  PROVE  LiveInv'
<1>1. WellFormed /\ wire \subseteq Messages
  BY DEF LiveInv, WellFormed
<1>2. /\ query = "none" /\ query' = "publishing" /\ publish(Primary, "request", {})
      /\ UNCHANGED <<stored, propagator, scan, answers, listVars, storing, given, expected,
                     misheard>>
  BY DEF processQueryRequest, history
<1>3. \A x : x \in wire' <=> x \in wire \/ \E n \in Receivers(Primary) :
                                             x = Packet("request", {}, Primary, n)
  BY <1>2, Published
<1>4. \A n \in Receivers(Primary) : Packet("request", {}, Primary, n) \in Requests
  BY DEF Receivers, Packet, Requests
<1>5. \A m \in wire' : m \in wire \/ m \in Requests
  BY <1>3, <1>4
<1>6. wire' \subseteq Messages
  BY <1>1, <1>5 DEF Messages
<1>7. WellFormed'
  BY <1>1, <1>2, <1>6 DEF WellFormed, answers, listVars
<1>8. AboutTheList'
  BY <1>2 DEF LiveInv, AboutTheList, BeforeTheAggregator, ExpectedAreAwaited, ScanIsAhead,
              PrimaryIsListed, NothingPassedOver, Queried, Listed, answers, listVars
<1>9. PropagationAfterScan'
  BY <1>2, <1>5 DEF LiveInv, PropagationAfterScan, Requests, PrimaryResponses, Propagations
<1>10. \A f \in Foreign : propagator[f].state = "none" /\ f \notin final /\ Responses(f)' = {}
  <2>1. \A f \in Foreign : propagator[f].state = "none" /\ f \notin final /\ Responses(f) = {}
    BY <1>2 DEF LiveInv, RequestFirst
  <2>2. \A f \in Foreign : Responses(f)' \subseteq Responses(f)
    BY <1>5 DEF Responses, IsResponse, Requests
  <2> QED
    BY <2>1, <2>2
<1>11. RequestFirst' /\ FinalIsLast' /\ ListedOrToCome'
  BY <1>2, <1>10 DEF RequestFirst, FinalIsLast, ListedOrToCome, FinalSent, ForeignScans, answers
<1> QED
  BY <1>7, <1>8, <1>9, <1>11, Parts DEF AboutTheWire

-----------------------------------------------------------------------------
(* The theorem *)

\* A query that is over, or cannot be answered in full any more, stays so.
LEMMA OverStep ==
  ASSUME ~Alive, AnswerIsComplete, Next
  PROVE  ~Alive' /\ AnswerIsComplete'
<1>1. ASSUME query' = query, scan' = scan, UNCHANGED <<given, expected, misheard>>
      PROVE  ~Alive' /\ AnswerIsComplete'
  BY <1>1 DEF Alive, AnswerIsComplete
<1>2. ASSUME query' \notin {"none", "publishing", "waiting", "ended"}
      PROVE  ~Alive' /\ AnswerIsComplete'
  BY <1>2 DEF Alive, AnswerIsComplete
<1>3. ASSUME query = "waiting", query' \in {"waiting", "ended"}, scan' = scan
      PROVE  ~Alive' /\ AnswerIsComplete'
  BY <1>3 DEF Alive, AnswerIsComplete
<1>4. ASSUME NEW list, NEW isReady, NEW running,
             doCheck(list, isReady, awaited', final', scan.state, running)
      PROVE  query' \in {query, "ended"}
  BY <1>4 DEF doCheck
<1>5. ASSUME NEW list, NEW isReady, NEW running,
             doCheck(list, isReady, awaited, final, scan.state, running)
      PROVE  query' \in {query, "ended"}
  BY <1>5 DEF doCheck
<1>6. CASE aggregate \/ processQueryRequest \/ PublishFailed
  BY <1>6 DEF aggregate, processQueryRequest, PublishFailed, Alive
<1>7. CASE ScanEnd \/ ScanError \/ \E r \in scan.left : ScanData(r)
  <2>1. Scanning
    BY <1>7 DEF ScanEnd, ScanError, ScanData
  <2>2. query = "closed"
    BY <2>1 DEF Scanning, Alive
  <2>3. query' = query
    BY <1>7, <2>2 DEF ScanEnd, ScanError, ScanData
  <2> QED
    BY <1>2, <2>2, <2>3
<1>8. CASE \E range \in reading : QueryEnd(range)
  <2>1. query = "waiting" /\ query' \in {"waiting", "ended"} /\ scan' = scan
    BY <1>5, <1>8 DEF QueryEnd
  <2> QED
    BY <1>3, <2>1
<1>9. CASE \E m \in wire : onForeignResponse(m)
  <2>1. query = "waiting"
    BY <1>9 DEF onForeignResponse, Listens, Alive
  <2>2. query' \in {"waiting", "ended"} /\ scan' = scan
    BY <1>4, <1>9, <2>1 DEF onForeignResponse
  <2> QED
    BY <1>3, <2>1, <2>2
<1>10. CASE \E m \in wire : onPropagation(m)
  <2>1. query = "waiting" /\ query' \in {"waiting", "ended"} /\ scan' = scan
    BY <1>5, <1>10 DEF onPropagation
  <2> QED
    BY <1>3, <2>1
<1>11. CASE \E p \in storing : \E r \in p.left : StoreDone(p, r)
  <2>1. query = "waiting" /\ query' \in {"waiting", "ended"} /\ scan' = scan
    BY <1>5, <1>11 DEF StoreDone
  <2> QED
    BY <1>3, <2>1
<1>12. CASE ClientGone \/ PrimaryExit
  BY <1>2, <1>12 DEF ClientGone, PrimaryExit
<1>13. CASE \E m \in wire : onQueryRequest(m) \/ onPrimaryResponse(m)
  BY <1>1, <1>13 DEF onQueryRequest, onPrimaryResponse
<1>14. CASE \E f \in Foreign : \/ StartHeartbeat(f) \/ StartManagers(f) \/ Beat(f)
                               \/ Stop(f) \/ Stopped(f) \/ Crash(f)
  BY <1>1, <1>14 DEF StartHeartbeat, StartManagers, Beat, Stop, Stopped, Crash, Gone, history
<1>15. CASE \E f \in Foreign :
               \/ RespondFinal(f) \/ PropagateEnd(f) \/ ForeignScanError(f) \/ PropagateError(f)
               \/ \E refs \in SUBSET propagator[f].toRespond : RespondPart(f, refs)
               \/ \E refs \in SUBSET propagator[f].toPropagate : PropagateEarly(f, refs)
  BY <1>1, <1>15 DEF RespondFinal, PropagateEnd, ForeignScanError, PropagateError, RespondPart,
                     PropagateEarly, history
<1> QED
  BY <1>6, <1>7, <1>8, <1>9, <1>10, <1>11, <1>12, <1>13, <1>14, <1>15 DEF Next, Steps

\* A step of a query that is alive keeps the invariant, and if it ends the answer, that is
\* complete.
LEMMA AliveStep ==
  ASSUME Alive, LiveInv, Next
  PROVE  (Alive' => LiveInv') /\ AnswerIsComplete'
<1>1. query \in {"none", "publishing", "waiting"}
  BY DEF Alive
<1>2. ASSUME Kept PROVE (Alive' => LiveInv') /\ AnswerIsComplete'
  BY <1>2 DEF Kept, Alive, AnswerIsComplete
<1>3. ASSUME LiveInv', query' # "ended" PROVE (Alive' => LiveInv') /\ AnswerIsComplete'
  BY <1>3 DEF AnswerIsComplete
<1>4. ASSUME query' \notin {"none", "publishing", "waiting", "ended"}
      PROVE  (Alive' => LiveInv') /\ AnswerIsComplete'
  BY <1>4 DEF Alive, AnswerIsComplete
<1>5. CASE aggregate
  BY <1>3, <1>5, AggregateStep DEF aggregate
<1>6. CASE processQueryRequest
  BY <1>3, <1>6, PublishStep DEF processQueryRequest
<1>7. CASE PublishFailed \/ ClientGone \/ PrimaryExit
  BY <1>4, <1>7 DEF PublishFailed, ClientGone, PrimaryExit
<1>8. CASE ScanEnd \/ ScanError \/ \E r \in scan.left : ScanData(r)
  <2>1. query = "waiting"
    BY <1>1, <1>8 DEF ScanEnd, ScanError, ScanData, Scanning
  <2>2. CASE ScanEnd
    BY <1>2, <2>1, <2>2, ScanEndStep
  <2>3. CASE ScanError
    <3>1. scan'.state = "failed" /\ query' = "waiting"
      BY <2>1, <2>3 DEF LiveInv, WellFormed, ScanError
    <3> QED
      BY <3>1 DEF Alive, AnswerIsComplete
  <2>4. CASE \E r \in scan.left : ScanData(r)
    BY <1>2, <2>1, <2>4, ScanDataStep
  <2> QED
    BY <1>8, <2>2, <2>3, <2>4
<1>9. CASE \E range \in reading : QueryEnd(range)
  BY <1>2, <1>9, QueryEndStep
<1>10. CASE \E m \in wire : onForeignResponse(m)
  <2>1. query \in {"publishing", "waiting"}
    BY <1>10 DEF onForeignResponse, Listens
  <2> QED
    BY <1>2, <1>10, <2>1, EarlyResponseStep, ResponseStep
<1>11. CASE \E m \in wire : onPropagation(m)
  BY <1>2, <1>11, PropagationStep
<1>12. CASE \E p \in storing : \E r \in p.left : StoreDone(p, r)
  BY <1>2, <1>12, StoreStep
<1>13. CASE \E m \in wire : onQueryRequest(m)
  BY <1>1, <1>3, <1>13, RequestStep DEF onQueryRequest
<1>14. CASE \E m \in wire : onPrimaryResponse(m)
  BY <1>1, <1>3, <1>14, PrimaryResponseStep DEF onPrimaryResponse
<1>15. CASE \E f \in Foreign : StartHeartbeat(f) \/ StartManagers(f) \/ Beat(f) \/ Stop(f)
  <2>1. UNCHANGED <<stored, wire, propagator, query, scan, answers, listVars, storing, given,
                    expected, misheard>>
    BY <1>15 DEF StartHeartbeat, StartManagers, Beat, Stop, history
  <2> QED
    BY <1>1, <1>3, <2>1, NodeStep
<1>16. CASE \E f \in Foreign : Stopped(f) \/ Crash(f)
  <2>1. PICK f \in Foreign : Gone(f)
    BY <1>16 DEF Stopped, Crash
  <2>2. query' = query
    BY <2>1 DEF Gone
  <2> QED
    BY <1>1, <1>3, <2>1, <2>2, GoneStep
<1>17. CASE \E f \in Foreign :
               \/ ForeignScanError(f) \/ PropagateEnd(f) \/ PropagateError(f)
               \/ \E refs \in SUBSET propagator[f].toPropagate : PropagateEarly(f, refs)
  <2>1. query' = query
    BY <1>17 DEF ForeignScanError, PropagateEnd, PropagateError, PropagateEarly
  <2> QED
    BY <1>1, <1>3, <1>17, <2>1, PropagatorEnds
<1>18. CASE \E f \in Foreign :
               \/ RespondFinal(f)
               \/ \E refs \in SUBSET propagator[f].toRespond : RespondPart(f, refs)
  <2>1. query' = query
    BY <1>18 DEF RespondFinal, RespondPart
  <2> QED
    BY <1>1, <1>3, <1>18, <2>1, RespondStep
<1> QED
  BY <1>5, <1>6, <1>7, <1>8, <1>9, <1>10, <1>11, <1>12, <1>13, <1>14, <1>15, <1>16, <1>17, <1>18
  DEF Next, Steps

\* AnswerIsComplete: when the answer of a query ends, the client has every message that the
\* primary or a node online held, whatever responses, propagations, stores and queries overtake
\* each other and whatever nodes start, stop, crash and fail meanwhile, in a network of any
\* size.  Excepted are a failed scan of the primary's store, and the messages of a node of
\* whose responses one was dropped or overtaken by the last (Aggregator.ts 142-153, 177-226).
THEOREM AnswerTheorem == Spec => []AnswerIsComplete
<1>1. Init => IInv
  <2> SUFFICES ASSUME Init PROVE IInv
    OBVIOUS
  <2>1. WellFormed
    <3>1. NoPropagator \in PropagatorType
      BY DEF NoPropagator, PropagatorType
    <3> QED
      BY <3>1 DEF Init, WellFormed
  <2>2. wire = {} /\ query = "none" /\ final = {} /\ items = {} /\ ready = {} /\ reading = {}
        /\ given = {} /\ storing = {} /\ scan = [left |-> {}, yielded |-> {}, state |-> "flowing"]
    BY DEF Init
  <2>3. \A f \in Foreign : propagator[f].state = "none" /\ propagator[f].primary = "awaited"
    BY DEF Init, NoPropagator
  <2>4. BeforeTheAggregator /\ PrimaryIsListed /\ NothingPassedOver
    BY <2>2 DEF BeforeTheAggregator, PrimaryIsListed, NothingPassedOver
  <2>5. ScanIsAhead /\ PropagationAfterScan
    BY <2>2, <2>3 DEF ScanIsAhead, PropagationAfterScan
  <2>6. ExpectedAreAwaited
    BY DEF Init, ExpectedAreAwaited
  <2>7. RequestFirst /\ FinalIsLast /\ ListedOrToCome
    BY <2>2, <2>3 DEF RequestFirst, FinalIsLast, ListedOrToCome, FinalSent, Responses,
                      ForeignScans
  <2> QED
    BY <2>1, <2>2, <2>4, <2>5, <2>6, <2>7 DEF IInv, LiveInv, AnswerIsComplete
<1>2. IInv /\ [Next]_vars => IInv'
  <2> SUFFICES ASSUME IInv, [Next]_vars PROVE IInv'
    OBVIOUS
  <2>1. CASE UNCHANGED vars
    <3>1. UNCHANGED <<stored, wire, propagator, query, scan, answers, listVars, storing, given,
                      expected, misheard>>
      BY <2>1 DEF vars, history
    <3>2. Alive' => LiveInv'
      BY <3>1, NodeStep DEF IInv, Alive
    <3> QED
      BY <3>1, <3>2 DEF IInv, AnswerIsComplete
  <2>2. CASE Next
    BY <2>2, OverStep, AliveStep DEF IInv
  <2> QED
    BY <2>1, <2>2
<1>3. IInv => AnswerIsComplete
  BY DEF IInv
<1> QED
  BY <1>1, <1>2, <1>3, PTL DEF Spec
=============================================================================
