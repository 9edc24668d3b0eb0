------------------------------ MODULE NodeStreams ------------------------------
(***************************************************************************)
(* Which streams the node validates, and which messages it stores: the     *)
(* callbacks of the configuration (LogStoreNetworkPlugin and its           *)
(* standalone counterpart), NodeStreamsRegistry, ValidationSchemaManager,  *)
(* MessageListener and MessageProcessor, with start() and stop() of        *)
(* LogStorePlugin.                                                         *)
(*                                                                         *)
(* An addition of a stream part waits for its neighbours (joining), then   *)
(* for getStream (fetching), and only then registers its STREAM.  A        *)
(* registered stream has a subscription that polls its metadata for a      *)
(* schema.  The map of subscriptions has one entry per stream (tracked);   *)
(* a subscription that is replaced there lives on (leaked).                *)
(***************************************************************************)
EXTENDS Integers, FiniteSets

CONSTANTS
    Streams,        \* stream ids
    StreamParts,    \* stream part ids
    StreamOf,       \* StreamPartIDUtils.getStreamID, a function on StreamParts
    Messages,       \* messages that arrive, each at most once
    Kind,           \* what each message is, a function on Messages (MessageKinds)
    MaxChanges,     \* bound: assignment changes
    MaxUpdates      \* bound: metadata updates

\* "other": not of type MESSAGE; "encrypted" content is not validated; plain content
\* has what the schema asks for ("good", or "event" if it names a chain and a channel
\* of a program too) or not ("bad").
MessageKinds == [part : StreamParts, content : {"other", "encrypted", "good", "event", "bad"}]

ASSUME NodeStreamsAssumption ==
    /\ StreamOf \in [StreamParts -> Streams]
    /\ Kind \in [Messages -> MessageKinds]
    /\ MaxChanges \in Nat /\ MaxUpdates \in Nat

VARIABLES
    phase,       \* "config", "registering", "listening", "stopped" or "exited"
    assigned,    \* the stream parts of the configuration
    changes,     \* how often they have changed
    joining,     \* additions waiting in node.join, per stream part
    fetching,    \* registrations waiting in getStream, per stream
    registered,  \* registeredStreams
    tracked,     \* streamSubscriptionsMap: "none", "live" or "completed"
    leaked,      \* live subscriptions that are not in that map, per stream
    schema,      \* schemaMap: "none", "schema" or "invalid" (InvalidSchemaError)
    metadata,    \* what the metadata of the stream holds
    updates,     \* how often metadata has been updated
    message,     \* where each message is
    programs,    \* a program has been created (there is one channel)
    history      \* what happened to each stream; only the properties read it

vars == <<phase, assigned, changes, joining, fetching, registered, tracked, leaked,
          schema, metadata, updates, message, programs, history>>
assignmentVars == <<assigned, changes, joining>>
schemaVars == <<tracked, leaked, schema>>
chainVars == <<metadata, updates>>
messageVars == <<message, programs>>

\* failed: an addition timed out or getStream failed; partial: a part was removed
\* while another stayed; overlapped: a part was removed while an addition was under
\* way; raced: two registrations were under way; current: the metadata has been
\* applied since it, or the registration, changed.
Events == {"failed", "partial", "overlapped", "raced", "current"}

TypeOK ==
    /\ phase \in {"config", "registering", "listening", "stopped", "exited"}
    /\ assigned \subseteq StreamParts
    /\ changes \in 0 .. MaxChanges
    /\ joining \in [StreamParts -> 0 .. MaxChanges + 1]
    /\ fetching \in [Streams -> Nat]
    /\ registered \subseteq Streams
    /\ tracked \in [Streams -> {"none", "live", "completed"}]
    /\ leaked \in [Streams -> Nat]
    /\ schema \in [Streams -> {"none", "schema", "invalid"}]
    /\ metadata \in [Streams -> {"none", "schema", "invalid"}]
    /\ updates \in 0 .. MaxUpdates
    /\ message \in [Messages -> {"new", "ignored", "rejected", "storing",
                                 "stored", "processing", "published"}]
    /\ programs \in BOOLEAN
    /\ history \in [Streams -> SUBSET Events]

PartsOf(s) == {p \in StreamParts : StreamOf[p] = s}
Note(s, events) == history' = [history EXCEPT ![s] = @ \cup events]
Forget(s) == [history EXCEPT ![s] = @ \ {"current"}]

Alive == phase # "exited"
Exit == phase' = "exited"

\* In network mode nothing is assigned when the plugin starts; in standalone mode the
\* configuration is fixed and its constructor adds every part of the tracked streams.
Init ==
    /\ phase = "config"
    /\ \/ assigned = {} /\ changes = 0 /\ joining = [p \in StreamParts |-> 0]
       \/ assigned = StreamParts /\ changes = MaxChanges
          /\ joining = [p \in StreamParts |-> 1]
    /\ fetching = [s \in Streams |-> 0]
    /\ registered = {}
    /\ tracked = [s \in Streams |-> "none"]
    /\ leaked = [s \in Streams |-> 0]
    /\ schema = [s \in Streams |-> "none"]
    /\ metadata \in [Streams -> {"none", "schema", "invalid"}]
    /\ updates = 0
    /\ message = [m \in Messages |-> "new"]
    /\ programs = FALSE
    /\ history = [s \in Streams |-> {}]

-----------------------------------------------------------------------------
(* ValidationSchemaManager *)

\* Another subscription for a stream takes the place of the tracked one, which is
\* not unsubscribed.
handleStreamRegister(S) ==
    /\ leaked' = [s \in Streams |->
                    IF s \in S /\ tracked[s] = "live" THEN leaked[s] + 1 ELSE leaked[s]]
    /\ tracked' = [s \in Streams |-> IF s \in S THEN "live" ELSE tracked[s]]
    /\ UNCHANGED schema

\* Mutant: the subscription is forgotten but not unsubscribed.
forgetSubscription(S) ==
    /\ leaked' = [s \in Streams |->
                    IF s \in S /\ tracked[s] = "live" THEN leaked[s] + 1 ELSE leaked[s]]
    /\ tracked' = [s \in Streams |-> IF s \in S THEN "none" ELSE tracked[s]]
    /\ schema' = [s \in Streams |-> IF s \in S THEN "none" ELSE schema[s]]

\* Mutant: what is unsubscribed is one of the subscriptions outside the map.
unsubscribeOther(S) ==
    /\ tracked' = [s \in Streams |-> IF s \in S THEN "none" ELSE tracked[s]]
    /\ leaked' = [s \in Streams |-> IF s \in S THEN leaked[s] - 1 ELSE leaked[s]]
    /\ UNCHANGED schema

handleStreamUnregister(S) ==
    /\ tracked' = [s \in Streams |-> IF s \in S THEN "none" ELSE tracked[s]]
    /\ schema' = [s \in Streams |-> IF s \in S THEN "none" ELSE schema[s]]
    /\ UNCHANGED leaked

\* Mutant: a stream that has lost its schema keeps the old one.
keepSchema(s) == IF metadata[s] = "none" THEN schema[s] ELSE metadata[s]

\* What a poll puts into schemaMap; a schema that was deleted is deleted here too.
newSchema(s) == metadata[s]

\* A poll of the metadata.  catchError replaces the observable by one value or by
\* none, and either completes: an invalid schema, or a poll that fails, is the last
\* thing this subscription ever says.
SchemaPoll(s) ==
    /\ Alive
    /\ \/ tracked[s] = "live" /\ UNCHANGED leaked
          /\ tracked' = [tracked EXCEPT ![s] = IF metadata[s] = "invalid" THEN "completed" ELSE @]
       \/ leaked[s] > 0 /\ UNCHANGED tracked
          /\ leaked' = [leaked EXCEPT ![s] = IF metadata[s] = "invalid" THEN @ - 1 ELSE @]
    /\ schema' = [schema EXCEPT ![s] = newSchema(s)]
    /\ Note(s, {"current"})
    /\ UNCHANGED <<phase, assignmentVars, fetching, registered, chainVars, messageVars>>

SchemaPollFailed(s) ==
    /\ Alive
    /\ \/ tracked[s] = "live" /\ tracked' = [tracked EXCEPT ![s] = "completed"]
          /\ UNCHANGED leaked
       \/ leaked[s] > 0 /\ leaked' = [leaked EXCEPT ![s] = @ - 1] /\ UNCHANGED tracked
    /\ UNCHANGED <<phase, assignmentVars, fetching, registered, schema, chainVars,
                   messageVars, history>>

\* ajv.compile refuses a schema the client has taken for valid: it throws in the subscriber,
\* which nobody handles.
SchemaCompileFailed(s) ==
    /\ Alive /\ metadata[s] = "schema" /\ (tracked[s] = "live" \/ leaked[s] > 0)
    /\ Exit
    /\ UNCHANGED <<assignmentVars, fetching, registered, schemaVars, chainVars, messageVars,
                   history>>

\* The owner of the stream sets or removes a schema: from here on polls answer with it.
UpdateMetadata(s) ==
    /\ updates < MaxUpdates
    /\ \E v \in {"none", "schema", "invalid"} \ {metadata[s]} :
          metadata' = [metadata EXCEPT ![s] = v]
    /\ updates' = updates + 1
    /\ history' = Forget(s)
    /\ UNCHANGED <<phase, assignmentVars, fetching, registered, schemaVars, messageVars>>

-----------------------------------------------------------------------------
(* NodeStreamsRegistry and the callbacks of the configuration *)

\* The schema manager hears of registrations from its start() to its stop(), and of
\* unregistrations from then on for ever: stop() takes off another function.
HearsRegister == phase \in {"registering", "listening"}
HearsUnregister == phase \in {"registering", "listening", "stopped"}

\* The first part of registerStreamId, up to its await.
startRegistration(s) ==
    IF s \in registered THEN UNCHANGED <<fetching, history>>
    ELSE /\ fetching' = [fetching EXCEPT ![s] = @ + 1]
         /\ Note(s, IF fetching[s] > 0 THEN {"raced"} ELSE {})

\* The rest of registerStreamId, with the emit.
finishRegistration(s) ==
    /\ registered' = registered \cup {s}
    /\ IF HearsRegister THEN handleStreamRegister({s}) ELSE UNCHANGED schemaVars

unregisterStreamIds(S) ==
    /\ registered' = registered \ S
    /\ IF HearsUnregister THEN handleStreamUnregister(S \cap registered)
                          ELSE UNCHANGED schemaVars

\* The configuration calls its listener for one part of a diff.  A poll or an event
\* under way when the plugin stops still does so.
onStreamPartAdded(p) ==
    /\ Alive /\ changes < MaxChanges /\ p \notin assigned
    /\ assigned' = assigned \cup {p}
    /\ changes' = changes + 1
    /\ joining' = [joining EXCEPT ![p] = @ + 1]
    /\ UNCHANGED <<phase, fetching, registered, schemaVars, chainVars, messageVars, history>>

\* node.join has found a neighbour.
Joined(p) ==
    /\ Alive /\ joining[p] > 0
    /\ joining' = [joining EXCEPT ![p] = @ - 1]
    /\ startRegistration(StreamOf[p])
    /\ UNCHANGED <<phase, assigned, changes, registered, schemaVars, chainVars, messageVars>>

\* node.join rejects after 5 seconds: the catch ends the addition, unregistered.
JoinTimedOut(p) ==
    /\ Alive /\ joining[p] > 0
    /\ joining' = [joining EXCEPT ![p] = @ - 1]
    /\ Note(StreamOf[p], {"failed"})
    /\ UNCHANGED <<phase, assigned, changes, fetching, registered, schemaVars, chainVars,
                   messageVars>>

GetStreamDone(s) ==
    /\ Alive /\ fetching[s] > 0
    /\ fetching' = [fetching EXCEPT ![s] = @ - 1]
    /\ finishRegistration(s)
    /\ history' = Forget(s)
    /\ UNCHANGED <<phase, assignmentVars, chainVars, messageVars>>

GetStreamFailed(s) ==
    /\ Alive /\ fetching[s] > 0
    /\ fetching' = [fetching EXCEPT ![s] = @ - 1]
    /\ Note(s, {"failed"})
    /\ UNCHANGED <<phase, assignmentVars, registered, schemaVars, chainVars, messageVars>>

\* Mutant: nothing is unregistered.
leaveOnly(s) == UNCHANGED <<registered, schemaVars>>

\* onStreamPartRemoved: the whole stream is unregistered, whatever its other parts.
unregisterStreamId(s) == unregisterStreamIds({s})

onStreamPartRemoved(p) ==
    LET s == StreamOf[p]
        rest == (assigned \ {p}) \cap PartsOf(s)
        underWay == fetching[s] > 0 \/ \E q \in PartsOf(s) : joining[q] > 0 IN
    /\ Alive /\ changes < MaxChanges /\ p \in assigned
    /\ assigned' = assigned \ {p}
    /\ changes' = changes + 1
    /\ unregisterStreamId(s)
    /\ history' = [Forget(s) EXCEPT ![s] = @ \cup (IF rest # {} THEN {"partial"} ELSE {})
                                              \cup (IF underWay THEN {"overlapped"} ELSE {})]
    /\ UNCHANGED <<phase, joining, fetching, chainVars, messageVars>>

-----------------------------------------------------------------------------
(* LogStorePlugin *)

\* start(), after the configuration: the schema manager, which begins with the streams
\* that are registered already, then storage, then the message listener.
StartValidation ==
    /\ phase = "config"
    /\ phase' = "registering"
    /\ handleStreamRegister(registered)
    /\ UNCHANGED <<assignmentVars, fetching, registered, chainVars, messageVars, history>>

StartListener ==
    /\ phase = "registering"
    /\ phase' = "listening"
    /\ UNCHANGED <<assignmentVars, fetching, registered, schemaVars, chainVars, messageVars, history>>

\* stop(): clear() unregisters every stream while its events are still heard; then the
\* schema manager processes the registered streams, of which there are none.
stop ==
    /\ phase = "listening"
    /\ phase' = "stopped"
    /\ unregisterStreamIds(registered)
    /\ history' = [s \in Streams |-> history[s] \ {"current"}]
    /\ UNCHANGED <<assignmentVars, fetching, chainVars, messageVars>>

-----------------------------------------------------------------------------
(* MessageListener and MessageProcessor *)

StreamOfMessage(m) == StreamOf[Kind[m].part]

\* Mutant: an invalid schema is treated like none.
validateLeniently(m) ==
    \/ Kind[m].content = "encrypted"
    \/ schema[StreamOfMessage(m)] \in {"none", "invalid"}
    \/ Kind[m].content # "bad"

\* createValidationHandler
validateMessage(m) ==
    \/ Kind[m].content = "encrypted"
    \/ schema[StreamOfMessage(m)] = "none"
    \/ schema[StreamOfMessage(m)] = "schema" /\ Kind[m].content # "bad"

\* onStreamMessage up to its await.  The listener stays on the node after stop(),
\* which removes another function.
onStreamMessage(m) ==
    /\ phase \in {"listening", "stopped"}
    /\ message[m] = "new"
    /\ \/ /\ Kind[m].content = "other" \/ Kind[m].part \notin assigned
          /\ message' = [message EXCEPT ![m] = "ignored"]
          /\ UNCHANGED phase
       \/ /\ Kind[m].content # "other" /\ Kind[m].part \in assigned
          /\ validateMessage(m)
          /\ message' = [message EXCEPT ![m] = "storing"]
          /\ UNCHANGED phase
       \/ /\ Kind[m].content # "other" /\ Kind[m].part \in assigned
          /\ ~validateMessage(m)
          /\ message' = [message EXCEPT ![m] = "rejected"]
          /\ UNCHANGED phase \/ Exit          \* publishValidationErrors may fail
    /\ UNCHANGED <<assignmentVars, fetching, registered, schemaVars, chainVars, programs, history>>

\* store() answers: the message is emitted, unless stop() has removed all listeners,
\* and processed further if it names a channel.
MessageStored(m) ==
    /\ Alive /\ message[m] = "storing"
    /\ message' = [message EXCEPT ![m] =
                     IF Kind[m].content = "event" /\ phase # "stopped" THEN "processing"
                                                                       ELSE "stored"]
    /\ UNCHANGED <<phase, assignmentVars, fetching, registered, schemaVars, chainVars, programs, history>>

\* store() is rejected and nobody catches it.
StoreFailed(m) ==
    /\ Alive /\ message[m] = "storing"
    /\ Exit
    /\ UNCHANGED <<assignmentVars, fetching, registered, schemaVars, chainVars, messageVars, history>>

\* getProgram finds, creates or fails to create the program; whatever fails is logged.
process(m) ==
    /\ Alive /\ message[m] = "processing"
    /\ \/ programs' = TRUE /\ message' = [message EXCEPT ![m] = "published"]
       \/ programs' \in {programs, TRUE} /\ message' = [message EXCEPT ![m] = "stored"]
    /\ UNCHANGED <<phase, assignmentVars, fetching, registered, schemaVars, chainVars, history>>

-----------------------------------------------------------------------------

Next ==
    \/ StartValidation \/ StartListener \/ stop
    \/ \E p \in StreamParts : onStreamPartAdded(p) \/ onStreamPartRemoved(p)
                              \/ Joined(p) \/ JoinTimedOut(p)
    \/ \E s \in Streams : GetStreamDone(s) \/ GetStreamFailed(s) \/ UpdateMetadata(s)
                          \/ SchemaPoll(s) \/ SchemaPollFailed(s) \/ SchemaCompileFailed(s)
    \/ \E m \in Messages : onStreamMessage(m) \/ MessageStored(m) \/ StoreFailed(m) \/ process(m)

\* node.join has a timeout, getStream answers or fails, start() goes on, and a
\* subscription polls every minute.  Assignments, messages and failures need not come.
Fairness ==
    /\ WF_vars(StartValidation \/ StartListener)
    /\ \A p \in StreamParts : WF_vars(Joined(p) \/ JoinTimedOut(p))
    /\ \A s \in Streams : /\ WF_vars(GetStreamDone(s) \/ GetStreamFailed(s))
                          /\ WF_vars(SchemaPoll(s))

Spec == Init /\ [][Next]_vars /\ Fairness

-----------------------------------------------------------------------------
(* Properties *)

IsAssigned(s) == assigned \cap PartsOf(s) # {}
Settled(s) == fetching[s] = 0 /\ \A p \in PartsOf(s) : joining[p] = 0

\* Registry and configuration agree once the additions of a stream are over: a stream
\* is registered without an assigned part only if a removal overlapped an addition, and
\* an assigned stream is unregistered only if an addition failed (node.join timed out,
\* getStream was rejected) or if the removal of another of its parts unregistered it.
RegistrationFollowsAssignment ==
    phase \in {"registering", "listening"} =>
      \A s \in Streams : Settled(s) =>
        /\ s \in registered /\ ~IsAssigned(s) => "overlapped" \in history[s]
        /\ IsAssigned(s) /\ s \notin registered => history[s] \cap {"failed", "partial"} # {}

\* Across start(), registrations, unregistrations and stop(), exactly the registered
\* streams have a subscription in the map, after stop() none has, and a subscription or a
\* schema outlives its stream only if two registrations of the stream were under way
\* at once (registerStreamId checks before its await and sets after it).
SubscriptionsFollowRegistry ==
    /\ HearsRegister => \A s \in Streams : tracked[s] # "none" <=> s \in registered
    /\ phase = "stopped" => \A s \in Streams : tracked[s] = "none"
    /\ \A s \in Streams :
         /\ schema[s] # "none" => tracked[s] # "none" \/ "raced" \in history[s]
         /\ leaked[s] > 0 => "raced" \in history[s]

\* Plain content that the stream's schema refuses, and any plain content under an invalid schema,
\* is not stored once the metadata in force has been polled for the registered stream.
NonconformingIsKeptOut ==
    [][\A m \in Messages :
         LET s == StreamOfMessage(m) IN
         /\ message[m] = "new" /\ message'[m] = "storing"
         /\ s \in registered /\ "current" \in history[s]
         => \/ Kind[m].content = "encrypted"
            \/ metadata[s] = "none"
            \/ metadata[s] = "schema" /\ Kind[m].content # "bad"]_vars

\* In the end the node applies the metadata of every assigned stream, unless an addition
\* failed, another part was removed, or an invalid schema or a failed poll has
\* completed the stream's subscription.
EventuallyValidated ==
    <>[](phase = "listening" =>
           \A s \in Streams :
             /\ IsAssigned(s) /\ history[s] \cap {"failed", "partial"} = {}
             /\ tracked[s] # "completed"
             => schema[s] = metadata[s])
=============================================================================
