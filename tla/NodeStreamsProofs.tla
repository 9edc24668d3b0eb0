--------------------------- MODULE NodeStreamsProofs ---------------------------
(***************************************************************************)
(* What module NodeStreams claims of registry, schemas and messages, for   *)
(* any streams, stream parts and messages and any number of changes.       *)
(***************************************************************************)
EXTENDS NodeStreams, TLAPS

\* Every addition under way was made by a change, or by the constructor of the
\* standalone configuration.
JoiningBounded == \A p \in StreamParts : joining[p] <= changes + 1

\* Two registrations of a stream were under way at once whenever one is under way while
\* the stream is registered, or while another is: registerStreamId only starts one for a
\* stream that is not registered.
RaceIsNoted ==
    \A s \in Streams :
      fetching[s] > 1 \/ (fetching[s] > 0 /\ s \in registered) => "raced" \in history[s]

\* Before its start() the schema manager has heard of nothing.
SilentBeforeStart ==
    phase = "config" => \A s \in Streams : tracked[s] = "none"

UnderWay(s) == fetching[s] > 0 \/ \E p \in PartsOf(s) : joining[p] > 0

\* Whatever is, or is still to be, registered is assigned, or was removed meanwhile; and
\* what is assigned is, or is to be, registered, unless something went wrong.
RegistrationIsPending ==
    \A s \in Streams :
      /\ (s \in registered \/ UnderWay(s)) /\ ~IsAssigned(s) => "overlapped" \in history[s]
      /\ phase \in {"config", "registering", "listening"} /\ IsAssigned(s)
         => s \in registered \/ UnderWay(s) \/ history[s] \cap {"failed", "partial"} # {}

\* What has been applied is what is in force.
CurrentIsApplied ==
    \A s \in Streams : "current" \in history[s] => schema[s] = metadata[s]

IInv ==
    /\ TypeOK
    /\ JoiningBounded
    /\ RaceIsNoted
    /\ SilentBeforeStart
    /\ SubscriptionsFollowRegistry
    /\ RegistrationIsPending
    /\ CurrentIsApplied

-----------------------------------------------------------------------------
(* The steps of each action *)

\* The initial states, of network and of standalone mode, satisfy all of it.
LEMMA InitIInv == Init => IInv
<1> SUFFICES ASSUME Init PROVE IInv
  OBVIOUS
<1> USE NodeStreamsAssumption
<1>1. TypeOK
  <2>1. /\ assigned \subseteq StreamParts /\ changes \in 0 .. MaxChanges
        /\ joining \in [StreamParts -> 0 .. MaxChanges + 1]
    BY DEF Init
  <2>2. /\ fetching \in [Streams -> Nat] /\ leaked \in [Streams -> Nat]
        /\ updates \in 0 .. MaxUpdates /\ registered \subseteq Streams
    BY DEF Init
  <2>3. /\ programs \in BOOLEAN /\ history \in [Streams -> SUBSET Events]
        /\ tracked \in [Streams -> {"none", "live", "completed"}]
        /\ schema \in [Streams -> {"none", "schema", "invalid"}]
    BY DEF Init
  <2> QED
    BY <2>1, <2>2, <2>3 DEF Init, TypeOK
<1>2. JoiningBounded
  BY DEF Init, JoiningBounded
<1>3. RaceIsNoted /\ SilentBeforeStart /\ CurrentIsApplied
  BY DEF Init, RaceIsNoted, SilentBeforeStart, CurrentIsApplied
<1>4. SubscriptionsFollowRegistry
  BY DEF Init, SubscriptionsFollowRegistry, HearsRegister
<1>5. RegistrationIsPending
  BY DEF Init, RegistrationIsPending, UnderWay, IsAssigned, PartsOf
<1> QED
  BY <1>1, <1>2, <1>3, <1>4, <1>5 DEF IInv

\* No step takes a variable out of its range, and no counter below zero or above the
\* bound the changes set it.
LEMMA TypeStep == TypeOK /\ JoiningBounded /\ [Next]_vars => TypeOK' /\ JoiningBounded'
<1> SUFFICES ASSUME TypeOK, JoiningBounded, [Next]_vars
             PROVE  TypeOK' /\ JoiningBounded'
  OBVIOUS
<1> USE NodeStreamsAssumption DEF TypeOK, JoiningBounded, assignmentVars, schemaVars,
        chainVars, messageVars, Alive, Exit, Events, Note, Forget
<1>1. CASE StartValidation
  BY <1>1 DEF StartValidation, handleStreamRegister
<1>2. CASE StartListener
  BY <1>2 DEF StartListener
<1>3. CASE stop
  BY <1>3 DEF stop, unregisterStreamIds, handleStreamUnregister
<1>4. ASSUME NEW p \in StreamParts, onStreamPartAdded(p) PROVE TypeOK' /\ JoiningBounded'
  <2>1. /\ changes' = changes + 1 /\ changes' \in 0 .. MaxChanges
        /\ joining' = [joining EXCEPT ![p] = @ + 1]
        /\ assigned' \subseteq StreamParts
    BY <1>4 DEF onStreamPartAdded
  <2>2. \A q \in StreamParts : joining'[q] \in Nat /\ joining'[q] <= changes' + 1
    BY <2>1
  <2>3. joining' \in [StreamParts -> 0 .. MaxChanges + 1]
    BY <2>1, <2>2
  <2> QED
    BY <1>4, <2>1, <2>2, <2>3 DEF onStreamPartAdded
<1>5. ASSUME NEW p \in StreamParts, onStreamPartRemoved(p) PROVE TypeOK' /\ JoiningBounded'
  <2>1. /\ changes' = changes + 1 /\ changes' \in 0 .. MaxChanges
        /\ UNCHANGED <<phase, joining, fetching, metadata, updates, message, programs>>
        /\ assigned' \subseteq StreamParts
    BY <1>5 DEF onStreamPartRemoved
  <2>2. registered' \subseteq Streams
        /\ tracked' \in [Streams -> {"none", "live", "completed"}]
        /\ leaked' = leaked
        /\ schema' \in [Streams -> {"none", "schema", "invalid"}]
    BY <1>5 DEF onStreamPartRemoved, unregisterStreamId, unregisterStreamIds,
                handleStreamUnregister
  <2>3. history' \in [Streams -> SUBSET Events]
    BY <1>5 DEF onStreamPartRemoved
  <2> QED
    BY <2>1, <2>2, <2>3
<1>6. ASSUME NEW p \in StreamParts, Joined(p) PROVE TypeOK' /\ JoiningBounded'
  <2>1. joining' \in [StreamParts -> 0 .. MaxChanges + 1]
        /\ (\A q \in StreamParts : joining'[q] <= changes + 1) /\ StreamOf[p] \in Streams
    BY <1>6 DEF Joined
  <2>2. fetching' \in [Streams -> Nat] /\ history' \in [Streams -> SUBSET Events]
    BY <1>6, <2>1 DEF Joined, startRegistration
  <2> QED
    BY <1>6, <2>1, <2>2 DEF Joined
<1>7. ASSUME NEW p \in StreamParts, JoinTimedOut(p) PROVE TypeOK' /\ JoiningBounded'
  <2>1. joining' \in [StreamParts -> 0 .. MaxChanges + 1]
        /\ (\A q \in StreamParts : joining'[q] <= changes + 1) /\ StreamOf[p] \in Streams
    BY <1>7 DEF JoinTimedOut
  <2> QED
    BY <1>7, <2>1 DEF JoinTimedOut
<1>8. ASSUME NEW s \in Streams, GetStreamDone(s) PROVE TypeOK' /\ JoiningBounded'
  <2>1. fetching' \in [Streams -> Nat] /\ history' \in [Streams -> SUBSET Events]
    BY <1>8 DEF GetStreamDone
  <2>2. registered' \subseteq Streams
        /\ tracked' \in [Streams -> {"none", "live", "completed"}]
        /\ leaked' \in [Streams -> Nat]
        /\ schema' = schema
    BY <1>8 DEF GetStreamDone, finishRegistration, handleStreamRegister
  <2> QED
    BY <1>8, <2>1, <2>2 DEF GetStreamDone
<1>9. ASSUME NEW s \in Streams, GetStreamFailed(s) PROVE TypeOK' /\ JoiningBounded'
  BY <1>9 DEF GetStreamFailed
<1>10. ASSUME NEW s \in Streams, UpdateMetadata(s) PROVE TypeOK' /\ JoiningBounded'
  BY <1>10 DEF UpdateMetadata
<1>11. ASSUME NEW s \in Streams, SchemaPoll(s) PROVE TypeOK' /\ JoiningBounded'
  <2>1. leaked' \in [Streams -> Nat] /\ tracked' \in [Streams -> {"none", "live", "completed"}]
    BY <1>11 DEF SchemaPoll
  <2> QED
    BY <1>11, <2>1 DEF SchemaPoll, newSchema
<1>12. ASSUME NEW s \in Streams, SchemaPollFailed(s) PROVE TypeOK' /\ JoiningBounded'
  BY <1>12 DEF SchemaPollFailed
<1>13. ASSUME NEW m \in Messages, onStreamMessage(m) PROVE TypeOK' /\ JoiningBounded'
  BY <1>13 DEF onStreamMessage
<1>14. ASSUME NEW m \in Messages, MessageStored(m) PROVE TypeOK' /\ JoiningBounded'
  BY <1>14 DEF MessageStored
<1>15. ASSUME NEW m \in Messages, StoreFailed(m) PROVE TypeOK' /\ JoiningBounded'
  BY <1>15 DEF StoreFailed
<1>16. ASSUME NEW m \in Messages, process(m) PROVE TypeOK' /\ JoiningBounded'
  BY <1>16 DEF process
<1>17. ASSUME NEW s \in Streams, SchemaCompileFailed(s) PROVE TypeOK' /\ JoiningBounded'
  BY <1>17 DEF SchemaCompileFailed
<1>18. CASE UNCHANGED vars
  BY <1>18 DEF vars
<1> QED
  BY <1>1, <1>2, <1>3, <1>4, <1>5, <1>6, <1>7, <1>8, <1>9, <1>10, <1>11, <1>12, <1>13, <1>14,
     <1>15, <1>16, <1>17, <1>18 DEF Next

\* What a step may do to the history of a stream: only "current" is ever taken out.
LEMMA HistoryStep ==
  TypeOK /\ [Next]_vars => \A s \in Streams : history[s] \ {"current"} \subseteq history'[s]
<1> SUFFICES ASSUME TypeOK, [Next]_vars, NEW t \in Streams
             PROVE  history[t] \ {"current"} \subseteq history'[t]
  OBVIOUS
<1> USE NodeStreamsAssumption DEF TypeOK, Note, Forget
<1>1. CASE StartValidation \/ StartListener \/ stop
  BY <1>1 DEF StartValidation, StartListener, stop
<1>2. ASSUME NEW p \in StreamParts, onStreamPartAdded(p) \/ Joined(p) \/ JoinTimedOut(p)
      PROVE  history[t] \ {"current"} \subseteq history'[t]
  BY <1>2 DEF onStreamPartAdded, Joined, JoinTimedOut, startRegistration
<1>3. ASSUME NEW p \in StreamParts, onStreamPartRemoved(p)
      PROVE  history[t] \ {"current"} \subseteq history'[t]
  BY <1>3 DEF onStreamPartRemoved
<1>4. ASSUME NEW s \in Streams,
             GetStreamDone(s) \/ GetStreamFailed(s) \/ UpdateMetadata(s) \/ SchemaPoll(s)
             \/ SchemaPollFailed(s) \/ SchemaCompileFailed(s)
      PROVE  history[t] \ {"current"} \subseteq history'[t]
  BY <1>4 DEF GetStreamDone, GetStreamFailed, UpdateMetadata, SchemaPoll, SchemaPollFailed,
              SchemaCompileFailed
<1>5. ASSUME NEW m \in Messages,
             onStreamMessage(m) \/ MessageStored(m) \/ StoreFailed(m) \/ process(m)
      PROVE  history[t] \ {"current"} \subseteq history'[t]
  BY <1>5 DEF onStreamMessage, MessageStored, StoreFailed, process
<1>6. CASE UNCHANGED vars
  BY <1>6 DEF vars
<1> QED
  BY <1>1, <1>2, <1>3, <1>4, <1>5, <1>6 DEF Next

\* Registrations under way together are noted: registerStreamId looks for the stream
\* before its await and sets it after, and only startRegistration begins one.
LEMMA RaceStep == TypeOK /\ RaceIsNoted /\ [Next]_vars => RaceIsNoted'
<1> SUFFICES ASSUME TypeOK, RaceIsNoted, [Next]_vars, NEW t \in Streams,
                    fetching'[t] > 1 \/ (fetching'[t] > 0 /\ t \in registered')
             PROVE  "raced" \in history'[t]
  BY DEF RaceIsNoted
<1>0. /\ history[t] \ {"current"} \subseteq history'[t] /\ fetching[t] \in Nat
      /\ (fetching[t] > 1 \/ (fetching[t] > 0 /\ t \in registered) => "raced" \in history[t])
  BY HistoryStep DEF RaceIsNoted, TypeOK
<1> USE NodeStreamsAssumption DEF TypeOK
<1>1. CASE StartValidation \/ StartListener \/ stop
  BY <1>0, <1>1 DEF StartValidation, StartListener, stop, unregisterStreamIds
<1>2. ASSUME NEW p \in StreamParts, onStreamPartAdded(p) \/ JoinTimedOut(p)
      PROVE  "raced" \in history'[t]
  BY <1>0, <1>2 DEF onStreamPartAdded, JoinTimedOut
<1>3. ASSUME NEW p \in StreamParts, Joined(p) PROVE "raced" \in history'[t]
  BY <1>0, <1>3 DEF Joined, startRegistration, Note
<1>4. ASSUME NEW p \in StreamParts, onStreamPartRemoved(p) PROVE "raced" \in history'[t]
  BY <1>0, <1>4 DEF onStreamPartRemoved, unregisterStreamId, unregisterStreamIds
<1>5. ASSUME NEW s \in Streams, GetStreamDone(s) PROVE "raced" \in history'[t]
  BY <1>0, <1>5 DEF GetStreamDone, finishRegistration
<1>6. ASSUME NEW s \in Streams, GetStreamFailed(s) PROVE "raced" \in history'[t]
  BY <1>0, <1>6 DEF GetStreamFailed
<1>7. ASSUME NEW s \in Streams, \/ UpdateMetadata(s) \/ SchemaPoll(s)
                                \/ SchemaPollFailed(s) \/ SchemaCompileFailed(s)
      PROVE  "raced" \in history'[t]
  BY <1>0, <1>7 DEF UpdateMetadata, SchemaPoll, SchemaPollFailed, SchemaCompileFailed
<1>8. ASSUME NEW m \in Messages,
             onStreamMessage(m) \/ MessageStored(m) \/ StoreFailed(m) \/ process(m)
      PROVE  "raced" \in history'[t]
  BY <1>0, <1>8 DEF onStreamMessage, MessageStored, StoreFailed, process
<1>9. CASE UNCHANGED vars
  BY <1>0, <1>9 DEF vars
<1> QED
  BY <1>1, <1>2, <1>3, <1>4, <1>5, <1>6, <1>7, <1>8, <1>9 DEF Next

\* The steps that touch neither registry, subscriptions, schemas nor phase, or only end
\* the process, keep subscriptions and registry together.
LEMMA SubscriptionFrame ==
  ASSUME TypeOK, SilentBeforeStart, SubscriptionsFollowRegistry, [Next]_vars,
         UNCHANGED <<registered, tracked, leaked, schema>>,
         phase' = phase \/ phase' = "exited"
                        \/ (phase = "registering" /\ phase' = "listening")
  PROVE  SilentBeforeStart' /\ SubscriptionsFollowRegistry'
<1>1. \A s \in Streams : "raced" \in history[s] => "raced" \in history'[s]
  BY HistoryStep
<1> QED
  BY <1>1 DEF TypeOK, SilentBeforeStart, SubscriptionsFollowRegistry, HearsRegister

\* Every step keeps the map of subscriptions and the registry together, and accounts
\* for each subscription that is not in the map.
LEMMA SubscriptionStep ==
  TypeOK /\ RaceIsNoted /\ SilentBeforeStart /\ SubscriptionsFollowRegistry /\ [Next]_vars
  => SilentBeforeStart' /\ SubscriptionsFollowRegistry'
<1> SUFFICES ASSUME TypeOK, RaceIsNoted, SilentBeforeStart, SubscriptionsFollowRegistry,
                    [Next]_vars
             PROVE  SilentBeforeStart' /\ SubscriptionsFollowRegistry'
  OBVIOUS
<1>0. \A s \in Streams : "raced" \in history[s] => "raced" \in history'[s]
  BY HistoryStep
<1>1. CASE StartValidation
  BY <1>1 DEF TypeOK, StartValidation, handleStreamRegister, SilentBeforeStart,
              SubscriptionsFollowRegistry, HearsRegister
<1>2. CASE StartListener
  BY <1>2, SubscriptionFrame DEF StartListener, schemaVars
<1>3. CASE stop
  <2>1. /\ phase' = "stopped" /\ phase = "listening" /\ registered' = {} /\ leaked' = leaked
        /\ tracked' = [s \in Streams |-> IF s \in registered THEN "none" ELSE tracked[s]]
        /\ schema' = [s \in Streams |-> IF s \in registered THEN "none" ELSE schema[s]]
    BY <1>3 DEF stop, unregisterStreamIds, handleStreamUnregister, HearsUnregister
  <2> QED
    BY <1>0, <2>1 DEF TypeOK, SilentBeforeStart, SubscriptionsFollowRegistry, HearsRegister
<1>4. ASSUME NEW p \in StreamParts, onStreamPartAdded(p) \/ Joined(p) \/ JoinTimedOut(p)
      PROVE  SilentBeforeStart' /\ SubscriptionsFollowRegistry'
  BY <1>4, SubscriptionFrame DEF onStreamPartAdded, Joined, JoinTimedOut, schemaVars
<1>5. ASSUME NEW p \in StreamParts, onStreamPartRemoved(p)
      PROVE  SilentBeforeStart' /\ SubscriptionsFollowRegistry'
  <2> DEFINE S == {StreamOf[p]} \cap registered
  <2>1. /\ phase' = phase /\ registered' = registered \ S /\ phase # "exited"
        /\ IF HearsUnregister
           THEN /\ tracked' = [s \in Streams |-> IF s \in S THEN "none" ELSE tracked[s]]
                /\ schema' = [s \in Streams |-> IF s \in S THEN "none" ELSE schema[s]]
                /\ leaked' = leaked
           ELSE UNCHANGED <<tracked, leaked, schema>>
    BY <1>5 DEF onStreamPartRemoved, unregisterStreamId, unregisterStreamIds,
                handleStreamUnregister, schemaVars, Alive
  <2> HIDE DEF S
  <2>2. CASE HearsUnregister
    BY <1>0, <2>1, <2>2 DEF TypeOK, SilentBeforeStart, SubscriptionsFollowRegistry,
                            HearsRegister, HearsUnregister
  <2>3. CASE ~HearsUnregister
    BY <1>0, <2>1, <2>3 DEF TypeOK, SilentBeforeStart, SubscriptionsFollowRegistry,
                            HearsRegister, HearsUnregister
  <2> QED
    BY <2>2, <2>3
<1>6. ASSUME NEW s \in Streams, GetStreamDone(s)
      PROVE  SilentBeforeStart' /\ SubscriptionsFollowRegistry'
  <2>1. /\ fetching[s] > 0 /\ phase' = phase /\ registered' = registered \cup {s}
        /\ schema' = schema
        /\ s \in registered => "raced" \in history'[s]
    BY <1>6, <1>0 DEF GetStreamDone, finishRegistration, handleStreamRegister, schemaVars,
                 RaceIsNoted
  <2>2. CASE HearsRegister
    <3>1. /\ leaked' = [t \in Streams |->
                          IF t \in {s} /\ tracked[t] = "live" THEN leaked[t] + 1 ELSE leaked[t]]
          /\ tracked' = [t \in Streams |-> IF t \in {s} THEN "live" ELSE tracked[t]]
      BY <1>6, <2>2 DEF GetStreamDone, finishRegistration, handleStreamRegister
    <3> QED
      BY <1>0, <2>1, <2>2, <3>1 DEF TypeOK, SilentBeforeStart, SubscriptionsFollowRegistry,
                                    HearsRegister
  <2>3. CASE ~HearsRegister
    <3>1. UNCHANGED <<tracked, leaked, schema>>
      BY <1>6, <2>3 DEF GetStreamDone, finishRegistration, schemaVars
    <3> QED
      BY <1>0, <2>1, <2>3, <3>1 DEF TypeOK, SilentBeforeStart, SubscriptionsFollowRegistry,
                                    HearsRegister
  <2> QED
    BY <2>2, <2>3
<1>7. ASSUME NEW s \in Streams, GetStreamFailed(s) \/ UpdateMetadata(s) \/ SchemaCompileFailed(s)
      PROVE  SilentBeforeStart' /\ SubscriptionsFollowRegistry'
  BY <1>7, SubscriptionFrame DEF GetStreamFailed, UpdateMetadata, SchemaCompileFailed, schemaVars,
                                 Exit
<1>8. ASSUME NEW s \in Streams, SchemaPoll(s) \/ SchemaPollFailed(s)
      PROVE  SilentBeforeStart' /\ SubscriptionsFollowRegistry'
  <2>1. /\ UNCHANGED <<phase, registered>>
        /\ tracked[s] = "live" \/ leaked[s] > 0
        /\ tracked' \in [Streams -> {"none", "live", "completed"}]
        /\ \A t \in Streams : tracked'[t] = "none" <=> tracked[t] = "none"
        /\ \A t \in Streams : leaked'[t] > 0 => leaked[t] > 0
        /\ \A t \in Streams : t # s => schema'[t] = schema[t]
    BY <1>8 DEF SchemaPoll, SchemaPollFailed, TypeOK
  <2>2. tracked[s] # "none" \/ "raced" \in history[s]
    BY <2>1 DEF SubscriptionsFollowRegistry
  <2> QED
    BY <1>0, <2>1, <2>2 DEF TypeOK, SilentBeforeStart, SubscriptionsFollowRegistry, HearsRegister
<1>9. ASSUME NEW m \in Messages,
             onStreamMessage(m) \/ MessageStored(m) \/ StoreFailed(m) \/ process(m)
      PROVE  SilentBeforeStart' /\ SubscriptionsFollowRegistry'
  BY <1>9, SubscriptionFrame DEF onStreamMessage, MessageStored, StoreFailed, process,
                                 schemaVars, Exit
<1>10. CASE UNCHANGED vars
  BY <1>10, SubscriptionFrame DEF vars, schemaVars
<1> QED
  BY <1>1, <1>2, <1>3, <1>4, <1>5, <1>6, <1>7, <1>8, <1>9, <1>10 DEF Next

\* Registration follows assignment as long as what is to be registered is under way.
LEMMA PendingStep ==
  TypeOK /\ RegistrationIsPending /\ [Next]_vars => RegistrationIsPending'
<1> SUFFICES ASSUME TypeOK, RegistrationIsPending, [Next]_vars, NEW t \in Streams
             PROVE  /\ (t \in registered' \/ UnderWay(t)') /\ ~IsAssigned(t)'
                       => "overlapped" \in history'[t]
                    /\ phase' \in {"config", "registering", "listening"} /\ IsAssigned(t)'
                       => \/ t \in registered' \/ UnderWay(t)'
                          \/ history'[t] \cap {"failed", "partial"} # {}
  BY DEF RegistrationIsPending
<1> DEFINE Goal == /\ (t \in registered' \/ UnderWay(t)') /\ ~IsAssigned(t)'
                      => "overlapped" \in history'[t]
                   /\ phase' \in {"config", "registering", "listening"} /\ IsAssigned(t)'
                      => \/ t \in registered' \/ UnderWay(t)'
                         \/ history'[t] \cap {"failed", "partial"} # {}
<1>0. history[t] \ {"current"} \subseteq history'[t]
  BY HistoryStep
<1>a. /\ (t \in registered \/ UnderWay(t)) /\ ~IsAssigned(t) => "overlapped" \in history[t]
      /\ phase \in {"config", "registering", "listening"} /\ IsAssigned(t)
         => t \in registered \/ UnderWay(t) \/ history[t] \cap {"failed", "partial"} # {}
  BY DEF RegistrationIsPending
<1>b. ASSUME UNCHANGED <<assigned, joining, fetching, registered>>,
             phase' \in {"config", "registering", "listening"}
               => phase \in {"config", "registering", "listening"}
      PROVE  Goal
  BY <1>0, <1>a, <1>b DEF UnderWay, IsAssigned, PartsOf
<1> USE NodeStreamsAssumption
<1>1. CASE StartValidation \/ StartListener
  BY <1>1, <1>b DEF StartValidation, StartListener, assignmentVars
<1>2. CASE stop
  <2>1. /\ phase' = "stopped" /\ registered' = {}
        /\ UNCHANGED <<assigned, joining, fetching>>
    BY <1>2 DEF stop, unregisterStreamIds, assignmentVars
  <2> QED
    BY <1>0, <1>a, <2>1 DEF UnderWay, IsAssigned, PartsOf
<1>3. ASSUME NEW p \in StreamParts, onStreamPartAdded(p) PROVE Goal
  <2>1. /\ assigned' = assigned \cup {p} /\ joining' = [joining EXCEPT ![p] = @ + 1]
        /\ UNCHANGED <<phase, fetching, registered, history>>
    BY <1>3 DEF onStreamPartAdded
  <2>2. CASE StreamOf[p] = t
    <3>1. p \in PartsOf(t) /\ joining'[p] > 0 /\ p \in assigned'
      BY <2>1, <2>2 DEF PartsOf, TypeOK
    <3>2. UnderWay(t)' /\ IsAssigned(t)'
      BY <3>1 DEF UnderWay, IsAssigned, PartsOf
    <3> QED
      BY <3>2
  <2>3. CASE StreamOf[p] # t
    <3>1. (IsAssigned(t)' <=> IsAssigned(t)) /\ (UnderWay(t)' <=> UnderWay(t))
      BY <2>1, <2>3 DEF UnderWay, IsAssigned, PartsOf, TypeOK
    <3> QED
      BY <1>a, <2>1, <3>1
  <2> QED
    BY <2>2, <2>3
<1>4. ASSUME NEW p \in StreamParts, onStreamPartRemoved(p) PROVE Goal
  <2> DEFINE u == StreamOf[p]
  <2>0. /\ assigned' = assigned \ {p} /\ registered' = registered \ {u} /\ u \in Streams
        /\ UNCHANGED <<phase, joining, fetching>>
    BY <1>4 DEF onStreamPartRemoved, unregisterStreamId, unregisterStreamIds
  <2>h. history'[u] = (history[u] \ {"current"})
                         \cup (IF (assigned \ {p}) \cap PartsOf(u) # {} THEN {"partial"} ELSE {})
                         \cup (IF UnderWay(u) THEN {"overlapped"} ELSE {})
    BY <1>4, <2>0 DEF onStreamPartRemoved, Forget, UnderWay, TypeOK
  <2>1. /\ assigned' = assigned \ {p} /\ registered' = registered \ {u} /\ u \in Streams
        /\ UNCHANGED <<phase, joining, fetching>>
        /\ (assigned \ {p}) \cap PartsOf(u) # {} => "partial" \in history'[u]
        /\ UnderWay(u) => "overlapped" \in history'[u]
    BY <2>0, <2>h
  <2>2. UnderWay(t)' <=> UnderWay(t)
    BY <2>1 DEF UnderWay, PartsOf
  <2>3. CASE u = t
    <3>1. IsAssigned(t)' <=> (assigned \ {p}) \cap PartsOf(u) # {}
      BY <2>1, <2>3 DEF IsAssigned, PartsOf
    <3> QED
      BY <2>1, <2>2, <2>3, <3>1
  <2>4. CASE u # t
    <3>1. IsAssigned(t)' <=> IsAssigned(t)
      BY <2>1, <2>4 DEF IsAssigned, PartsOf
    <3> QED
      BY <1>0, <1>a, <2>1, <2>2, <2>4, <3>1
  <2> QED
    BY <2>3, <2>4
<1>5. ASSUME NEW p \in StreamParts, Joined(p) PROVE Goal
  <2>1. /\ joining[p] > 0 /\ joining' = [joining EXCEPT ![p] = @ - 1]
        /\ startRegistration(StreamOf[p]) /\ StreamOf[p] \in Streams
        /\ UNCHANGED <<phase, assigned, registered>>
    BY <1>5 DEF Joined
  <2>2. IsAssigned(t)' <=> IsAssigned(t)
    BY <2>1 DEF IsAssigned, PartsOf
  <2>3. CASE StreamOf[p] = t
    <3>1. UnderWay(t)
      BY <2>1, <2>3 DEF UnderWay, PartsOf
    <3>2. t \in registered' \/ fetching'[t] > 0
      BY <2>1, <2>3 DEF startRegistration, TypeOK
    <3>3. t \in registered' \/ UnderWay(t)'
      BY <3>2 DEF UnderWay
    <3> QED
      BY <1>0, <1>a, <2>1, <2>2, <3>1, <3>3
  <2>4. CASE StreamOf[p] # t
    <3>1. fetching'[t] = fetching[t]
      BY <2>1, <2>4 DEF startRegistration, TypeOK
    <3>2. UnderWay(t)' <=> UnderWay(t)
      BY <2>1, <2>4, <3>1 DEF UnderWay, PartsOf, TypeOK
    <3> QED
      BY <1>0, <1>a, <2>1, <2>2, <3>2
  <2> QED
    BY <2>3, <2>4
<1>6. ASSUME NEW p \in StreamParts, JoinTimedOut(p) PROVE Goal
  <2>1. /\ joining[p] > 0 /\ joining' = [joining EXCEPT ![p] = @ - 1]
        /\ StreamOf[p] \in Streams /\ "failed" \in history'[StreamOf[p]]
        /\ UNCHANGED <<phase, assigned, registered, fetching>>
    BY <1>6 DEF JoinTimedOut, Note, TypeOK
  <2>2. IsAssigned(t)' <=> IsAssigned(t)
    BY <2>1 DEF IsAssigned, PartsOf
  <2>3. UnderWay(t)' => UnderWay(t)
    BY <2>1 DEF UnderWay, PartsOf, TypeOK
  <2>4. \A q \in PartsOf(t) : StreamOf[p] # t => joining'[q] = joining[q]
    BY <2>1 DEF PartsOf, TypeOK
  <2>5. StreamOf[p] # t => (UnderWay(t) => UnderWay(t)')
    BY <2>1, <2>4 DEF UnderWay, PartsOf
  <2> QED
    BY <1>0, <1>a, <2>1, <2>2, <2>3, <2>5
<1>7. ASSUME NEW s \in Streams, GetStreamDone(s) PROVE Goal
  <2>1. /\ fetching[s] > 0 /\ fetching' = [fetching EXCEPT ![s] = @ - 1]
        /\ registered' = registered \cup {s}
        /\ UNCHANGED <<phase, assigned, joining>>
    BY <1>7 DEF GetStreamDone, finishRegistration, assignmentVars
  <2>2. /\ IsAssigned(t)' <=> IsAssigned(t)
        /\ UnderWay(t)' => UnderWay(t)
        /\ s # t => (UnderWay(t) => UnderWay(t)')
        /\ s = t => UnderWay(t)
    BY <2>1 DEF IsAssigned, UnderWay, PartsOf, TypeOK
  <2> QED
    BY <1>0, <1>a, <2>1, <2>2
<1>8. ASSUME NEW s \in Streams, GetStreamFailed(s) PROVE Goal
  <2>1. /\ fetching[s] > 0 /\ fetching' = [fetching EXCEPT ![s] = @ - 1]
        /\ "failed" \in history'[s]
        /\ UNCHANGED <<phase, assigned, joining, registered>>
    BY <1>8 DEF GetStreamFailed, Note, TypeOK, assignmentVars
  <2>2. /\ IsAssigned(t)' <=> IsAssigned(t)
        /\ UnderWay(t)' => UnderWay(t)
        /\ s # t => (UnderWay(t) => UnderWay(t)')
    BY <2>1 DEF IsAssigned, UnderWay, PartsOf, TypeOK
  <2> QED
    BY <1>0, <1>a, <2>1, <2>2
<1>9. ASSUME NEW s \in Streams, \/ UpdateMetadata(s) \/ SchemaPoll(s)
                                \/ SchemaPollFailed(s) \/ SchemaCompileFailed(s)
      PROVE  Goal
  BY <1>9, <1>b DEF UpdateMetadata, SchemaPoll, SchemaPollFailed, SchemaCompileFailed,
                    assignmentVars, Exit
<1>10. ASSUME NEW m \in Messages,
              onStreamMessage(m) \/ MessageStored(m) \/ StoreFailed(m) \/ process(m)
       PROVE  Goal
  BY <1>10, <1>b DEF onStreamMessage, MessageStored, StoreFailed, process, assignmentVars, Exit
<1>11. CASE UNCHANGED vars
  BY <1>11, <1>b DEF vars, assignmentVars
<1> QED
  BY <1>1, <1>2, <1>3, <1>4, <1>5, <1>6, <1>7, <1>8, <1>9, <1>10, <1>11 DEF Next

\* What has been applied is in force until the metadata, or the registration, changes.
LEMMA CurrentStep == TypeOK /\ CurrentIsApplied /\ [Next]_vars => CurrentIsApplied'
<1> SUFFICES ASSUME TypeOK, CurrentIsApplied, [Next]_vars, NEW t \in Streams,
                    "current" \in history'[t]
             PROVE  schema'[t] = metadata'[t]
  BY DEF CurrentIsApplied
<1>0. "current" \in history[t] => schema[t] = metadata[t]
  BY DEF CurrentIsApplied
<1> USE NodeStreamsAssumption
<1>1. CASE StartValidation \/ StartListener \/ stop
  BY <1>0, <1>1 DEF StartValidation, handleStreamRegister, StartListener, stop, chainVars,
                    schemaVars
<1>2. ASSUME NEW p \in StreamParts, onStreamPartAdded(p) \/ Joined(p) \/ JoinTimedOut(p)
      PROVE  schema'[t] = metadata'[t]
  <2>1. UNCHANGED <<schema, metadata>> /\ StreamOf[p] \in Streams
    BY <1>2 DEF onStreamPartAdded, Joined, JoinTimedOut, chainVars, schemaVars
  <2>2. "current" \in history[t]
    BY <1>2, <2>1 DEF onStreamPartAdded, Joined, JoinTimedOut, startRegistration, Note, TypeOK
  <2> QED
    BY <1>0, <2>1, <2>2
<1>3. ASSUME NEW p \in StreamParts, onStreamPartRemoved(p) PROVE schema'[t] = metadata'[t]
  <2>1. StreamOf[p] \in Streams /\ metadata' = metadata
    BY <1>3 DEF onStreamPartRemoved, chainVars
  <2>2. t # StreamOf[p] /\ "current" \in history[t]
    BY <1>3, <2>1 DEF onStreamPartRemoved, Forget, TypeOK
  <2>3. schema'[t] = schema[t]
    BY <1>3, <2>2 DEF onStreamPartRemoved, unregisterStreamId, unregisterStreamIds,
                      handleStreamUnregister, schemaVars
  <2> QED
    BY <1>0, <2>1, <2>2, <2>3
<1>4. ASSUME NEW s \in Streams, \/ GetStreamDone(s) \/ GetStreamFailed(s)
                                \/ SchemaPollFailed(s) \/ SchemaCompileFailed(s)
      PROVE  schema'[t] = metadata'[t]
  <2>1. UNCHANGED <<schema, metadata>>
    BY <1>4 DEF GetStreamDone, GetStreamFailed, SchemaPollFailed, SchemaCompileFailed, finishRegistration,
                handleStreamRegister, chainVars, schemaVars
  <2>2. "current" \in history[t]
    BY <1>4 DEF GetStreamDone, GetStreamFailed, SchemaPollFailed, SchemaCompileFailed, Note, Forget, TypeOK
  <2> QED
    BY <1>0, <2>1, <2>2
<1>5. ASSUME NEW s \in Streams, UpdateMetadata(s) PROVE schema'[t] = metadata'[t]
  <2>1. t # s /\ "current" \in history[t]
    BY <1>5 DEF UpdateMetadata, Forget, TypeOK
  <2>2. schema' = schema /\ metadata'[t] = metadata[t]
    BY <1>5, <2>1 DEF UpdateMetadata, schemaVars, TypeOK
  <2> QED
    BY <1>0, <2>1, <2>2
<1>6. ASSUME NEW s \in Streams, SchemaPoll(s) PROVE schema'[t] = metadata'[t]
  BY <1>0, <1>6 DEF SchemaPoll, newSchema, Note, TypeOK, chainVars
<1>7. ASSUME NEW m \in Messages,
             onStreamMessage(m) \/ MessageStored(m) \/ StoreFailed(m) \/ process(m)
      PROVE  schema'[t] = metadata'[t]
  BY <1>0, <1>7 DEF onStreamMessage, MessageStored, StoreFailed, process, schemaVars, chainVars
<1>8. CASE UNCHANGED vars
  BY <1>0, <1>8 DEF vars, schemaVars, chainVars
<1> QED
  BY <1>1, <1>2, <1>3, <1>4, <1>5, <1>6, <1>7, <1>8 DEF Next

-----------------------------------------------------------------------------
(* Theorems *)

\* The conjunction is an inductive invariant.
LEMMA Invariance == Spec => []IInv
<1>1. IInv /\ [Next]_vars => IInv'
  BY TypeStep, RaceStep, SubscriptionStep, PendingStep, CurrentStep DEF IInv
<1> QED
  BY InitIInv, <1>1, PTL DEF Spec

\* Every variable keeps to its range; the counters of additions and registrations under
\* way and of subscriptions outside the map never go below zero.
THEOREM TypeCorrect == Spec => []TypeOK
BY Invariance, PTL DEF IInv

\* Registry and configuration agree once the additions of a stream are over
\* (LogStoreNetworkPlugin's callbacks, NodeStreamsRegistry).
THEOREM RegistrationTheorem == Spec => []RegistrationFollowsAssignment
<1>1. IInv => RegistrationFollowsAssignment
  <2> SUFFICES ASSUME IInv, phase \in {"registering", "listening"}, NEW s \in Streams, Settled(s)
               PROVE  /\ s \in registered /\ ~IsAssigned(s) => "overlapped" \in history[s]
                      /\ IsAssigned(s) /\ s \notin registered
                         => history[s] \cap {"failed", "partial"} # {}
    BY DEF RegistrationFollowsAssignment
  <2>1. ~UnderWay(s)
    BY DEF Settled, UnderWay, IInv, TypeOK, PartsOf
  <2> QED
    BY <2>1 DEF IInv, RegistrationIsPending
<1> QED
  BY Invariance, <1>1, PTL

\* Exactly the registered streams have a subscription in the map while the schema manager
\* runs, none has after stop(), and what outlives its stream comes of two registrations
\* under way at once (ValidationSchemaManager, NodeStreamsRegistry).
THEOREM SubscriptionTheorem == Spec => []SubscriptionsFollowRegistry
BY Invariance, PTL DEF IInv

\* No step stores plain content that the metadata in force refuses, once it has been
\* polled for the registered stream (MessageListener.onStreamMessage).
THEOREM ValidationTheorem == Spec => NonconformingIsKeptOut
<1> DEFINE Allowed(m) ==
      LET s == StreamOfMessage(m) IN
      /\ message[m] = "new" /\ message'[m] = "storing"
      /\ s \in registered /\ "current" \in history[s]
      => \/ Kind[m].content = "encrypted"
         \/ metadata[s] = "none"
         \/ metadata[s] = "schema" /\ Kind[m].content # "bad"
<1>1. IInv /\ [Next]_vars => [\A m \in Messages : Allowed(m)]_vars
  <2> SUFFICES ASSUME IInv, Next, NEW m \in Messages,
                      message[m] = "new", message'[m] = "storing",
                      StreamOfMessage(m) \in registered,
                      "current" \in history[StreamOfMessage(m)]
               PROVE  \/ Kind[m].content = "encrypted"
                      \/ metadata[StreamOfMessage(m)] = "none"
                      \/ metadata[StreamOfMessage(m)] = "schema" /\ Kind[m].content # "bad"
    OBVIOUS
  <2>1. PICK n \in Messages : onStreamMessage(n) \/ MessageStored(n) \/ process(n)
    BY DEF Next, StartValidation, StartListener, stop, onStreamPartAdded, onStreamPartRemoved,
           Joined, JoinTimedOut, GetStreamDone, GetStreamFailed, UpdateMetadata, SchemaPoll,
           SchemaPollFailed, SchemaCompileFailed, StoreFailed, messageVars
  <2>2. n = m /\ onStreamMessage(m)
    BY <2>1 DEF onStreamMessage, MessageStored, process, IInv, TypeOK
  <2>3. validateMessage(m)
    BY <2>2 DEF onStreamMessage, IInv, TypeOK
  <2>4. schema[StreamOfMessage(m)] = metadata[StreamOfMessage(m)]
    BY NodeStreamsAssumption DEF IInv, TypeOK, CurrentIsApplied
  <2> QED
    BY <2>3, <2>4 DEF validateMessage
<1> QED
  BY Invariance, <1>1, PTL DEF Spec, NonconformingIsKeptOut
=============================================================================
