----------------------- MODULE LogStoreNetworkConfig -----------------------
(***************************************************************************)
(* plugins/logStore/network/LogStoreNetworkConfig.ts with its two sources, *)
(* LogStorePoller and LogStoreEventListener: which stream parts this node  *)
(* stores, as learnt from the chain.                                       *)
(*                                                                         *)
(* The chain is external and is modelled by what the code sees of it: a    *)
(* block changes the assignment of some streams, emitting one event per    *)
(* change, and a poll answers with the assignments of some block.  Nothing *)
(* orders the two sources.  handleEvent awaits getStream before it applies *)
(* an event, and drops the event when that fails; poll answers come from   *)
(* an index that may lag.  So any past event and any past block may be     *)
(* applied at any time, any number of times, or never: the chain itself is *)
(* the pool of undelivered messages.                                       *)
(***************************************************************************)
EXTENDS SetMembershipSynchronizer, Sequences

CONSTANTS
    Streams,
    StreamOf,            \* the stream each stream part belongs to
    keyToArrayIndex,     \* the cluster index each stream part hashes to
    myIndexInCluster,
    MaxBlock,            \* bound: blocks in a behaviour
    MaxChanges,          \* bound: changes of one stream within one block
    SteadyStreams        \* the streams that change at most once within a block

\* Elements are stream parts; every one of them belongs to a stream.
ASSUME ConfigAssumption ==
    /\ StreamOf \in [Elements -> Streams]
    /\ MaxBlock \in Nat
    /\ MaxChanges \in Nat
    /\ SteadyStreams \subseteq Streams

VARIABLES
    chain,               \* block number -> what it changed, who is assigned after it
    joins                \* stream part -> onStreamPartAdded minus onStreamPartRemoved

vars == <<syncVars, chain, joins>>

Blocks == 1..Len(chain)

Block == [ops : [Streams -> Seq(Operations)], members : SUBSET Streams]

----------------------------------------------------------------------------
\* Mutant: every node of the cluster takes every partition.
allStreamParts(s) == {e \in Elements : StreamOf[e] = s}

createMyStreamParts(s) ==
    {e \in Elements : StreamOf[e] = s /\ keyToArrayIndex[e] = myIndexInCluster}

\* What a correct node holds once it knows the chain up to block b.
MyStreamPartsAt(b) ==
    {e \in Elements : /\ keyToArrayIndex[e] = myIndexInCluster
                      /\ StreamOf[e] \in chain[b].members}

\* Mutant: the removed stream parts are never handed to the listener.
handleAddedOnly(diff) ==
    joins' = [e \in Elements |-> IF e \in diff.added THEN joins[e] + 1 ELSE joins[e]]

handleDiff(diff) ==
    joins' = [e \in Elements |->
                IF e \in diff.added THEN joins[e] + 1
                ELSE IF e \in diff.removed THEN joins[e] - 1 ELSE joins[e]]

----------------------------------------------------------------------------
Init ==
    /\ SyncInit
    /\ chain = <<>>
    /\ joins = [e \in Elements |-> 0]

\* The ops of one block: at most MaxChanges of them for each stream.
BlockOps ==
    {ops \in [Streams -> UNION {[1..n -> Operations] : n \in 0..MaxChanges}] :
        \A s \in SteadyStreams : Len(ops[s]) <= 1}

Assigned(s, ops, before) ==
    IF ops = <<>> THEN s \in before ELSE ops[Len(ops)] = "added"

NewBlock ==
    /\ Len(chain) < MaxBlock
    /\ \E ops \in BlockOps, before \in SUBSET Streams :
        \* streams may have been assigned before the first block of a behaviour
        /\ Len(chain) > 0 => before = chain[Len(chain)].members
        /\ chain' = Append(chain,
                [ops |-> ops, members |-> {s \in Streams : Assigned(s, ops[s], before)}])
    /\ UNCHANGED <<syncVars, joins>>

\* LogStoreEventListener.handleEvent, from the moment getStream has answered.
handleEvent(b, s, i) ==
    /\ LET parts == createMyStreamParts(s)
           type  == chain[b].ops[s][i]
       IN  /\ IngestPatch(parts, type, b)
           /\ handleDiff(PatchDiff(parts, type, b))
    /\ UNCHANGED chain

\* LogStorePoller.poll, from the moment getLogStoreStreams has answered.
poll(b) ==
    /\ LET parts == UNION {createMyStreamParts(s) : s \in chain[b].members}
       IN  /\ IngestSnapshot(parts, b)
           /\ handleDiff(SnapshotDiff(parts, b))
    /\ UNCHANGED chain

PollLatest == Len(chain) > 0 /\ poll(Len(chain))

Next ==
    \/ NewBlock
    \/ \E b \in Blocks : poll(b)
    \/ \E b \in Blocks, s \in Streams :
            \E i \in 1..Len(chain[b].ops[s]) : handleEvent(b, s, i)

Spec == Init /\ [][Next]_vars

\* The poller repeats for as long as the node runs (pollInterval > 0), and its
\* index catches up with the chain: a poll of the latest block is not put off
\* for ever.  Events are not fair: they may all be lost.
FairSpec == Spec /\ WF_vars(PollLatest)

----------------------------------------------------------------------------
TypeOK ==
    /\ SyncTypeOK
    /\ chain \in Seq(Block)
    /\ joins \in [Elements -> Int]

\* The newest block whose effect on e this node has taken into account.
KnownBlock(e) ==
    IF lastSequenceNoByElement[e] > lastSnapshotSequenceNo
    THEN lastSequenceNoByElement[e] ELSE lastSnapshotSequenceNo

SteadyParts == {e \in Elements : StreamOf[e] \in SteadyStreams}

\* Whatever events were lost, duplicated or overtaken by others or by stale
\* polls, the set agrees on a stream part with ONE block of the chain, the
\* newest this node has heard of for that part (SetMembershipSynchronizer.ts
\* 42-119).  Stated for the streams that change at most once per block: a second
\* change within a block has the same sequence number and is ignored.
AgreesWithChain ==
    \A e \in SteadyParts :
        IF KnownBlock(e) = 0
        THEN e \notin state
        ELSE /\ KnownBlock(e) \in Blocks
             /\ e \in state <=> e \in MyStreamPartsAt(KnownBlock(e))

\* The listener was told exactly the changes the set went through: replaying
\* the diffs (handleDiff, 113-122) gives the set back, with no stream part
\* joined twice or left without having been joined.
ListenerMirrorsState ==
    \A e \in Elements : joins[e] = IF e \in state THEN 1 ELSE 0

\* The node is a replica of the chain that only moves forward: every operation
\* is a step of ChainReplica or leaves the replica alone, so no event or poll
\* answer, however late, replaces what is known of a stream part by something
\* older (the stale-sequence guards, SetMembershipSynchronizer.ts 43-58, 88-94).
Replica == INSTANCE ChainReplica WITH
    Elements <- SteadyParts,
    truth <- [b \in Blocks |-> MyStreamPartsAt(b) \cap SteadyParts],
    known <- [e \in SteadyParts |-> KnownBlock(e)],
    view  <- state \cap SteadyParts

ImplementsReplica == Replica!Spec

\* The node stores what the latest block assigns to it.
InSync == Len(chain) > 0 => state = MyStreamPartsAt(Len(chain))

\* "if the real-time system fails, polling acts as a sort-of backup system"
\* (LogStoreNetworkConfig.ts 31-34): once the chain rests (its length is
\* bounded, so it does), the node ends up with the latest assignments for good,
\* whatever events it missed and even if a stream changed several times within
\* one block.
Convergence == <>[]InSync
=============================================================================
