-------------------- MODULE LogStoreNetworkConfigProofs --------------------
(***************************************************************************)
(* Proofs about LogStoreNetworkConfig for any set of streams and stream    *)
(* parts, any cluster, and chains of any length.                           *)
(***************************************************************************)
EXTENDS LogStoreNetworkConfig, TLAPS

\* A block's recorded assignments are the outcome of its own changes: external
\* chain bookkeeping that the proof of AgreesWithChain rests on.
ChainOK ==
    \A b \in Blocks, s \in Streams :
        LET ops == chain[b].ops[s]
        IN  /\ s \in SteadyStreams => Len(ops) <= 1
            /\ ops # <<>> => (s \in chain[b].members <=> ops[Len(ops)] = "added")

----------------------------------------------------------------------------
\* The parts handed to the synchronizer are always stream parts, and a patch or
\* a snapshot keeps the synchronizer's types (SetMembershipSynchronizer.ts 42-119).
LEMMA SyncTypes ==
    ASSUME SyncTypeOK, NEW elements \in SUBSET Elements, NEW n \in Nat,
           NEW op \in Operations
    PROVE  /\ IngestPatch(elements, op, n) => SyncTypeOK'
           /\ IngestSnapshot(elements, n) => SyncTypeOK'
  BY DEF SyncTypeOK, IngestPatch, IngestSnapshot, syncVars, NonStaleElements,
         PatchedSnapshot, SurvivingPatches, IsFresh

\* A new block is well-formed and its members follow from its changes.
LEMMA BlockOpsType == BlockOps \subseteq [Streams -> Seq(Operations)]
<1> SUFFICES ASSUME NEW n \in Nat PROVE [1..n -> Operations] \subseteq Seq(Operations)
  BY ConfigAssumption DEF BlockOps
<1> QED
  OBVIOUS

\* Init establishes the types and every operation keeps them.
THEOREM TypeCorrect == Spec => []TypeOK
<1>1. Init => TypeOK
  BY DEF Init, SyncInit, TypeOK, SyncTypeOK
<1>2. TypeOK /\ [Next]_vars => TypeOK'
  <2> SUFFICES ASSUME TypeOK, [Next]_vars PROVE TypeOK'
    OBVIOUS
  <2>1. CASE NewBlock
    <3>1. PICK ops \in BlockOps, before \in SUBSET Streams :
             chain' = Append(chain, [ops |-> ops,
                        members |-> {s \in Streams : Assigned(s, ops[s], before)}])
      BY <2>1 DEF NewBlock
    <3>2. chain' \in Seq(Block)
      BY <3>1, BlockOpsType DEF TypeOK, Block
    <3> QED
      BY <2>1, <3>2 DEF NewBlock, TypeOK, SyncTypeOK, syncVars
  <2>2. ASSUME NEW b \in Blocks, poll(b) PROVE TypeOK'
    <3> DEFINE parts == UNION {createMyStreamParts(s) : s \in chain[b].members}
    <3>1. parts \in SUBSET Elements /\ b \in Nat
      BY DEF createMyStreamParts, Blocks, TypeOK
    <3>2. SyncTypeOK'
      BY <2>2, <3>1, SyncTypes DEF poll, TypeOK, Operations
    <3>3. joins' \in [Elements -> Int]
      BY <2>2 DEF poll, handleDiff, TypeOK
    <3> QED
      BY <2>2, <3>2, <3>3 DEF poll, TypeOK
  <2>3. ASSUME NEW b \in Blocks, NEW s \in Streams,
               NEW i \in 1..Len(chain[b].ops[s]), handleEvent(b, s, i)
        PROVE  TypeOK'
    <3>0. chain[b] \in Block
      BY DEF Blocks, TypeOK
    <3>1. /\ createMyStreamParts(s) \in SUBSET Elements
          /\ b \in Nat
          /\ chain[b].ops[s][i] \in Operations
      BY <3>0 DEF createMyStreamParts, Blocks, Block
    <3>2. SyncTypeOK'
      BY <2>3, <3>1, SyncTypes DEF handleEvent, TypeOK
    <3>3. joins' \in [Elements -> Int]
      BY <2>3 DEF handleEvent, handleDiff, TypeOK
    <3> QED
      BY <2>3, <3>2, <3>3 DEF handleEvent, TypeOK
  <2>4. CASE UNCHANGED vars
    BY <2>4 DEF vars, syncVars, TypeOK, SyncTypeOK
  <2> QED
    BY <2>1, <2>2, <2>3, <2>4 DEF Next
<1> QED
  BY <1>1, <1>2, PTL DEF Spec

----------------------------------------------------------------------------
\* The chain never contradicts itself: NewBlock is the only action to extend it.
LEMMA ChainCorrect == Spec => []ChainOK
<1>1. Init => ChainOK
  BY DEF Init, ChainOK, Blocks
<1>2. TypeOK /\ ChainOK /\ [Next]_vars => ChainOK'
  <2> SUFFICES ASSUME TypeOK, ChainOK, [Next]_vars PROVE ChainOK'
    OBVIOUS
  <2>1. CASE NewBlock
    <3>1. PICK ops \in BlockOps, before \in SUBSET Streams :
             chain' = Append(chain, [ops |-> ops,
                        members |-> {s \in Streams : Assigned(s, ops[s], before)}])
      BY <2>1 DEF NewBlock
    <3> DEFINE n == Len(chain) + 1
    <3>2. /\ Len(chain') = n
          /\ \A b \in Blocks : chain'[b] = chain[b]
          /\ chain'[n].ops = ops
          /\ chain'[n].members = {s \in Streams : Assigned(s, ops[s], before)}
      BY <3>1 DEF TypeOK, Blocks
    <3>3. ASSUME NEW s \in Streams
          PROVE  /\ s \in SteadyStreams => Len(ops[s]) <= 1
                 /\ ops[s] # <<>> =>
                      (s \in chain'[n].members <=> ops[s][Len(ops[s])] = "added")
      <4>1. s \in SteadyStreams => Len(ops[s]) <= 1
        BY DEF BlockOps
      <4> QED
        BY <3>2, <4>1 DEF Assigned
    <3>4. Blocks' = Blocks \cup {n}
      BY <3>2 DEF Blocks, TypeOK
    <3> QED
      BY <3>2, <3>3, <3>4 DEF ChainOK
  <2>2. CASE UNCHANGED chain
    BY <2>2 DEF ChainOK, Blocks
  <2> QED
    BY <2>1, <2>2 DEF Next, poll, handleEvent, vars
<1> QED
  BY <1>1, <1>2, TypeCorrect, PTL DEF Spec

----------------------------------------------------------------------------
\* The stream parts of a poll answer are exactly the ones a node that knows
\* the polled block should hold (LogStoreNetworkConfig.ts 60-62, 104-111).
LEMMA PolledParts ==
    ASSUME TypeOK, NEW b \in Blocks
    PROVE  UNION {createMyStreamParts(s) : s \in chain[b].members} = MyStreamPartsAt(b)
  <1>1. chain[b] \in Block
    BY DEF TypeOK, Blocks
  <1> QED
    BY <1>1 DEF createMyStreamParts, MyStreamPartsAt, Block

\* An event of block b says whether its stream is assigned after block b, if the
\* stream changes at most once within a block.
LEMMA EventIsOutcome ==
    ASSUME TypeOK, ChainOK,
           NEW b \in Blocks, NEW s \in SteadyStreams, NEW i \in 1..Len(chain[b].ops[s])
    PROVE  /\ chain[b].ops[s][i] \in Operations
           /\ s \in chain[b].members <=> chain[b].ops[s][i] = "added"
  <1> s \in Streams
    BY ConfigAssumption
  <1>0. chain[b] \in Block
    BY DEF TypeOK, Blocks
  <1>1. chain[b].ops[s] \in Seq(Operations)
    BY <1>0 DEF Block
  <1>2. i = Len(chain[b].ops[s]) /\ chain[b].ops[s] # <<>>
    BY <1>1 DEF ChainOK
  <1>3. chain[b].ops[s][i] \in Operations
    BY <1>1, <1>2
  <1> QED
    BY <1>2, <1>3 DEF ChainOK

\* AgreesWithChain is inductive given the types and the chain's bookkeeping: a
\* snapshot rewrites exactly the parts it is newer for, a patch exactly the parts
\* it is newer for, and what an old block said never changes.
LEMMA AgreementStep ==
    ASSUME TypeOK, ChainOK, AgreesWithChain, [Next]_vars
    PROVE  AgreesWithChain'
<1>1. CASE NewBlock
  <2>1. /\ \A b \in Blocks : b \in Blocks' /\ chain'[b] = chain[b]
        /\ UNCHANGED <<lastSnapshotSequenceNo, state, lastSequenceNoByElement>>
    BY <1>1 DEF NewBlock, TypeOK, Blocks, syncVars
  <2> QED
    BY <2>1 DEF AgreesWithChain, KnownBlock, MyStreamPartsAt, SteadyParts
<1>2. ASSUME NEW b \in Blocks, poll(b) PROVE AgreesWithChain'
  <2>1. IngestSnapshot(MyStreamPartsAt(b), b) /\ UNCHANGED chain
    BY <1>2, PolledParts DEF poll
  <2>2. b \in Nat /\ b > 0
    BY DEF Blocks, TypeOK
  <2>3. MyStreamPartsAt(b) \subseteq Elements
    BY DEF MyStreamPartsAt
  <2>4. CASE ~IsFresh(b)
    BY <2>1, <2>4 DEF IngestSnapshot, syncVars, AgreesWithChain, KnownBlock,
       MyStreamPartsAt, Blocks
  <2>5. CASE IsFresh(b)
    <3> SUFFICES ASSUME NEW e \in SteadyParts
                 PROVE  /\ KnownBlock(e)' # 0
                        /\ KnownBlock(e)' \in Blocks
                        /\ e \in state' <=> e \in MyStreamPartsAt(KnownBlock(e)')
      BY <2>1 DEF AgreesWithChain, MyStreamPartsAt, Blocks, KnownBlock
    <3>1. /\ lastSnapshotSequenceNo' = b
          /\ lastSequenceNoByElement'[e] = IF lastSequenceNoByElement[e] > b
                                            THEN lastSequenceNoByElement[e] ELSE 0
          /\ e \in state' <=> IF lastSequenceNoByElement[e] > b
                               THEN e \in state ELSE e \in MyStreamPartsAt(b)
      BY <2>1, <2>3, <2>5 DEF IngestSnapshot, PatchedSnapshot, SurvivingPatches, SteadyParts
    <3>2. lastSequenceNoByElement[e] \in Nat /\ lastSnapshotSequenceNo \in Nat
      BY DEF TypeOK, SyncTypeOK, SteadyParts
    <3>3. CASE lastSequenceNoByElement[e] > b
      <4>1. KnownBlock(e) = lastSequenceNoByElement[e] /\ KnownBlock(e)' = KnownBlock(e)
        BY <2>2, <2>5, <3>1, <3>2, <3>3 DEF KnownBlock, IsFresh
      <4> QED
        BY <2>2, <3>1, <3>2, <3>3, <4>1 DEF AgreesWithChain
    <3>4. CASE ~(lastSequenceNoByElement[e] > b)
      BY <2>2, <3>1, <3>2, <3>4 DEF KnownBlock
    <3> QED
      BY <3>3, <3>4
  <2> QED
    BY <2>4, <2>5
<1>3. ASSUME NEW b \in Blocks, NEW s \in Streams,
             NEW i \in 1..Len(chain[b].ops[s]), handleEvent(b, s, i)
      PROVE  AgreesWithChain'
  <2> DEFINE parts == createMyStreamParts(s)
             type  == chain[b].ops[s][i]
  <2>1. IngestPatch(parts, type, b) /\ UNCHANGED chain
    BY <1>3 DEF handleEvent
  <2>2. b \in Nat /\ b > 0
    BY DEF Blocks, TypeOK
  <2>3. ASSUME s \in SteadyStreams
        PROVE  s \in chain[b].members <=> type = "added"
    BY <2>3, EventIsOutcome
  <2>4. CASE ~IsFresh(b)
    BY <2>1, <2>4 DEF IngestPatch, syncVars, AgreesWithChain, KnownBlock,
       MyStreamPartsAt, Blocks
  <2>5. CASE IsFresh(b)
    <3> SUFFICES ASSUME NEW e \in SteadyParts
                 PROVE  IF KnownBlock(e)' = 0 THEN e \notin state'
                        ELSE /\ KnownBlock(e)' \in Blocks
                             /\ e \in state' <=> e \in MyStreamPartsAt(KnownBlock(e)')
      BY <2>1 DEF AgreesWithChain, MyStreamPartsAt, Blocks, KnownBlock
    <3>0. lastSequenceNoByElement[e] \in Nat /\ lastSnapshotSequenceNo \in Nat
      BY DEF TypeOK, SyncTypeOK, SteadyParts
    <3>1. CASE e \in parts /\ b > lastSequenceNoByElement[e]
      <4>1. /\ lastSnapshotSequenceNo' = lastSnapshotSequenceNo
            /\ lastSequenceNoByElement'[e] = b
            /\ e \in state' <=> type = "added"
        BY <2>1, <2>5, <3>1 DEF IngestPatch, NonStaleElements, SteadyParts
      <4>2. KnownBlock(e)' = b
        BY <2>2, <2>5, <3>0, <4>1 DEF KnownBlock, IsFresh
      <4>3. /\ s \in SteadyStreams
            /\ e \in MyStreamPartsAt(b) <=> s \in chain[b].members
        BY <3>1 DEF MyStreamPartsAt, createMyStreamParts, SteadyParts
      <4> QED
        BY <2>2, <2>3, <4>1, <4>2, <4>3
    <3>2. CASE ~(e \in parts /\ b > lastSequenceNoByElement[e])
      <4>1. /\ lastSnapshotSequenceNo' = lastSnapshotSequenceNo
            /\ lastSequenceNoByElement'[e] = lastSequenceNoByElement[e]
            /\ e \in state' <=> e \in state
        BY <2>1, <2>5, <3>2 DEF IngestPatch, NonStaleElements, SteadyParts
      <4>2. KnownBlock(e)' = KnownBlock(e)
        BY <4>1 DEF KnownBlock
      <4> QED
        BY <4>1, <4>2 DEF AgreesWithChain
    <3> QED
      BY <3>1, <3>2
  <2> QED
    BY <2>4, <2>5
<1>4. CASE UNCHANGED vars
  BY <1>4 DEF vars, syncVars, AgreesWithChain, KnownBlock, MyStreamPartsAt, Blocks
<1> QED
  BY <1>1, <1>2, <1>3, <1>4 DEF Next

\* For the streams that change at most once within a block, the set agrees with
\* the chain part by part, whatever the two sources lose, repeat or reorder
\* (SetMembershipSynchronizer.ts 42-119).
THEOREM Agreement == Spec => []AgreesWithChain
<1>1. Init => AgreesWithChain
  BY DEF Init, SyncInit, AgreesWithChain, KnownBlock, SteadyParts
<1>2. TypeOK /\ ChainOK /\ AgreesWithChain /\ [Next]_vars => AgreesWithChain'
  BY AgreementStep
<1> QED
  BY <1>1, <1>2, TypeCorrect, ChainCorrect, PTL DEF Spec

----------------------------------------------------------------------------
\* Each diff is exactly what its operation does to the set, so the listener's
\* joins always mirror the set (LogStoreNetworkConfig.ts 113-122,
\* SetMembershipSynchronizer.ts 71-74, 100-118).  No assumption on the chain.
THEOREM ListenerMirror == Spec => []ListenerMirrorsState
<1>1. Init => ListenerMirrorsState
  BY DEF Init, SyncInit, ListenerMirrorsState
<1>2. TypeOK /\ ListenerMirrorsState /\ [Next]_vars => ListenerMirrorsState'
  <2> SUFFICES ASSUME TypeOK, ListenerMirrorsState, [Next]_vars
               PROVE  ListenerMirrorsState'
    OBVIOUS
  <2>1. CASE NewBlock
    BY <2>1 DEF NewBlock, ListenerMirrorsState, syncVars
  <2>2. ASSUME NEW b \in Blocks, poll(b) PROVE ListenerMirrorsState'
    <3> DEFINE parts == MyStreamPartsAt(b)
               d     == SnapshotDiff(parts, b)
    <3>1. IngestSnapshot(parts, b) /\ handleDiff(d)
      BY <2>2, PolledParts DEF poll
    <3>2. d.added = state' \ state /\ d.removed = state \ state'
      BY <3>1 DEF IngestSnapshot, SnapshotDiff, EMPTY_DIFF, syncVars
    <3> QED
      BY <3>1, <3>2 DEF handleDiff, ListenerMirrorsState
  <2>3. ASSUME NEW b \in Blocks, NEW s \in Streams,
               NEW i \in 1..Len(chain[b].ops[s]), handleEvent(b, s, i)
        PROVE  ListenerMirrorsState'
    <3> DEFINE parts == createMyStreamParts(s)
               d     == PatchDiff(parts, chain[b].ops[s][i], b)
    <3>1. IngestPatch(parts, chain[b].ops[s][i], b) /\ handleDiff(d)
      BY <2>3 DEF handleEvent
    <3>2. d.added = state' \ state /\ d.removed = state \ state'
      BY <3>1 DEF IngestPatch, PatchDiff, EMPTY_DIFF, syncVars
    <3> QED
      BY <3>1, <3>2 DEF handleDiff, ListenerMirrorsState
  <2>4. CASE UNCHANGED vars
    BY <2>4 DEF vars, syncVars, ListenerMirrorsState
  <2> QED
    BY <2>1, <2>2, <2>3, <2>4 DEF Next
<1> QED
  BY <1>1, <1>2, TypeCorrect, PTL DEF Spec

----------------------------------------------------------------------------
\* For the streams that change at most once within a block, the node implements
\* the forward-only replica: NewBlock is Grow, every poll and event is a Learn
\* step (possibly of nothing new).
THEOREM Refinement == Spec => ImplementsReplica
<1> DEFINE known == [e \in SteadyParts |-> KnownBlock(e)]
           truth == [b \in Blocks |-> MyStreamPartsAt(b) \cap SteadyParts]
           view  == state \cap SteadyParts
<1>0. SteadyParts \subseteq Elements
  BY DEF SteadyParts
<1>1. Init => Replica!Init
  BY <1>0 DEF Init, SyncInit, Replica!Init, KnownBlock, Blocks
<1>2. TypeOK /\ ChainOK /\ AgreesWithChain /\ AgreesWithChain' /\ TypeOK' /\ [Next]_vars
        => [Replica!Next]_Replica!replicaVars
  <2> SUFFICES ASSUME TypeOK, AgreesWithChain, AgreesWithChain', TypeOK', [Next]_vars,
                      ChainOK
               PROVE  Replica!Next \/ UNCHANGED Replica!replicaVars
    BY DEF Replica!replicaVars
  <2>1. CASE NewBlock
    <3>1. PICK block : chain' = Append(chain, block)
      BY <2>1 DEF NewBlock
    <3> DEFINE n == Len(chain) + 1
    <3>2. /\ Len(chain') = n /\ n \in Nat
          /\ \A b \in Blocks : chain'[b] = chain[b]
      BY <3>1 DEF TypeOK, Blocks
    <3> DEFINE new == {e \in Elements : /\ keyToArrayIndex[e] = myIndexInCluster
                                        /\ StreamOf[e] \in chain'[n].members}
                          \cap SteadyParts
    <3>3. truth' = Append(truth, new)
      <4>1. truth \in Seq(SUBSET SteadyParts) /\ Len(truth) = Len(chain)
        BY <3>2 DEF Blocks, MyStreamPartsAt, TypeOK
      <4>2. truth' = [b \in 1..n |-> IF b = n THEN new ELSE truth[b]]
        BY <3>2 DEF Blocks, MyStreamPartsAt, TypeOK
      <4>3. Append(truth, new) = [b \in 1..n |-> IF b = n THEN new ELSE truth[b]]
        BY <3>2, <4>1
      <4> QED
        BY <4>2, <4>3
    <3>4. new \in SUBSET SteadyParts
      OBVIOUS
    <3>5. known' = known /\ view' = view
      BY <2>1 DEF NewBlock, syncVars, KnownBlock
    <3> QED
      BY <3>3, <3>4, <3>5 DEF Replica!Next, Replica!Grow
  <2>2. ASSUME UNCHANGED chain,
               \A e \in SteadyParts : KnownBlock(e)' >= KnownBlock(e)
        PROVE  Replica!Next
    <3>1. truth' = truth /\ Len(truth) = Len(chain) /\ Len(chain) \in Nat
      BY <2>2 DEF Blocks, MyStreamPartsAt, TypeOK
    <3>2. /\ \A e \in SteadyParts : KnownBlock(e) \in Nat /\ KnownBlock(e)' \in Nat
          /\ state' \subseteq Elements
      BY <1>0 DEF KnownBlock, TypeOK, SyncTypeOK
    <3>3. known' \in [SteadyParts -> 0..Len(truth)]
      BY <2>2, <3>1, <3>2 DEF AgreesWithChain, Blocks
    <3>4. \A e \in SteadyParts : known'[e] = KnownBlock(e)' /\ known[e] = KnownBlock(e)
      BY DEF KnownBlock
    <3> HIDE DEF known
    <3>5. \A e \in SteadyParts : known'[e] >= known[e]
      BY <2>2, <3>4
    <3>6. view' = {e \in SteadyParts : IF known'[e] > known[e]
                                    THEN e \in truth[known'[e]] ELSE e \in view}
      <4> SUFFICES ASSUME NEW e \in SteadyParts
                   PROVE  e \in state' <=> IF known'[e] > known[e]
                                     THEN e \in truth[known'[e]] ELSE e \in state
        BY <3>2
      <4>1. KnownBlock(e)' # 0 =>
              /\ KnownBlock(e)' \in Blocks
              /\ e \in state' <=> e \in truth[KnownBlock(e)']
        <5>1. ASSUME KnownBlock(e)' # 0
              PROVE  /\ KnownBlock(e)' \in Blocks
                     /\ e \in state' <=> e \in MyStreamPartsAt(KnownBlock(e))'
          BY <2>2, <5>1 DEF AgreesWithChain, Blocks
        <5>2. MyStreamPartsAt(KnownBlock(e))' = MyStreamPartsAt(KnownBlock(e)')
          BY <2>2 DEF MyStreamPartsAt
        <5> QED
          BY <5>1, <5>2
      <4>2. CASE known'[e] > known[e]
        BY <3>2, <3>4, <4>1, <4>2
      <4>3. CASE ~(known'[e] > known[e]) /\ KnownBlock(e)' = 0
        <5>1. KnownBlock(e) = 0
          BY <3>2, <3>4, <3>5, <4>3
        <5> QED
          BY <4>3, <5>1 DEF AgreesWithChain
      <4>4. CASE ~(known'[e] > known[e]) /\ KnownBlock(e)' # 0
        <5>1. KnownBlock(e)' = KnownBlock(e)
          BY <3>2, <3>4, <3>5, <4>4
        <5>2. e \in state <=> e \in truth[KnownBlock(e)]
          BY <4>4, <5>1 DEF AgreesWithChain
        <5> QED
          BY <4>1, <4>4, <5>1, <5>2
      <4> QED
        BY <4>2, <4>3, <4>4
    <3>7. Replica!Learn
      BY <3>1, <3>3, <3>5, <3>6 DEF Replica!Learn, known
    <3> QED
      BY <3>7 DEF Replica!Next
  <2>3. ASSUME NEW b \in Blocks, poll(b) PROVE Replica!Next
    <3>1. IngestSnapshot(MyStreamPartsAt(b), b) /\ UNCHANGED chain
      BY <2>3, PolledParts DEF poll
    <3>2. b \in Nat
      BY DEF Blocks, TypeOK
    <3>3. ASSUME NEW e \in SteadyParts
          PROVE  KnownBlock(e)' >= KnownBlock(e)
      <4>0. lastSequenceNoByElement[e] \in Nat /\ lastSnapshotSequenceNo \in Nat
        BY <1>0 DEF TypeOK, SyncTypeOK
      <4>1. CASE IsFresh(b)
        <5>1. /\ lastSnapshotSequenceNo' = b
              /\ lastSequenceNoByElement'[e] = IF lastSequenceNoByElement[e] > b
                                                THEN lastSequenceNoByElement[e] ELSE 0
          BY <1>0, <3>1, <4>1 DEF IngestSnapshot, PatchedSnapshot, SurvivingPatches
        <5> QED
          BY <3>2, <4>0, <4>1, <5>1 DEF KnownBlock, IsFresh
      <4>2. CASE ~IsFresh(b)
        BY <3>1, <4>0, <4>2 DEF IngestSnapshot, syncVars, KnownBlock
      <4> QED
        BY <4>1, <4>2
    <3> QED
      BY <2>2, <3>1, <3>3
  <2>4. ASSUME NEW b \in Blocks, NEW s \in Streams,
               NEW i \in 1..Len(chain[b].ops[s]), handleEvent(b, s, i)
        PROVE  Replica!Next
    <3>1. IngestPatch(createMyStreamParts(s), chain[b].ops[s][i], b) /\ UNCHANGED chain
      BY <2>4 DEF handleEvent
    <3>2. b \in Nat
      BY DEF Blocks, TypeOK
    <3>3. ASSUME NEW e \in SteadyParts
          PROVE  KnownBlock(e)' >= KnownBlock(e)
      <4>0. lastSequenceNoByElement[e] \in Nat /\ lastSnapshotSequenceNo \in Nat
        BY <1>0 DEF TypeOK, SyncTypeOK
      <4>1. /\ lastSnapshotSequenceNo' = lastSnapshotSequenceNo
            /\ \/ lastSequenceNoByElement'[e] = lastSequenceNoByElement[e]
               \/ /\ b > lastSequenceNoByElement[e]
                  /\ lastSequenceNoByElement'[e] = b
        BY <1>0, <3>1 DEF IngestPatch, syncVars, NonStaleElements
      <4> QED
        BY <3>2, <4>0, <4>1 DEF KnownBlock
    <3> QED
      BY <2>2, <3>1, <3>3
  <2>5. CASE UNCHANGED vars
    BY <2>5 DEF vars, syncVars, Replica!replicaVars, KnownBlock, MyStreamPartsAt, Blocks
  <2> QED
    BY <2>1, <2>3, <2>4, <2>5 DEF Next
<1> QED
  BY <1>1, <1>2, TypeCorrect, ChainCorrect, Agreement, PTL
     DEF Spec, ImplementsReplica, Replica!Spec
=============================================================================
