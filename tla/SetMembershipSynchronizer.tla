--------------------- MODULE SetMembershipSynchronizer ---------------------
(***************************************************************************)
(* utils/SetMembershipSynchronizer.ts: a set that is told about itself in  *)
(* two ways, by whole snapshots and by patches of some of its elements,    *)
(* each stamped with a sequence number (a block number for its two users). *)
(* Both operations return the diff they made to the set.                   *)
(***************************************************************************)
EXTENDS Integers

CONSTANT Elements

VARIABLES
    lastSnapshotSequenceNo,
    state,
    lastSequenceNoByElement   \* 0 stands for "no entry", as `get(..) || 0` reads it

syncVars == <<lastSnapshotSequenceNo, state, lastSequenceNoByElement>>

Operations == {"added", "removed"}

EMPTY_DIFF == [added |-> {}, removed |-> {}]

SyncInit ==
    /\ lastSnapshotSequenceNo = 0
    /\ state = {}
    /\ lastSequenceNoByElement = [e \in Elements |-> 0]

----------------------------------------------------------------------------
\* Mutant: the sequence number is compared the wrong way round at equality,
\* so that the same or an older snapshot is taken again.
AnySnapshotIsFresh(sequenceNo) == TRUE

\* The guard of ingestSnapshot and, with the same wording, of ingestPatch.
IsFresh(sequenceNo) == sequenceNo > lastSnapshotSequenceNo

\* Mutant: "delete stale patches" forgotten.
EveryPatch(sequenceNo) == {e \in Elements : lastSequenceNoByElement[e] # 0}

\* The elements whose patch outlives a snapshot taken at sequenceNo.
SurvivingPatches(sequenceNo) ==
    {e \in Elements : lastSequenceNoByElement[e] > sequenceNo}

\* The state after a snapshot: what it lists, except that an element with a
\* surviving patch keeps the membership it had.
PatchedSnapshot(elements, sequenceNo) ==
    LET patched == SurvivingPatches(sequenceNo)
    IN  (elements \ patched) \cup (state \cap patched)

\* Mutant: the diff is taken against the elements of the snapshot itself.
UnpatchedSnapshotDiff(elements, sequenceNo) ==
    [added |-> elements \ state, removed |-> state \ elements]

SnapshotDiff(elements, sequenceNo) ==
    IF IsFresh(sequenceNo)
    THEN LET after == PatchedSnapshot(elements, sequenceNo)
         IN  [added |-> after \ state, removed |-> state \ after]
    ELSE EMPTY_DIFF

\* Mutant: a patch that is deleted leaves -1 behind.
IngestSnapshotMarked(elements, sequenceNo) ==
    IF IsFresh(sequenceNo)
    THEN /\ lastSnapshotSequenceNo' = sequenceNo
         /\ lastSequenceNoByElement' =
                [e \in Elements |-> IF e \in SurvivingPatches(sequenceNo)
                                    THEN lastSequenceNoByElement[e] ELSE -1]
         /\ state' = PatchedSnapshot(elements, sequenceNo)
    ELSE UNCHANGED syncVars

IngestSnapshot(elements, sequenceNo) ==
    IF IsFresh(sequenceNo)
    THEN /\ lastSnapshotSequenceNo' = sequenceNo
         /\ lastSequenceNoByElement' =
                [e \in Elements |-> IF e \in SurvivingPatches(sequenceNo)
                                    THEN lastSequenceNoByElement[e] ELSE 0]
         /\ state' = PatchedSnapshot(elements, sequenceNo)
    ELSE UNCHANGED syncVars

----------------------------------------------------------------------------
\* Mutant: an older patch of an element overwrites a newer one.
AllElements(elements, sequenceNo) == elements

NonStaleElements(elements, sequenceNo) ==
    {e \in elements : sequenceNo > lastSequenceNoByElement[e]}

PatchDiff(elements, operation, sequenceNo) ==
    IF ~IsFresh(sequenceNo)
    THEN EMPTY_DIFF
    ELSE LET fresh == NonStaleElements(elements, sequenceNo)
         IN  IF operation = "added"
             THEN [added |-> fresh \ state, removed |-> {}]
             ELSE [added |-> {}, removed |-> fresh \cap state]

IngestPatch(elements, operation, sequenceNo) ==
    IF ~IsFresh(sequenceNo)
    THEN UNCHANGED syncVars
    ELSE LET fresh == NonStaleElements(elements, sequenceNo)
         IN  /\ lastSequenceNoByElement' =
                    [e \in Elements |-> IF e \in fresh THEN sequenceNo
                                        ELSE lastSequenceNoByElement[e]]
             /\ state' = IF operation = "added" THEN state \cup fresh
                                                ELSE state \ fresh
             /\ UNCHANGED lastSnapshotSequenceNo

----------------------------------------------------------------------------
SyncTypeOK ==
    /\ lastSnapshotSequenceNo \in Nat
    /\ state \subseteq Elements
    /\ lastSequenceNoByElement \in [Elements -> Nat]
=============================================================================
