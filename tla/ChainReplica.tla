--------------------------- MODULE ChainReplica ---------------------------
(***************************************************************************)
(* What the assignment synchronisation promises: a replica of a set whose  *)
(* history is written block by block.  Each element of the replica shows   *)
(* the set as it was at one block, and moves only to later blocks; it may  *)
(* skip blocks, and elements need not move together.                       *)
(***************************************************************************)
EXTENDS Integers, Sequences

CONSTANT Elements

VARIABLES
    truth,    \* block number -> the set after that block
    known,    \* element -> the block the replica shows it at, 0 at first
    view      \* the replica

replicaVars == <<truth, known, view>>

Init ==
    /\ truth = <<>>
    /\ known = [e \in Elements |-> 0]
    /\ view = {}

Grow ==
    /\ \E S \in SUBSET Elements : truth' = Append(truth, S)
    /\ UNCHANGED <<known, view>>

Learn ==
    /\ \E blocks \in [Elements -> 0..Len(truth)] :
        /\ \A e \in Elements : blocks[e] >= known[e]
        /\ known' = blocks
        /\ view' = {e \in Elements : IF blocks[e] > known[e]
                                     THEN e \in truth[blocks[e]] ELSE e \in view}
    /\ UNCHANGED truth

Next == Grow \/ Learn

Spec == Init /\ [][Next]_replicaVars
=============================================================================
