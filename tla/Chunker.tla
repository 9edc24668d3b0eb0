------------------------------ MODULE Chunker ------------------------------
(***************************************************************************)
(* plugins/logStore/Chunker.ts: groups the items written to it and hands   *)
(* each group to a callback when it is large enough, and what is left, as  *)
(* the final group, when the stream finishes.  Items are message           *)
(* references; only which of them were handed over is kept.                *)
(***************************************************************************)
EXTENDS Integers, FiniteSets

CONSTANT itemsLimit

ASSUME ItemsLimitAssumption == itemsLimit \in Nat \ {0}

\* items: written and not handed over; out: handed over; isFinal: the final
\* group has been handed over.
ChunkerType(Item) == [items : SUBSET Item, out : SUBSET Item, isFinal : BOOLEAN]

NewChunker == [items |-> {}, out |-> {}, isFinal |-> FALSE]

\* finishCunkIfReady hands the group over.
HandOver(c, isFinal) ==
    [items |-> {}, out |-> c.out \cup c.items, isFinal |-> c.isFinal \/ isFinal]

\* _transform.  Sizes are abstracted, so the byte limit may be met by any write
\* (bytesFull); the item limit is the code's.
Transform(c, item, bytesFull) ==
    LET pushed == [c EXCEPT !.items = @ \cup {item}]
    IN  IF bytesFull \/ Cardinality(pushed.items) >= itemsLimit
        THEN HandOver(pushed, FALSE)
        ELSE pushed

\* Mutant: the group left over is dropped when the stream finishes.
FinishEmpty(c) == [c EXCEPT !.items = {}, !.isFinal = TRUE]

\* The 'finish' listener.
Finish(c) == HandOver(c, TRUE)
=============================================================================
