---------------------------- MODULE MCQueryNetwork ----------------------------
(***************************************************************************)
(* A query over two references in a network of two foreign nodes.           *)
(***************************************************************************)
EXTENDS QueryNetwork

CONSTANTS f, g    \* the foreign nodes

Copies(r) == Cardinality({n \in Nodes : r \in stored[n]})

\* Every message is at one node, or the first is at several and the others are nowhere.  The
\* foreign nodes are alike: of two placements that differ in their names only, one is taken.
MCInit ==
    /\ Init
    /\ \/ \A r \in Refs : Copies(r) = 1
       \/ Copies(1) > 1 /\ \A r \in Refs \ {1} : Copies(r) = 0
    /\ Cardinality(stored[g]) <= Cardinality(stored[f])
    /\ 1 \in stored[g] => 1 \in stored[f]

MCSpec == MCInit /\ [][Next]_vars /\ WF_vars(Steps)
=============================================================================
