---------------------------- MODULE MCPropagator ----------------------------
(***************************************************************************)
(* Ascending stores and a primary that answers with up to three responses; *)
(* and, with up to two, one store in any order, or one message that no     *)
(* query by reference finds.                                               *)
(***************************************************************************)
EXTENDS Propagator

MCInit ==
    /\ Init
    /\ Cardinality(hidden) <= 1
    /\ \/ Ascending /\ hidden = {}
       \/ /\ Cardinality(wire) <= 2
          /\ \/ Ascending
             \/ hidden = {} /\ Sorted(primary, primaryAt)
             \/ hidden = {} /\ Sorted(foreign, foreignAt)

MCSpec == MCInit /\ [][Next]_vars /\ WF_vars(Steps)
=============================================================================
