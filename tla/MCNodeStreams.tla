----------------------------- MODULE MCNodeStreams -----------------------------
(* One stream with two partitions and two messages of the first one. *)
EXTENDS NodeStreams

MCStreamParts == {"s#0", "s#1"}
MCStreamOf == [p \in MCStreamParts |-> "s"]
MCKind == [good |-> [part |-> "s#0", content |-> "event"],
           bad |-> [part |-> "s#0", content |-> "bad"]]
=============================================================================
