-------------------------- MODULE MCDataQueryEndpoint --------------------------
(* Six messages in two buckets, and requests of every kind. *)
EXTENDS DataQueryEndpoint

Row(part, ts, seq, publisher) ==
    [part |-> part, ts |-> ts, seq |-> seq, publisher |-> publisher, chain |-> "c"]

MCRows == {Row("p", 1, 0, "a"), Row("p", 2, 0, "a"), Row("p", 2, 1, "b"), Row("p", 2, 1, "a"),
           Row("p", 3, 2, "b"), Row("other", 2, 0, "a")}

Base == [endpoint |-> "stores", auth |-> "ok", partition |-> 0, format |-> TRUE, timeout |-> 1,
         type |-> "range", stream |-> TRUE, count |-> Absent, offsets |-> FALSE,
         fromTs |-> Absent, fromSeq |-> Absent, toTs |-> Absent, toSeq |-> Absent,
         publisher |-> None, chain |-> None]

Ranges == {[Base EXCEPT !.fromTs = f[1], !.fromSeq = f[2], !.toTs = t[1], !.toSeq = t[2]] :
             f \in {<<1, Absent>>, <<2, 0>>, <<2, 1>>}, t \in {<<2, 0>>, <<2, 1>>, <<2, Absent>>, <<3, 1>>}}
          \cup {[Base EXCEPT !.fromTs = 3, !.fromSeq = 0, !.toTs = 2, !.toSeq = 1]}
Froms == {[Base EXCEPT !.type = "from", !.fromTs = 2, !.fromSeq = s] : s \in {1, NaN}}
Lasts == {[Base EXCEPT !.type = "last", !.count = n] : n \in {Absent, 3, 5, 0, -2}}
Plain == {[r EXCEPT !.stream = FALSE] : r \in Lasts \cup Froms}
         \cup {[Base EXCEPT !.stream = FALSE, !.fromTs = 1, !.fromSeq = 1, !.toTs = 3, !.toSeq = 1]}
Filtered == {[Base EXCEPT !.fromTs = 1, !.toTs = 3, !.publisher = "a", !.chain = "c"],
             [Base EXCEPT !.type = "from", !.fromTs = 1, !.publisher = "b"]}
Wrong == {[Base EXCEPT !.auth = "missing"], [Base EXCEPT !.auth = "wrong"],
          [Base EXCEPT !.auth = "malformed"],
          [Base EXCEPT !.partition = NaN], [Base EXCEPT !.format = FALSE],
          [Base EXCEPT !.type = "unknown"], [Base EXCEPT !.type = "last", !.count = NaN], Base,
          [Base EXCEPT !.endpoint = "ready", !.timeout = NaN]}
Proxied == {[r EXCEPT !.endpoint = "streams"] : r \in Froms \cup Wrong}
MCRequests == Ranges \cup Froms \cup Lasts \cup Plain \cup Filtered \cup Wrong \cup Proxied
              \cup {[Base EXCEPT !.endpoint = "ready"]}
=============================================================================
