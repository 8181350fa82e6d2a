------------------------------ MODULE MCUplink ------------------------------
(* Instances of Uplink: n1 and n2 with names of their own, n3 with the name of n1. *)
EXTENDS Uplink

CONSTANTS n1, n2, n3

TwoNames == [n \in Nodes |-> IF n = n2 THEN "b" ELSE "a"]

All(file) == [n \in Nodes |-> file]
Without3(file) == [All("enabled") EXCEPT ![n3] = file]

Nobody == [n \in Nodes |-> {}]
Of(names) == [sid: Sessions, node: names]
Some == [Nobody EXCEPT ![n1] = Of({None, "b"}), ![n2] = Of({None})]
Plain(messages, faults, file) ==
  [messages |-> messages, faults |-> faults, queries |-> 0, peers |-> Nobody, events |-> {},
   file |-> file]

\* Two nodes whose links fail, three that differ in name only in part, an uplink
\* that never starts, and presence with a query.
Scenarios == {
  Plain(2, 1, Without3("malformed")), Plain(1, 0, All("enabled")), Plain(1, 0, Without3("badurl")),
  [Plain(1, 0, Without3("absent")) EXCEPT !.queries = 1, !.peers = Some, !.events = Of({"b"})]}
=============================================================================
