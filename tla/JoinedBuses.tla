---------------------------- MODULE JoinedBuses ----------------------------
(***************************************************************************)
(* What the uplinks promise of the nodes' buses, with no uplink, NATS,     *)
(* queue, fault or restart in sight: each bus is a log that only grows.    *)
(* What begins on one node may be repeated on the nodes of other names: as *)
(* it was said, once, with gaps but never behind a later one of the same   *)
(* node.                                                                   *)
(***************************************************************************)
EXTENDS Naturals, Sequences

CONSTANTS Nodes, NameOf, Presences, None

VARIABLE log   \* log[n]: what was broadcast on node n's bus

\* The messages of node n on node p's bus.
Said(n, p) == {m \in {log[p][i] : i \in DOMAIN log[p]} : m.origin = n}

Later(m, messages) == \A x \in messages : x.num < m.num

Init == log = [n \in Nodes |-> <<>>]

\* Numbers stand for the order in which one node's messages begin.
Say(n) ==
  \E m \in Said(n, n)' :
    /\ m \in [origin: {n}, num: Nat \ {0}, about: Presences \cup {None}]
    /\ Later(m, Said(n, n))
    /\ log' = [log EXCEPT ![n] = Append(@, m)]

Repeat(n, p) ==
  /\ NameOf[n] # NameOf[p]
  /\ \E m \in Said(n, n) :
       /\ Later(m, Said(n, p))
       /\ log' = [log EXCEPT ![p] = Append(@, m)]

Next == \E n \in Nodes : Say(n) \/ \E p \in Nodes : Repeat(n, p)

Spec == Init /\ [][Next]_log
=============================================================================
