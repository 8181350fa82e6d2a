--------------------------- MODULE AdvisoryClaims ---------------------------
(***************************************************************************)
(* What the daemon promises about claims, with no connection, lock, table  *)
(* or pruning in sight.  A path is held by at most one session, until a    *)
(* second the holder chose.  A claim in force is taken away only by the    *)
(* clock, by a release its own session asked for, or by an acquire that    *)
(* asked for force; and whatever happens to a path happens at one instant  *)
(* between the request and its answer.  Only a daemon that ends without    *)
(* its last save takes a claim away, or brings one back, unasked.          *)
(***************************************************************************)
EXTENDS Naturals

CONSTANTS Sessions, Paths, None

Request ==
  [kind: {"acquire"}, sid: Sessions, path: Paths, ttl: Nat, force: BOOLEAN]
    \cup [kind: {"release"}, sid: Sessions, path: Paths]

Holding == [sid: Sessions, ttl: Nat]

VARIABLES
  time,    \* seconds
  held,    \* held[p]: who holds p, and until when; None when nobody does
  asking,  \* requests that were made and not yet decided
  serving  \* whether there is a daemon

vars == <<time, held, asking, serving>>

InForce(holding, t) == holding # None /\ holding.ttl > t

Init ==
  /\ time \in Nat
  /\ held \in [Paths -> Holding \cup {None}]
  /\ \A p \in Paths : held[p] = None \/ InForce(held[p], time)
  /\ asking = {}
  /\ serving = TRUE

Ask ==
  /\ UNCHANGED <<time, held, serving>>
  /\ \E r \in asking' : r \in Request /\ asking' = asking \cup {r}

\* Two identical requests may be outstanding; deciding one leaves the other.
Decided(r) == asking' = asking \/ asking' = asking \ {r}

\* Requests are lost with the connections they were made on, or refused.
Withdraw ==
  /\ UNCHANGED <<time, held, serving>>
  /\ asking' \subseteq asking

\* An acquire whose ttl has already passed leaves the path free.
Acquire(r) ==
  /\ r \in asking /\ r.kind = "acquire"
  /\ held[r.path] = None \/ held[r.path].sid = r.sid \/ r.force
  /\ held' = [held EXCEPT ![r.path] =
                IF r.ttl > time THEN [sid |-> r.sid, ttl |-> r.ttl] ELSE None]
  /\ Decided(r)
  /\ UNCHANGED <<time, serving>>

Release(r) ==
  /\ r \in asking /\ r.kind = "release"
  /\ held[r.path] # None /\ held[r.path].sid = r.sid
  /\ held' = [held EXCEPT ![r.path] = None]
  /\ Decided(r)
  /\ UNCHANGED <<time, serving>>

Tick ==
  /\ time' = time + 1
  /\ held' = [p \in Paths |-> IF InForce(held[p], time') THEN held[p] ELSE None]
  /\ UNCHANGED <<asking, serving>>

\* The daemon ends: what it had not saved is lost, what was undone since is back.
Stop ==
  /\ serving /\ ~serving'
  /\ held' \in [Paths -> Holding \cup {None}]
  /\ asking' \subseteq asking
  /\ UNCHANGED time

Start ==
  /\ ~serving /\ serving'
  /\ UNCHANGED <<time, held, asking>>

Next ==
  \/ Withdraw
  \/ Ask
  \/ \E r \in asking : Acquire(r) \/ Release(r)
  \/ Tick
  \/ Stop \/ Start

Spec == Init /\ [][Next]_vars
=============================================================================
