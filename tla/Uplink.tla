------------------------------- MODULE Uplink -------------------------------
(***************************************************************************)
(* The uplink (uplink.rs) that joins the buses of several nodes over NATS, *)
(* the daemon's presence broadcaster and `peers --fleet` (fleet.rs).       *)
(*                                                                         *)
(* A node's bus is the log of what was broadcast on it: local subscribers  *)
(* are the subject of module Bus.  Its uplink task reads the bus through a *)
(* receiver of bounded capacity and NATS through a subscription.  NATS is  *)
(* external: a publish reaches every attached subscriber, the publisher    *)
(* too, at most once and in the order of its publisher.                    *)
(***************************************************************************)
EXTENDS Integers, Sequences, FiniteSets, SequencesExt

CONSTANTS
  Nodes,
  Names,        \* node names, in lower case
  NameOf,       \* the name each node is configured with; two may be equal
  Sessions,
  Capacity,     \* of the broadcast channel
  Budgets,      \* bounds: how many messages, faults and queries, which peers each node
                \* may have and which presence events clients may publish, and what
                \* each node's uplink.toml is
  None

ASSUME UplinkNumbers == Capacity \in Nat \ {0}
\* A presence event about a session of a node; a record of a daemon's peer table.
Presences == [sid: Sessions, node: Names]
Peer == [sid: Sessions, node: Names \cup {None}]
Budget == [messages: Nat, faults: Nat, queries: Nat,
           peers: [Nodes -> SUBSET Peer], events: SUBSET Presences,
           file: [Nodes -> {"absent", "malformed", "disabled", "badurl", "enabled"}]]
ASSUME UplinkBudgets == Budgets \subseteq Budget
ASSUME UplinkNames == NameOf \in [Nodes -> Names] /\ None \notin Nodes \cup Sessions

VARIABLES
  config,     \* the resolved configuration of each node
  pc,         \* where each node's run_uplink is
  link,       \* whether its NATS client is connected
  notices,    \* connection events its callback has not seen
  status,     \* its UplinkStatus
  log,        \* what was broadcast on its bus
  localRx,    \* what its uplink has not read of it
  outbox,     \* what its NATS client has not sent
  inbound,    \* what its subscription holds, of each publisher
  peers,      \* its daemon's peer records: the session, and the node it announced or None
  snapshot,   \* the sessions its presence broadcaster has still to announce
  query,      \* one `peers --fleet`
  budget,     \* what is left of the one of Budgets that this behaviour has
  offered,    \* history: messages broadcast locally while an uplink listened
  lost        \* history: which of them will not reach which node

uplinkVars == <<config, pc, link, notices, status>>
queueVars == <<localRx, outbox, inbound>>
fleetVars == <<peers, snapshot, query>>
vars == <<uplinkVars, log, queueVars, fleetVars, budget, offered, lost>>

Message == [origin: Nodes, num: Nat \ {0}, about: Presences \cup {None}]
Envelope == [origin_node: Names, msg: Message]
Entry == [msg: Message, from_uplink: BOOLEAN]

\* Uses up one of what the bound called field allows.
Spend(field) == budget[field] > 0 /\ budget' = [budget EXCEPT ![field] = @ - 1]

-----------------------------------------------------------------------------
(* Configuration and status *)

\* load_uplink_config: whatever is not a well-formed file that enables it is "off".
\* Mutant: only an absent file and one that says so are.
ConfigStrict(file) ==
  CASE file = "enabled" -> "on"
    [] file \in {"absent", "disabled"} -> "off"
    [] OTHER -> file
Config(file) ==
  CASE file = "enabled" -> "on"
    [] file = "badurl" -> "badurl"
    [] OTHER -> "off"

Off(n) == config[n] = "off"

\* The event callback: an event other than Connected counts as reconnecting.
\* Mutant: the status keeps saying connected.
ShownSticky(n, event) == IF event = "connected" THEN "connected" ELSE status[n]
Shown(n, event) == IF event = "connected" THEN "connected" ELSE "reconnecting"

Notice(n) ==
  /\ notices[n] # <<>>
  /\ status' = [status EXCEPT ![n] = Shown(n, Head(notices[n]))]
  /\ notices' = [notices EXCEPT ![n] = Tail(@)]
  /\ UNCHANGED <<config, pc, link, log, queueVars, fleetVars, budget, offered, lost>>

-----------------------------------------------------------------------------
(* The local bus *)

Own(n) == {i \in DOMAIN log[n] : log[n][i].origin = n}

\* The broadcast channel forgets its oldest message when a receiver is behind.
Behind(n) == Len(localRx[n]) = Capacity
Put(q, x) == Append(IF Len(q) = Capacity THEN Tail(q) ELSE q, x)

\* m will not reach any other node.
Undelivered(m) == {m} \X (Nodes \ {m.origin})

\* bcast.send on node n, and what each kind of subscriber makes of it.
Broadcast(n, m, from_uplink) ==
  /\ log' = [log EXCEPT ![n] = Append(@, m)]
  /\ IF pc[n] = "relaying"
     THEN /\ localRx' = [localRx EXCEPT
                           ![n] = Put(@, [msg |-> m, from_uplink |-> from_uplink])]
          /\ offered' = IF from_uplink THEN offered ELSE offered \cup {m}
          /\ lost' = IF Behind(n) /\ ~Head(localRx[n]).from_uplink
                     THEN lost \cup Undelivered(Head(localRx[n]).msg) ELSE lost
     ELSE UNCHANGED <<localRx, offered, lost>>
  /\ query' = IF query.phase = "collecting" /\ query.node = n /\ m.about # None
              THEN [query EXCEPT !.unread = Append(@, m.about)] ELSE query

\* A message that begins on node n.
Say(n, about) ==
  /\ Spend("messages")
  /\ Broadcast(n, [origin |-> n, num |-> Cardinality(Own(n)) + 1, about |-> about], FALSE)

\* A client of node n publishes, presence events too if it likes, and about anybody.
Publish(n) ==
  /\ \E about \in budget.events \cup {None} : Say(n, about)
  /\ UNCHANGED <<uplinkVars, outbox, inbound, peers, snapshot>>

-----------------------------------------------------------------------------
(* run_uplink *)

\* connect returns at once, connected or not, unless the URL does not parse; then
\* the subscription to wm.bus.> ...
Connect(n) ==
  /\ pc[n] = "starting"
  /\ pc' = [pc EXCEPT ![n] = IF config[n] = "badurl" THEN "ended" ELSE "subscribed"]
  /\ status' = [status EXCEPT ![n] = "reconnecting"]
  /\ UNCHANGED <<config, link, notices, log, queueVars, fleetVars, budget, offered, lost>>

\* ... and only then the receiver on the local bus.
Listen(n) ==
  /\ pc[n] = "subscribed"
  /\ pc' = [pc EXCEPT ![n] = "relaying"]
  /\ UNCHANGED <<config, link, notices, status, log, queueVars, fleetVars, budget, offered, lost>>

\* Which messages of the local bus go out.
\* Mutant: those that came in go out again.
RelaysAll(entry) == TRUE
Relays(entry) == ~entry.from_uplink

\* client.publish keeps the order of the bus.
\* Mutants: publishes are spawned and may overtake each other; they are given up
\* when one is already waiting.
QueuedFirst(q, env) == <<env>> \o q
QueuedAlone(q, env) == IF q = <<>> THEN <<env>> ELSE q
Queued(q, env) == Append(q, env)

RelayOut(n) ==
  /\ pc[n] = "relaying"
  /\ localRx[n] # <<>>
  /\ localRx' = [localRx EXCEPT ![n] = Tail(@)]
  /\ LET entry == Head(localRx[n])
         env == [origin_node |-> NameOf[n], msg |-> entry.msg]
     IN outbox' = IF Relays(entry) THEN [outbox EXCEPT ![n] = Queued(@, env)] ELSE outbox
  /\ UNCHANGED <<uplinkVars, log, inbound, fleetVars, budget, offered, lost>>

\* Self-echo: the envelope carries this node's own name.
\* Mutant: envelopes with a name are all taken for foreign ones.
EchoKept(n, env) == FALSE
SelfEcho(n, env) == env.origin_node = NameOf[n]

RelayIn(n, o) ==
  /\ pc[n] = "relaying"
  /\ inbound[n][o] # <<>>
  /\ inbound' = [inbound EXCEPT ![n][o] = Tail(@)]
  /\ IF SelfEcho(n, Head(inbound[n][o]))
     THEN UNCHANGED <<log, localRx, query, offered, lost>>
     ELSE Broadcast(n, Head(inbound[n][o]).msg, TRUE)
  /\ UNCHANGED <<uplinkVars, outbox, peers, snapshot, budget>>

-----------------------------------------------------------------------------
(* NATS (external) and the daemon's restarts *)

HasClient(n) == pc[n] \in {"subscribed", "relaying"}
Attached(n) == HasClient(n) /\ link[n]

\* The client connects in the background, as often as it takes.
LinkUp(n) ==
  /\ HasClient(n)
  /\ ~link[n]
  /\ link' = [link EXCEPT ![n] = TRUE]
  /\ notices' = [notices EXCEPT ![n] = Append(@, "connected")]
  /\ UNCHANGED <<config, pc, status, log, queueVars, fleetVars, budget, offered, lost>>

\* A publish is sent and goes to whoever is attached.
Flush(n) ==
  /\ Attached(n)
  /\ outbox[n] # <<>>
  /\ outbox' = [outbox EXCEPT ![n] = Tail(@)]
  /\ inbound' = [p \in Nodes |->
                   IF Attached(p) THEN [inbound[p] EXCEPT ![n] = Append(@, Head(outbox[n]))]
                   ELSE inbound[p]]
  /\ lost' = lost \cup ({Head(outbox[n]).msg} \X {p \in Nodes \ {n} : ~Attached(p)})
  /\ UNCHANGED <<uplinkVars, log, localRx, fleetVars, budget, offered>>

MsgsIn(q) == {q[i].msg : i \in DOMAIN q}
LostTo(n) == (UNION {MsgsIn(inbound[n][o]) : o \in Nodes \ {n}}) \X {n}
LostFrom(n, q) == UNION {Undelivered(m) : m \in {x \in MsgsIn(q) : x.origin = n}}

\* The link breaks: what was being written and what was underway to n is lost.
LinkDown(n) ==
  /\ link[n]
  /\ Spend("faults")
  /\ link' = [link EXCEPT ![n] = FALSE]
  /\ notices' = [notices EXCEPT ![n] = Append(@, "other")]
  /\ \E k \in 0..Len(outbox[n]) :
       /\ outbox' = [outbox EXCEPT ![n] = SubSeq(@, k + 1, Len(@))]
       /\ lost' = lost \cup LostFrom(n, SubSeq(outbox[n], 1, k)) \cup LostTo(n)
  /\ inbound' = [inbound EXCEPT ![n] = [o \in Nodes |-> <<>>]]
  /\ UNCHANGED <<config, pc, status, log, localRx, fleetVars, offered>>

\* The subscription overruns: a message is lost, and the callback is told although
\* the link is up.
Overrun(n, o) ==
  /\ inbound[n][o] # <<>>
  /\ Spend("faults")
  /\ notices' = [notices EXCEPT ![n] = Append(@, "other")]
  /\ inbound' = [inbound EXCEPT ![n][o] = Front(@)]
  /\ lost' = lost \cup {<<Last(inbound[n][o]).msg, n>>}
  /\ UNCHANGED <<config, pc, link, status, log, localRx, outbox, fleetVars, offered>>

\* The daemon ends, its uplink with it, and starts again.
Restart(n) ==
  /\ ~Off(n)
  /\ Spend("faults")
  /\ pc' = [pc EXCEPT ![n] = "starting"]
  /\ link' = [link EXCEPT ![n] = FALSE]
  /\ notices' = [notices EXCEPT ![n] = <<>>]
  /\ status' = [status EXCEPT ![n] = "disabled"]
  /\ localRx' = [localRx EXCEPT ![n] = <<>>]
  /\ outbox' = [outbox EXCEPT ![n] = <<>>]
  /\ inbound' = [inbound EXCEPT ![n] = [o \in Nodes |-> <<>>]]
  /\ lost' = lost \cup LostFrom(n, outbox[n]) \cup LostFrom(n, localRx[n]) \cup LostTo(n)
  /\ peers' = [peers EXCEPT ![n] = {}]
  /\ snapshot' = [snapshot EXCEPT ![n] = {}]
  /\ query' = IF query.node = n /\ query.phase = "collecting"
              THEN [query EXCEPT !.phase = "shown", !.unread = <<>>] ELSE query
  /\ UNCHANGED <<config, log, offered>>

-----------------------------------------------------------------------------
(* Presence *)

\* A daemon knows its own sessions only, one record of each; a client may have announced
\* any node.
Arrive(n, r) ==
  /\ r \in budget.peers[n]
  /\ \A x \in peers[n] : x.sid # r.sid
  /\ peers' = [peers EXCEPT ![n] = @ \cup {r}]
  /\ UNCHANGED <<uplinkVars, log, queueVars, snapshot, query, budget, offered, lost>>
Leave(n, r) ==
  /\ r \in peers[n]
  /\ peers' = [peers EXCEPT ![n] = @ \ {r}]
  /\ UNCHANGED <<uplinkVars, log, queueVars, snapshot, query, budget, offered, lost>>

\* run_fleet_presence_broadcaster: at a tick it copies the peers ...
Beat(n) ==
  /\ ~Off(n)
  /\ snapshot[n] = {}
  /\ budget.messages > 0
  /\ snapshot' = [snapshot EXCEPT ![n] = {r.sid : r \in peers[n]}]
  /\ UNCHANGED <<uplinkVars, log, queueVars, peers, query, budget, offered, lost>>

\* ... and announces them one by one, like any local publish, as this node's.
Announce(n, s) ==
  /\ s \in snapshot[n]
  /\ snapshot' = [snapshot EXCEPT ![n] = @ \ {s}]
  /\ Say(n, [sid |-> s, node |-> NameOf[n]])
  /\ UNCHANGED <<uplinkVars, outbox, inbound, peers>>

-----------------------------------------------------------------------------
(* peers --fleet *)

Queries == [phase: {"none", "local", "collecting", "shown"}, node: Nodes \cup {None},
            local: SUBSET Peer, unread: Seq(Presences), store: SUBSET Presences]
NoQuery == [phase |-> "none", node |-> None, local |-> {}, unread |-> <<>>, store |-> {}]

\* The local peers, without the query's own throwaway session.
Peers(n) ==
  /\ query.phase \in {"none", "shown"}
  /\ Spend("queries")
  /\ query' = [NoQuery EXCEPT !.phase = "local", !.node = n, !.local = peers[n]]
  /\ UNCHANGED <<uplinkVars, log, queueVars, peers, snapshot, offered, lost>>

\* collect_fleet_peers_from_bus: a second connection subscribes, or fails and leaves the
\* query with the local peers ...
Collect ==
  /\ query.phase = "local"
  /\ \E next \in {"collecting", "shown"} : query' = [query EXCEPT !.phase = next]
  /\ UNCHANGED <<uplinkVars, log, queueVars, peers, snapshot, budget, offered, lost>>

\* ... and each event it reads is stored under its session and node ...
Store ==
  /\ query.phase = "collecting"
  /\ query.unread # <<>>
  /\ query' = [query EXCEPT !.store = @ \cup {Head(query.unread)}, !.unread = Tail(@)]
  /\ UNCHANGED <<uplinkVars, log, queueVars, peers, snapshot, budget, offered, lost>>

\* ... until 100 ms are over, far less than the time to live of an entry.
Show ==
  /\ query.phase = "collecting"
  /\ query' = [query EXCEPT !.phase = "shown", !.unread = <<>>]
  /\ UNCHANGED <<uplinkVars, log, queueVars, peers, snapshot, budget, offered, lost>>

\* merge_peers: of two records of one session and node the local one is shown.  (A local
\* record without a node is shown beside its own node's broadcast of it, which has one.)
Local(q) == {[sid |-> r.sid, node |-> r.node, remote |-> FALSE] : r \in q.local}
Remote(q) == {[sid |-> r.sid, node |-> r.node, remote |-> TRUE] : r \in q.store}
Same(r, x) == r.sid = x.sid /\ r.node = x.node
\* Mutant: without the test for duplicates.
MergedAll(q) == Local(q) \cup Remote(q)
Merged(q) == Local(q) \cup {r \in Remote(q) : \A x \in Local(q) : ~Same(r, x)}

-----------------------------------------------------------------------------
Init ==
  /\ budget \in Budgets
  /\ config = [n \in Nodes |-> Config(budget.file[n])]
  /\ pc = [n \in Nodes |-> IF Off(n) THEN "off" ELSE "starting"]
  /\ link = [n \in Nodes |-> FALSE]
  /\ notices = [n \in Nodes |-> <<>>]
  /\ status = [n \in Nodes |-> "disabled"]
  /\ log = [n \in Nodes |-> <<>>]
  /\ localRx = [n \in Nodes |-> <<>>]
  /\ outbox = [n \in Nodes |-> <<>>]
  /\ inbound = [n \in Nodes |-> [o \in Nodes |-> <<>>]]
  /\ peers = [n \in Nodes |-> {}]
  /\ snapshot = [n \in Nodes |-> {}]
  /\ query = NoQuery
  /\ offered = {} /\ lost = {}

Relay(n) ==
  \/ Connect(n) \/ Listen(n)
  \/ RelayOut(n)
  \/ \E o \in Nodes : RelayIn(n, o)

Nats(n) == LinkUp(n) \/ Flush(n) \/ Notice(n)

Fault(n) == LinkDown(n) \/ Restart(n) \/ \E o \in Nodes : Overrun(n, o)

Presence(n) ==
  \/ \E r \in Peer : Arrive(n, r) \/ Leave(n, r)
  \/ \E s \in Sessions : Announce(n, s)
  \/ Beat(n)

Next ==
  \/ \E n \in Nodes : Publish(n) \/ Relay(n) \/ Nats(n) \/ Fault(n) \/ Presence(n) \/ Peers(n)
  \/ Collect \/ Store \/ Show

\* The uplink's task and the NATS client run; a broken link is retried for ever.
Fairness ==
  \A n \in Nodes :
    /\ WF_vars(Connect(n)) /\ WF_vars(Listen(n))
    /\ WF_vars(RelayOut(n))
    /\ \A o \in Nodes : WF_vars(RelayIn(n, o))
    /\ WF_vars(LinkUp(n)) /\ WF_vars(Flush(n)) /\ WF_vars(Notice(n))

Spec == Init /\ [][Next]_vars /\ Fairness

-----------------------------------------------------------------------------
(* Properties *)

UplinkTypes ==
  /\ config \in [Nodes -> {"off", "on", "badurl"}]
  /\ pc \in [Nodes -> {"off", "starting", "subscribed", "relaying", "ended"}]
  /\ link \in [Nodes -> BOOLEAN]
  /\ notices \in [Nodes -> Seq({"connected", "other"})]
  /\ status \in [Nodes -> {"disabled", "connected", "reconnecting"}]

QueueTypes ==
  /\ localRx \in [Nodes -> Seq(Entry)]
  /\ \A n \in Nodes : Len(localRx[n]) <= Capacity
  /\ outbox \in [Nodes -> Seq(Envelope)]
  /\ inbound \in [Nodes -> [Nodes -> Seq(Envelope)]]

FleetTypes ==
  /\ peers \in [Nodes -> SUBSET Peer] /\ snapshot \in [Nodes -> SUBSET Sessions]
  /\ query \in Queries

\* The uplink's queues hold what they should, and no receiver is further behind
\* than the channel's capacity.
TypeOK ==
  /\ UplinkTypes /\ QueueTypes /\ FleetTypes
  /\ log \in [Nodes -> Seq(Message)]
  /\ budget \in Budget
  /\ offered \subseteq Message /\ lost \subseteq Message \X Nodes

\* A message is broadcast at most once on each node's bus, its origin's included:
\* nothing loops between uplinks and nothing comes back, whatever is restarted.
AtMostOnce ==
  \A n \in Nodes : \A i, j \in DOMAIN log[n] : i # j => log[n][i] # log[n][j]

\* What one node publishes is broadcast on every other in the order it was
\* published, with gaps but never overtaken.
OriginOrder ==
  \A n \in Nodes : \A i, j \in DOMAIN log[n] :
    i < j /\ log[n][i].origin = log[n][j].origin => log[n][i].num < log[n][j].num

\* The nodes' logs are those of buses that are joined directly: what is broadcast on a
\* node was said on one of another name, word for word and nothing of it later before,
\* so that no link, queue, restart or echo makes up, alters, repeats or withdraws a
\* message.
JB == INSTANCE JoinedBuses
ImplementsJoinedBuses == JB!Spec

\* A status of connected that no event is about to change is never a lie; one of
\* reconnecting may be (see Overrun).
StatusHonest ==
  \A n \in Nodes : status[n] = "connected" /\ notices[n] = <<>> => link[n]

\* peers --fleet never shows one session of one node twice, and what it shows besides the
\* local peers was said on some node's own bus, of that session and that node: neither the
\* way there nor the merge mixes sessions up with nodes.
FleetView ==
  query.phase = "shown" =>
    /\ \A r, x \in Merged(query) : Same(r, x) => r = x
    /\ \A r \in Merged(query) : r.remote =>
         \E n \in Nodes : \E i \in Own(n) : log[n][i].about = [sid |-> r.sid, node |-> r.node]

\* Whatever was broadcast while the uplink listened has been broadcast on every node
\* with another name, or was lost on the way there.
Settled ==
  \A m \in offered, n \in Nodes :
    NameOf[n] # NameOf[m.origin]
      => <<m, n>> \in lost \/ \E i \in DOMAIN log[n] : log[n][i] = m

\* Every message that an uplink hears reaches every node with another name, unless a
\* link, a full channel or a restart lost it on the way: the uplinks themselves drop
\* nothing, and a node that lost its link resumes.
Relayed == []<>Settled
=============================================================================
