---------------------------- MODULE UplinkProofs ----------------------------
(***************************************************************************)
(* Proofs about Uplink, for every number of nodes, names, sessions and     *)
(* messages, every capacity and every number of faults.                    *)
(***************************************************************************)
EXTENDS Uplink, FiniteSetTheorems, SequenceTheorems, TLAPS

-----------------------------------------------------------------------------
(* Lemmas about sequences *)

\* A queue whose first elements are gone, or whose last.
LEMMA Shortened ==
  ASSUME NEW T, NEW q \in Seq(T), q # <<>>
  PROVE  /\ Tail(q) \in Seq(T) /\ Len(Tail(q)) = Len(q) - 1
         /\ Head(q) \in T
         /\ Front(q) \in Seq(T) /\ Last(q) \in T
<1>1. Tail(q) \in Seq(T) /\ Len(Tail(q)) = Len(q) - 1 /\ Head(q) \in T
  OBVIOUS
<1>2. Front(q) \in Seq(T)
  BY DEF Front
<1>3. Last(q) \in T
  BY DEF Last
<1> QED BY <1>1, <1>2, <1>3

\* The receiver's queue never exceeds the capacity.
LEMMA PutTyped ==
  ASSUME NEW T, NEW q \in Seq(T), Len(q) <= Capacity, NEW x \in T
  PROVE  Put(q, x) \in Seq(T) /\ Len(Put(q, x)) <= Capacity
<1>1. CASE Len(q) = Capacity
  <2>1. q # <<>> /\ Capacity \in Nat
    BY <1>1, UplinkNumbers
  <2>2. Tail(q) \in Seq(T) /\ Len(Tail(q)) = Capacity - 1
    BY <1>1, <2>1
  <2> QED BY <1>1, <2>1, <2>2 DEF Put
<1>2. CASE Len(q) # Capacity
  BY <1>2, UplinkNumbers DEF Put
<1> QED BY <1>1, <1>2

\* What is left of the bounds.
LEMMA SpendTyped ==
  ASSUME budget \in Budget, NEW field \in {"messages", "faults", "queries"}, Spend(field)
  PROVE  budget' \in Budget
<1>1. CASE field = "messages"
  <2>1. budget.messages > 0 /\ budget' = [budget EXCEPT !.messages = @ - 1]
    BY <1>1 DEF Spend
  <2> QED BY <2>1 DEF Budget
<1>2. CASE field = "faults"
  <2>1. budget.faults > 0 /\ budget' = [budget EXCEPT !.faults = @ - 1]
    BY <1>2 DEF Spend
  <2> QED BY <2>1 DEF Budget
<1>3. CASE field = "queries"
  <2>1. budget.queries > 0 /\ budget' = [budget EXCEPT !.queries = @ - 1]
    BY <1>3 DEF Spend
  <2> QED BY <2>1 DEF Budget
<1> QED BY <1>1, <1>2, <1>3

\* The places of a node's own messages in its log are finitely many.
LEMMA OwnCount ==
  ASSUME NEW n, log[n] \in Seq(Message)
  PROVE  IsFiniteSet(Own(n)) /\ Cardinality(Own(n)) \in Nat
<1>1. Own(n) \subseteq 1..Len(log[n])
  BY DEF Own
<1>2. IsFiniteSet(1..Len(log[n]))
  BY FS_Interval
<1> QED BY <1>1, <1>2, FS_Subset, FS_CardinalityType

\* What becomes of a query.
LEMMA QueryTyped ==
  /\ NoQuery \in Queries
  /\ \A q \in Queries :
       /\ q.unread \in Seq(Presences) /\ q.store \subseteq Presences
       /\ \A next \in {"collecting", "shown"} : [q EXCEPT !.phase = next] \in Queries
       /\ [q EXCEPT !.phase = "shown", !.unread = <<>>] \in Queries
       /\ \A x \in Presences : [q EXCEPT !.unread = Append(@, x)] \in Queries
       /\ q.unread # <<>>
            => [q EXCEPT !.store = @ \cup {Head(q.unread)}, !.unread = Tail(@)] \in Queries
  /\ \A n \in Nodes, local \in SUBSET Peer :
       [NoQuery EXCEPT !.phase = "local", !.node = n, !.local = local] \in Queries
<1> DEFINE Phases == {"none", "local", "collecting", "shown"}
           Places == Nodes \cup {None}
           Locals == SUBSET Peer
           Queues == Seq(Presences)
           Stores == SUBSET Presences
<1>0. /\ Queries = [phase: Phases, node: Places, local: Locals, unread: Queues, store: Stores]
      /\ {"none", "local", "collecting", "shown"} \subseteq Phases
      /\ Nodes \subseteq Places /\ None \in Places
      /\ Locals = SUBSET Peer /\ {} \in Locals
      /\ <<>> \in Queues /\ {} \in Stores
      /\ \A u \in Queues : \A x \in Presences : Append(u, x) \in Queues
      /\ \A u \in Queues : u # <<>> => Head(u) \in Presences /\ Tail(u) \in Queues
      /\ \A st \in Stores : st \subseteq Presences /\ \A x \in Presences : st \cup {x} \in Stores
      /\ Queues = Seq(Presences)
  BY DEF Queries
<1> HIDE DEF Phases, Places, Locals, Queues, Stores
<1>1. NoQuery \in Queries
  BY <1>0 DEF NoQuery
<1>2. ASSUME NEW n \in Nodes, NEW local \in SUBSET Peer
      PROVE  [NoQuery EXCEPT !.phase = "local", !.node = n, !.local = local] \in Queries
  BY <1>0 DEF NoQuery
<1>3. ASSUME NEW q \in Queries
      PROVE  /\ q.unread \in Seq(Presences) /\ q.store \subseteq Presences
             /\ \A next \in {"collecting", "shown"} : [q EXCEPT !.phase = next] \in Queries
             /\ [q EXCEPT !.phase = "shown", !.unread = <<>>] \in Queries
             /\ \A x \in Presences : [q EXCEPT !.unread = Append(@, x)] \in Queries
  <2>1. q.unread \in Queues /\ q.store \in Stores
    BY <1>0
  <2>2. q.unread \in Seq(Presences) /\ q.store \subseteq Presences
    BY <1>0, <2>1
  <2>3. /\ \A next \in {"collecting", "shown"} : [q EXCEPT !.phase = next] \in Queries
        /\ [q EXCEPT !.phase = "shown", !.unread = <<>>] \in Queries
    BY <1>0
  <2>4. \A x \in Presences : [q EXCEPT !.unread = Append(@, x)] \in Queries
    BY <1>0, <2>1
  <2> QED BY <2>2, <2>3, <2>4
<1>4. ASSUME NEW q \in Queries, q.unread # <<>>
      PROVE  [q EXCEPT !.store = @ \cup {Head(q.unread)}, !.unread = Tail(@)] \in Queries
  <2>1. Head(q.unread) \in Presences /\ Tail(q.unread) \in Queues
    BY <1>0, <1>4
  <2>2. q.store \cup {Head(q.unread)} \in Stores
    BY <1>0, <2>1
  <2> QED BY <1>0, <2>1, <2>2
<1> QED BY <1>1, <1>2, <1>3, <1>4

-----------------------------------------------------------------------------
(* Type correctness *)

\* At first there is nothing in any queue.
LEMMA TypeInit == Init => TypeOK
<1> SUFFICES ASSUME Init PROVE TypeOK
  OBVIOUS
<1>1. budget \in Budget
  BY UplinkBudgets DEF Init
<1>2. config \in [Nodes -> {"off", "on", "badurl"}]
  BY DEF Init, Config
<1>3. UplinkTypes
  BY <1>2 DEF Init, UplinkTypes, Off
<1>4. QueueTypes
  BY UplinkNumbers DEF Init, QueueTypes
<1>5. FleetTypes
  BY QueryTyped DEF Init, FleetTypes
<1> QED BY <1>1, <1>3, <1>4, <1>5 DEF Init, TypeOK

\* What a broadcast adds to a bus, its receiver and a query.
LEMMA BroadcastTyped ==
  ASSUME TypeOK, NEW n \in Nodes, NEW m \in Message, NEW from \in BOOLEAN,
         Broadcast(n, m, from)
  PROVE  /\ log' \in [Nodes -> Seq(Message)]
         /\ localRx' \in [Nodes -> Seq(Entry)]
         /\ \A p \in Nodes : Len(localRx'[p]) <= Capacity
         /\ query' \in Queries
         /\ offered' \subseteq Message /\ lost' \subseteq Message \X Nodes
<1> USE DEF TypeOK, QueueTypes, FleetTypes
<1>1. log' \in [Nodes -> Seq(Message)]
  BY DEF Broadcast
<1>2. /\ localRx' \in [Nodes -> Seq(Entry)]
      /\ \A p \in Nodes : Len(localRx'[p]) <= Capacity
  <2>1. CASE UNCHANGED localRx
    BY <2>1
  <2>2. CASE localRx' = [localRx EXCEPT ![n] = Put(@, [msg |-> m, from_uplink |-> from])]
    <3>1. [msg |-> m, from_uplink |-> from] \in Entry
      BY DEF Entry
    <3>2. /\ Put(localRx[n], [msg |-> m, from_uplink |-> from]) \in Seq(Entry)
          /\ Len(Put(localRx[n], [msg |-> m, from_uplink |-> from])) <= Capacity
      BY <3>1, PutTyped
    <3> QED BY <2>2, <3>2
  <2> QED BY <2>1, <2>2 DEF Broadcast
<1>3. query' \in Queries
  <2>1. CASE query' = query
    BY <2>1
  <2>2. CASE m.about # None /\ query' = [query EXCEPT !.unread = Append(@, m.about)]
    <3>1. m.about \in Presences
      BY <2>2 DEF Message
    <3> QED BY <2>2, <3>1, QueryTyped
  <2> QED BY <2>1, <2>2 DEF Broadcast
<1>4. offered' \subseteq Message
  BY DEF Broadcast
<1>5. lost' \subseteq Message \X Nodes
  <2>1. CASE Behind(n)
    <3>1. localRx[n] # <<>>
      BY <2>1, UplinkNumbers DEF Behind
    <3>2. localRx[n] \in Seq(Entry) /\ \A x \in Entry : x.msg \in Message
      BY DEF Entry
    <3>3. Head(localRx[n]).msg \in Message
      BY <3>1, <3>2
    <3>4. Undelivered(Head(localRx[n]).msg) \subseteq Message \X Nodes
      BY <3>3 DEF Undelivered
    <3> QED BY <3>4 DEF Broadcast
  <2>2. CASE ~Behind(n)
    BY <2>2 DEF Broadcast
  <2> QED BY <2>1, <2>2
<1> QED BY <1>1, <1>2, <1>3, <1>4, <1>5

\* A message that begins on a node.
LEMMA SayTyped ==
  ASSUME TypeOK, NEW n \in Nodes, NEW about \in Presences \cup {None}, Say(n, about)
  PROVE  /\ [origin |-> n, num |-> Cardinality(Own(n)) + 1, about |-> about] \in Message
         /\ Broadcast(n, [origin |-> n, num |-> Cardinality(Own(n)) + 1, about |-> about], FALSE)
         /\ budget' \in Budget
<1>1. Cardinality(Own(n)) \in Nat
  BY OwnCount DEF TypeOK
<1>2. Cardinality(Own(n)) + 1 \in Nat \ {0}
  BY <1>1
<1> QED BY <1>2, SpendTyped DEF Say, Message, TypeOK

\* Clients and the broadcaster say something about a session of a node, or something else.
LEMMA SomethingSaid ==
  ASSUME TypeOK, NEW n \in Nodes, Publish(n) \/ \E s \in Sessions : Announce(n, s)
  PROVE  /\ \E about \in Presences \cup {None} : Say(n, about)
         /\ snapshot' \in [Nodes -> SUBSET Sessions]
         /\ UNCHANGED <<uplinkVars, outbox, inbound, peers>>
<1>1. snapshot \in [Nodes -> SUBSET Sessions]
  BY DEF TypeOK, FleetTypes
<1>2. CASE Publish(n)
  <2>1. budget.events \subseteq Presences
    BY DEF TypeOK, Budget
  <2> QED BY <1>1, <1>2, <2>1 DEF Publish
<1>3. ASSUME NEW s \in Sessions, Announce(n, s)
      PROVE  /\ \E about \in Presences \cup {None} : Say(n, about)
             /\ snapshot' \in [Nodes -> SUBSET Sessions]
             /\ UNCHANGED <<uplinkVars, outbox, inbound, peers>>
  <2>1. [sid |-> s, node |-> NameOf[n]] \in Presences
    BY UplinkNames DEF Presences
  <2> QED BY <1>1, <1>3, <2>1 DEF Announce
<1> QED BY <1>2, <1>3

\* What is lost with a connection are messages.
LEMMA LostTyped ==
  ASSUME TypeOK, NEW n \in Nodes
  PROVE  /\ LostTo(n) \subseteq Message \X Nodes
         /\ \A q \in Seq(Envelope) : LostFrom(n, q) \subseteq Message \X Nodes
         /\ LostFrom(n, localRx[n]) \subseteq Message \X Nodes
<1>0. ASSUME NEW T, \A x \in T : x.msg \in Message, NEW q \in Seq(T)
      PROVE  MsgsIn(q) \subseteq Message
  BY <1>0 DEF MsgsIn
<1>1. \A q \in Seq(Envelope) : MsgsIn(q) \subseteq Message
  BY <1>0 DEF Envelope
<1>2. MsgsIn(localRx[n]) \subseteq Message
  BY <1>0 DEF Entry, TypeOK, QueueTypes
<1>3. LostTo(n) \subseteq Message \X Nodes
  BY <1>1 DEF LostTo, TypeOK, QueueTypes
<1>4. \A m \in Message : Undelivered(m) \subseteq Message \X Nodes
  BY DEF Undelivered
<1>5. \A q : MsgsIn(q) \subseteq Message => LostFrom(n, q) \subseteq Message \X Nodes
  BY <1>4 DEF LostFrom
<1> QED BY <1>1, <1>2, <1>3, <1>5

\* The steps of the uplink's task.
LEMMA RelayTyped ==
  ASSUME TypeOK, NEW n \in Nodes, Relay(n)
  PROVE  TypeOK'
<1> USE DEF TypeOK
<1>1. CASE Connect(n) \/ Listen(n)
  BY <1>1 DEF Connect, Listen, UplinkTypes, QueueTypes, FleetTypes, queueVars, fleetVars
<1>2. CASE RelayOut(n)
  <2>1. localRx[n] \in Seq(Entry) /\ \A x \in Entry : x.msg \in Message
    BY DEF QueueTypes, Entry
  <2>2. /\ Tail(localRx[n]) \in Seq(Entry) /\ Len(Tail(localRx[n])) = Len(localRx[n]) - 1
        /\ Head(localRx[n]).msg \in Message
    BY <1>2, <2>1 DEF RelayOut
  <2>3. [origin_node |-> NameOf[n], msg |-> Head(localRx[n]).msg] \in Envelope
    BY <2>2, UplinkNames DEF Envelope
  <2>4. outbox' \in [Nodes -> Seq(Envelope)]
    BY <1>2, <2>3 DEF RelayOut, Queued, QueueTypes
  <2>5. localRx' = [localRx EXCEPT ![n] = Tail(@)]
    BY <1>2 DEF RelayOut
  <2>6. localRx' \in [Nodes -> Seq(Entry)] /\ \A p \in Nodes : Len(localRx'[p]) <= Capacity
    BY <2>2, <2>5, UplinkNumbers DEF QueueTypes
  <2> QED BY <1>2, <2>4, <2>6 DEF RelayOut, UplinkTypes, QueueTypes, FleetTypes, uplinkVars, fleetVars
<1>3. ASSUME NEW o \in Nodes, RelayIn(n, o) PROVE TypeOK'
  <2>1. inbound[n][o] \in Seq(Envelope) /\ \A x \in Envelope : x.msg \in Message
    BY DEF QueueTypes, Envelope
  <2>2. Tail(inbound[n][o]) \in Seq(Envelope) /\ Head(inbound[n][o]).msg \in Message
    BY <1>3, <2>1 DEF RelayIn
  <2>3. inbound' \in [Nodes -> [Nodes -> Seq(Envelope)]]
    BY <1>3, <2>2 DEF RelayIn, QueueTypes
  <2>4. CASE UNCHANGED <<log, localRx, query, offered, lost>>
    BY <1>3, <2>3, <2>4 DEF RelayIn, UplinkTypes, QueueTypes, FleetTypes, uplinkVars
  <2>5. CASE Broadcast(n, Head(inbound[n][o]).msg, TRUE)
    BY <1>3, <2>2, <2>3, <2>5, BroadcastTyped
       DEF RelayIn, UplinkTypes, QueueTypes, FleetTypes, uplinkVars
  <2> QED BY <1>3, <2>4, <2>5 DEF RelayIn
<1> QED BY <1>1, <1>2, <1>3 DEF Relay

\* The steps of the NATS client and its faults.
LEMMA NatsTyped ==
  ASSUME TypeOK, NEW n \in Nodes, Nats(n) \/ Fault(n)
  PROVE  TypeOK'
<1> USE DEF TypeOK
<1>0. notices[n] \in Seq({"connected", "other"}) /\ outbox[n] \in Seq(Envelope)
      /\ localRx[n] \in Seq(Entry)
      /\ \A o \in Nodes : inbound[n][o] \in Seq(Envelope)
      /\ \A x \in Envelope : x.msg \in Message
  BY DEF UplinkTypes, QueueTypes, Envelope
<1>1. CASE Notice(n)
  <2>1. Tail(notices[n]) \in Seq({"connected", "other"})
    BY <1>0, <1>1 DEF Notice
  <2> QED BY <1>1, <2>1
      DEF Notice, Shown, UplinkTypes, QueueTypes, FleetTypes, queueVars, fleetVars
<1>2. CASE LinkUp(n)
  <2>1. Append(notices[n], "connected") \in Seq({"connected", "other"})
    BY <1>0
  <2> QED BY <1>2, <2>1 DEF LinkUp, UplinkTypes, QueueTypes, FleetTypes, queueVars, fleetVars
<1>3. CASE Flush(n)
  <2>1. Tail(outbox[n]) \in Seq(Envelope) /\ Head(outbox[n]) \in Envelope
        /\ Head(outbox[n]).msg \in Message
    BY <1>0, <1>3 DEF Flush
  <2>2. inbound' \in [Nodes -> [Nodes -> Seq(Envelope)]]
    <3>1. \A p \in Nodes : /\ inbound[p] \in [Nodes -> Seq(Envelope)]
                           /\ Append(inbound[p][n], Head(outbox[n])) \in Seq(Envelope)
      BY <2>1 DEF QueueTypes
    <3>2. \A p \in Nodes : [inbound[p] EXCEPT ![n] = Append(@, Head(outbox[n]))]
                             \in [Nodes -> Seq(Envelope)]
      BY <3>1
    <3> QED BY <1>3, <3>1, <3>2 DEF Flush
  <2>3. outbox' \in [Nodes -> Seq(Envelope)]
    BY <1>3, <2>1 DEF Flush, QueueTypes
  <2>4. lost' \subseteq Message \X Nodes
    BY <1>3, <2>1 DEF Flush
  <2> QED BY <1>3, <2>2, <2>3, <2>4
      DEF Flush, UplinkTypes, QueueTypes, FleetTypes, uplinkVars, fleetVars
<1>4. Append(notices[n], "other") \in Seq({"connected", "other"})
  BY <1>0
<1>5. inbound \in [Nodes -> [Nodes -> Seq(Envelope)]]
      /\ [o \in Nodes |-> <<>>] \in [Nodes -> Seq(Envelope)]
  BY DEF QueueTypes
<1>6. CASE LinkDown(n)
  <2>1. budget' \in Budget
    BY <1>6, SpendTyped DEF LinkDown
  <2>2. PICK k \in 0..Len(outbox[n]) :
          /\ outbox' = [outbox EXCEPT ![n] = SubSeq(@, k + 1, Len(@))]
          /\ lost' = lost \cup LostFrom(n, SubSeq(outbox[n], 1, k)) \cup LostTo(n)
    BY <1>6 DEF LinkDown
  <2>3. SubSeq(outbox[n], k + 1, Len(outbox[n])) \in Seq(Envelope)
        /\ SubSeq(outbox[n], 1, k) \in Seq(Envelope)
    BY <1>0
  <2>4. outbox' \in [Nodes -> Seq(Envelope)]
    BY <2>2, <2>3 DEF QueueTypes
  <2>5. lost' \subseteq Message \X Nodes
    BY <2>2, <2>3, LostTyped
  <2>6. UplinkTypes'
    BY <1>4, <1>6 DEF LinkDown, UplinkTypes
  <2>7. inbound' \in [Nodes -> [Nodes -> Seq(Envelope)]]
    BY <1>5, <1>6 DEF LinkDown
  <2> QED BY <1>6, <2>1, <2>4, <2>5, <2>6, <2>7 DEF LinkDown, QueueTypes, FleetTypes, fleetVars
<1>7. CASE Restart(n)
  <2>1. budget' \in Budget
    BY <1>7, SpendTyped DEF Restart
  <2>2. lost' \subseteq Message \X Nodes
    BY <1>0, <1>7, LostTyped DEF Restart
  <2>3. UplinkTypes'
    BY <1>7 DEF Restart, UplinkTypes
  <2>4. QueueTypes'
    <3>1. inbound' \in [Nodes -> [Nodes -> Seq(Envelope)]]
      BY <1>5, <1>7 DEF Restart
    <3>2. /\ localRx' \in [Nodes -> Seq(Entry)] /\ outbox' \in [Nodes -> Seq(Envelope)]
          /\ \A p \in Nodes : Len(localRx'[p]) <= Capacity
      BY <1>7, UplinkNumbers DEF Restart, QueueTypes
    <3> QED BY <3>1, <3>2 DEF QueueTypes
  <2>5. FleetTypes'
    <3>1. query' \in Queries
      BY <1>7, QueryTyped DEF Restart, FleetTypes
    <3> QED BY <1>7, <3>1 DEF Restart, FleetTypes
  <2> QED BY <1>7, <2>1, <2>2, <2>3, <2>4, <2>5 DEF Restart
<1>8. ASSUME NEW o \in Nodes, Overrun(n, o) PROVE TypeOK'
  <2>1. budget' \in Budget
    BY <1>8, SpendTyped DEF Overrun
  <2>2. Front(inbound[n][o]) \in Seq(Envelope) /\ Last(inbound[n][o]).msg \in Message
    BY <1>0, <1>8, Shortened DEF Overrun
  <2>3. inbound' \in [Nodes -> [Nodes -> Seq(Envelope)]]
    BY <1>5, <1>8, <2>2 DEF Overrun
  <2>4. lost' \subseteq Message \X Nodes
    BY <1>8, <2>2 DEF Overrun
  <2>5. UplinkTypes'
    BY <1>4, <1>8 DEF Overrun, UplinkTypes
  <2> QED BY <1>8, <2>1, <2>3, <2>4, <2>5 DEF Overrun, QueueTypes, FleetTypes, fleetVars
<1> QED BY <1>1, <1>2, <1>3, <1>6, <1>7, <1>8 DEF Nats, Fault

\* Every step keeps the types.
LEMMA TypeStep == TypeOK /\ [Next]_vars => TypeOK'
<1> SUFFICES ASSUME TypeOK, [Next]_vars PROVE TypeOK'
  OBVIOUS
<1> USE DEF TypeOK
<1>1. ASSUME NEW n \in Nodes, Publish(n) \/ \E s \in Sessions : Announce(n, s) PROVE TypeOK'
  <2>1. PICK about \in Presences \cup {None} : Say(n, about)
    BY <1>1, SomethingSaid
  <2>2. /\ log' \in [Nodes -> Seq(Message)]
        /\ localRx' \in [Nodes -> Seq(Entry)]
        /\ \A p \in Nodes : Len(localRx'[p]) <= Capacity
        /\ query' \in Queries
        /\ offered' \subseteq Message /\ lost' \subseteq Message \X Nodes
        /\ budget' \in Budget
    BY <2>1, SayTyped, BroadcastTyped
  <2> QED BY <1>1, <2>2, SomethingSaid DEF UplinkTypes, QueueTypes, FleetTypes, uplinkVars
<1>2. ASSUME NEW n \in Nodes, Presence(n) PROVE TypeOK'
  <2>1. ASSUME NEW r \in Peer, Arrive(n, r) \/ Leave(n, r) PROVE TypeOK'
    <3>1. peers' \in [Nodes -> SUBSET Peer]
      <4>1. peers \in [Nodes -> SUBSET Peer]
        BY DEF FleetTypes
      <4>2. CASE Arrive(n, r)
        BY <4>1, <4>2 DEF Arrive
      <4>3. CASE Leave(n, r)
        BY <4>1, <4>3 DEF Leave
      <4> QED BY <2>1, <4>2, <4>3
    <3> QED BY <2>1, <3>1
            DEF Arrive, Leave, UplinkTypes, QueueTypes, FleetTypes, uplinkVars, queueVars
  <2>2. CASE Beat(n)
    <3>1. {r.sid : r \in peers[n]} \subseteq Sessions
      BY DEF FleetTypes, Peer
    <3>2. snapshot' \in [Nodes -> SUBSET Sessions]
      BY <2>2, <3>1 DEF Beat, FleetTypes
    <3> QED BY <2>2, <3>2 DEF Beat, UplinkTypes, QueueTypes, FleetTypes, uplinkVars, queueVars
  <2> QED BY <1>1, <1>2, <2>1, <2>2 DEF Presence
<1>3. ASSUME NEW n \in Nodes, Peers(n) PROVE TypeOK'
  <2>1. budget' \in Budget /\ query' \in Queries
    BY <1>3, SpendTyped, QueryTyped DEF Peers, FleetTypes
  <2> QED BY <1>3, <2>1 DEF Peers, UplinkTypes, QueueTypes, FleetTypes, uplinkVars, queueVars
<1>4. CASE Collect \/ Store \/ Show
  <2>1. query' \in Queries
    <3>1. query \in Queries
      BY DEF FleetTypes
    <3>2. CASE Collect
      BY <3>1, <3>2, QueryTyped DEF Collect
    <3>3. CASE Store
      BY <3>1, <3>3, QueryTyped DEF Store
    <3>4. CASE Show
      BY <3>1, <3>4, QueryTyped DEF Show
    <3> QED BY <1>4, <3>2, <3>3, <3>4
  <2> QED BY <1>4, <2>1
          DEF Collect, Store, Show, UplinkTypes, QueueTypes, FleetTypes, uplinkVars, queueVars
<1>5. CASE UNCHANGED vars
  BY <1>5 DEF vars, uplinkVars, queueVars, fleetVars, UplinkTypes, QueueTypes, FleetTypes
<1> QED BY <1>1, <1>2, <1>3, <1>4, <1>5, RelayTyped, NatsTyped DEF Next

\* Whatever is lost, overrun or restarted, queues hold what they should and no
\* receiver is further behind than its channel's capacity.
THEOREM TypeCorrect == Spec => []TypeOK
BY TypeInit, TypeStep, PTL DEF Spec

-----------------------------------------------------------------------------
(* The status is honest *)

\* What the callback will have seen last agrees with the link.
StatusInv(n) ==
  /\ notices[n] = <<>> /\ status[n] = "connected" => link[n]
  /\ notices[n] # <<>> /\ notices[n][Len(notices[n])] = "connected" => link[n]

\* The last of the notices stays the last, or is the one just added.
LEMMA LastNotice ==
  ASSUME NEW T, NEW q \in Seq(T)
  PROVE  /\ \A x \in T : Append(q, x) # <<>> /\ Append(q, x)[Len(Append(q, x))] = x
         /\ q # <<>> /\ Tail(q) # <<>> => Tail(q)[Len(Tail(q))] = q[Len(q)]
         /\ q # <<>> /\ Tail(q) = <<>> => Head(q) = q[Len(q)]
<1>1. ASSUME NEW x \in T
      PROVE  Append(q, x) # <<>> /\ Append(q, x)[Len(Append(q, x))] = x
  <2>1. Len(Append(q, x)) = Len(q) + 1 /\ Append(q, x)[Len(q) + 1] = x
    OBVIOUS
  <2> QED BY <2>1
<1>2. ASSUME q # <<>>
      PROVE  /\ Tail(q) \in Seq(T) /\ Len(q) \in Nat \ {0} /\ Len(Tail(q)) = Len(q) - 1
             /\ \A i \in 1..Len(q) - 1 : Tail(q)[i] = q[i + 1]
             /\ Head(q) = q[1]
  BY <1>2
<1>3. ASSUME q # <<>>, Tail(q) # <<>> PROVE Tail(q)[Len(Tail(q))] = q[Len(q)]
  <2>1. Len(Tail(q)) # 0
    BY <1>2, <1>3, EmptySeq
  <2>2. Len(q) - 1 \in 1..Len(q) - 1
    BY <1>2, <1>3, <2>1
  <2> QED BY <1>2, <1>3, <2>2
<1>4. ASSUME q # <<>>, Tail(q) = <<>> PROVE Head(q) = q[Len(q)]
  <2>0. \A t \in Seq(T) : t = <<>> => Len(t) = 0
    BY EmptySeq
  <2>1. Len(Tail(q)) = 0
    BY <1>2, <1>4, <2>0
  <2>2. Len(q) = 1
    BY <1>2, <1>4, <2>1
  <2> QED BY <1>2, <1>4, <2>2
<1> QED BY <1>1, <1>3, <1>4

\* Every step keeps the status honest.
LEMMA StatusStep ==
  ASSUME TypeOK, NEW n \in Nodes, StatusInv(n), [Next]_vars
  PROVE  StatusInv(n)'
<1>0. /\ notices[n] \in Seq({"connected", "other"})
      /\ notices \in [Nodes -> Seq({"connected", "other"})]
      /\ link \in [Nodes -> BOOLEAN]
      /\ status \in [Nodes -> {"disabled", "connected", "reconnecting"}]
  BY DEF TypeOK, UplinkTypes
<1>1. CASE UNCHANGED <<link, notices, status>>
  BY <1>1 DEF StatusInv
<1>2. ASSUME NEW p \in Nodes, Connect(p) PROVE StatusInv(n)'
  BY <1>0, <1>2 DEF Connect, StatusInv
<1>3. ASSUME NEW p \in Nodes, Notice(p) PROVE StatusInv(n)'
  <2>1. CASE p # n
    BY <1>0, <1>3, <2>1 DEF Notice, StatusInv
  <2>2. CASE p = n
    <3>1. /\ notices[n] # <<>> /\ notices'[n] = Tail(notices[n]) /\ link' = link
          /\ status'[n] = "connected" => Head(notices[n]) = "connected"
      BY <1>0, <1>3, <2>2 DEF Notice, Shown
    <3> QED BY <1>0, <3>1, LastNotice DEF StatusInv
  <2> QED BY <2>1, <2>2
<1>4. ASSUME NEW p \in Nodes, LinkUp(p) PROVE StatusInv(n)'
  <2>1. CASE p # n
    BY <1>0, <1>4, <2>1 DEF LinkUp, StatusInv
  <2>2. CASE p = n
    <3>1. link'[n] /\ notices'[n] = Append(notices[n], "connected")
      BY <1>0, <1>4, <2>2 DEF LinkUp
    <3> QED BY <3>1 DEF StatusInv
  <2> QED BY <2>1, <2>2
<1>5. ASSUME NEW p \in Nodes, LinkDown(p) \/ \E o \in Nodes : Overrun(p, o) PROVE StatusInv(n)'
  <2>1. CASE p # n
    BY <1>0, <1>5, <2>1 DEF LinkDown, Overrun, StatusInv
  <2>2. CASE p = n
    <3>1. notices'[n] = Append(notices[n], "other")
      BY <1>0, <1>5, <2>2 DEF LinkDown, Overrun
    <3>2. \A q \in Seq({"connected", "other"}) :
            Append(q, "other") # <<>> /\ Append(q, "other")[Len(Append(q, "other"))] = "other"
      BY LastNotice
    <3>3. notices'[n] # <<>> /\ notices'[n][Len(notices'[n])] = "other"
      BY <1>0, <3>1, <3>2
    <3> QED BY <3>3 DEF StatusInv
  <2> QED BY <2>1, <2>2
<1>6. ASSUME NEW p \in Nodes, Restart(p) PROVE StatusInv(n)'
  BY <1>0, <1>6 DEF Restart, StatusInv
<1>7. ASSUME NEW p \in Nodes,
             \/ Publish(p) \/ Listen(p) \/ RelayOut(p) \/ Flush(p) \/ Beat(p) \/ Peers(p)
             \/ \E o \in Nodes : RelayIn(p, o)
             \/ \E r \in Peer : Arrive(p, r) \/ Leave(p, r)
             \/ \E s \in Sessions : Announce(p, s)
      PROVE  UNCHANGED <<link, notices, status>>
  BY <1>7 DEF Publish, Listen, RelayOut, Flush, Beat, Peers, RelayIn, Arrive, Leave, Announce,
              uplinkVars
<1>8. Collect \/ Store \/ Show \/ UNCHANGED vars => UNCHANGED <<link, notices, status>>
  BY DEF Collect, Store, Show, vars, uplinkVars
<1> QED BY <1>1, <1>2, <1>3, <1>4, <1>5, <1>6, <1>7, <1>8 DEF Next, Relay, Nats, Fault, Presence

\* A status of connected that no event is about to change is true, whatever broke,
\* overran or was restarted before.
THEOREM StatusTrue == Spec => []StatusHonest
<1> DEFINE Inv == TypeOK /\ \A n \in Nodes : StatusInv(n)
<1>1. Init => Inv
  BY TypeInit DEF Init, StatusInv
<1>2. Inv /\ [Next]_vars => Inv'
  BY TypeStep, StatusStep
<1>3. Inv => StatusHonest
  BY DEF StatusInv, StatusHonest
<1> HIDE DEF Inv
<1> QED BY <1>1, <1>2, <1>3, PTL DEF Spec

-----------------------------------------------------------------------------
(* Queues and what is taken out of them *)

\* r is what is left of q when elements are lost at its ends.
Part(r, q) ==
  \E d \in Nat : \A i \in DOMAIN r : i + d \in DOMAIN q /\ r[i] = q[i + d]

\* The ways in which elements are lost here.
LEMMA Parts ==
  ASSUME NEW T, NEW q \in Seq(T)
  PROVE  /\ Part(q, q) /\ Part(<<>>, q)
         /\ q # <<>> => Part(Tail(q), q) /\ Part(Front(q), q)
         /\ \A k \in 0..Len(q) : Part(SubSeq(q, k + 1, Len(q)), q)
<1>1. Part(q, q)
  <2>1. \A i \in DOMAIN q : i + 0 \in DOMAIN q /\ q[i] = q[i + 0]
    OBVIOUS
  <2> QED BY <2>1 DEF Part
<1>2. Part(<<>>, q)
  <2>1. \A i \in DOMAIN <<>> : i + 0 \in DOMAIN q /\ <<>>[i] = q[i + 0]
    OBVIOUS
  <2> QED BY <2>1 DEF Part
<1>3. ASSUME q # <<>> PROVE Part(Tail(q), q)
  <2>1. \A i \in DOMAIN Tail(q) : i + 1 \in DOMAIN q /\ Tail(q)[i] = q[i + 1]
    BY <1>3
  <2> QED BY <2>1 DEF Part
<1>4. ASSUME q # <<>> PROVE Part(Front(q), q)
  <2>1. \A i \in DOMAIN Front(q) : i + 0 \in DOMAIN q /\ Front(q)[i] = q[i + 0]
    BY <1>4 DEF Front
  <2> QED BY <2>1 DEF Part
<1>5. ASSUME NEW k \in 0..Len(q) PROVE Part(SubSeq(q, k + 1, Len(q)), q)
  <2>1. \A i \in DOMAIN SubSeq(q, k + 1, Len(q)) :
          i + k \in DOMAIN q /\ SubSeq(q, k + 1, Len(q))[i] = q[i + k]
    OBVIOUS
  <2> QED BY <2>1 DEF Part
<1> QED BY <1>1, <1>2, <1>3, <1>4, <1>5

\* The messages of node n on a queue, and whether they are in the order of their numbers.
Mine(n, q) == {m \in MsgsIn(q) : m.origin = n}
InOrder(n, q) ==
  \A i, j \in DOMAIN q :
    i < j /\ q[i].msg.origin = n /\ q[j].msg.origin = n => q[i].msg.num < q[j].msg.num

\* Nothing new is on what is left, and its order is the old one.
LEMMA PartKept ==
  ASSUME NEW T, NEW q \in Seq(T), NEW r \in Seq(T), Part(r, q), NEW n
  PROVE  /\ MsgsIn(r) \subseteq MsgsIn(q) /\ Mine(n, r) \subseteq Mine(n, q)
         /\ \A i \in DOMAIN r : \E j \in DOMAIN q : r[i] = q[j]
         /\ InOrder(n, q) => InOrder(n, r)
<1>0. PICK d \in Nat : \A i \in DOMAIN r : i + d \in DOMAIN q /\ r[i] = q[i + d]
  BY DEF Part
<1>1. \A i \in DOMAIN r : \E j \in DOMAIN q : r[i] = q[j]
  BY <1>0
<1>2. MsgsIn(r) \subseteq MsgsIn(q)
  BY <1>1 DEF MsgsIn
<1>3. ASSUME InOrder(n, q) PROVE InOrder(n, r)
  <2> SUFFICES ASSUME NEW i \in DOMAIN r, NEW j \in DOMAIN r, i < j,
                      r[i].msg.origin = n, r[j].msg.origin = n
               PROVE  r[i].msg.num < r[j].msg.num
    BY DEF InOrder
  <2>1. i + d < j + d
    OBVIOUS
  <2> QED BY <1>0, <1>3, <2>1 DEF InOrder
<1> QED BY <1>1, <1>2, <1>3 DEF Mine

\* What is appended is on the queue.
LEMMA Added ==
  ASSUME NEW T, NEW q \in Seq(T), NEW x \in T
  PROVE  MsgsIn(Append(q, x)) = MsgsIn(q) \cup {x.msg}
<1>1. /\ DOMAIN Append(q, x) = DOMAIN q \cup {Len(q) + 1}
      /\ \A i \in DOMAIN q : Append(q, x)[i] = q[i]
      /\ Append(q, x)[Len(q) + 1] = x
  OBVIOUS
<1> QED BY <1>1 DEF MsgsIn

\* What is appended comes last.
LEMMA AppendKept ==
  ASSUME NEW T, NEW q \in Seq(T), NEW x \in T, NEW n
  PROVE  /\ MsgsIn(Append(q, x)) = MsgsIn(q) \cup {x.msg}
         /\ \A i \in DOMAIN Append(q, x) :
              Append(q, x)[i] = x \/ \E j \in DOMAIN q : Append(q, x)[i] = q[j]
         /\ InOrder(n, q) /\ (x.msg.origin = n => \A m \in Mine(n, q) : m.num < x.msg.num)
              => InOrder(n, Append(q, x))
<1>1. /\ DOMAIN Append(q, x) = DOMAIN q \cup {Len(q) + 1}
      /\ \A i \in DOMAIN q : Append(q, x)[i] = q[i]
      /\ Append(q, x)[Len(q) + 1] = x
      /\ DOMAIN q = 1..Len(q)
  OBVIOUS
<1>2. MsgsIn(Append(q, x)) = MsgsIn(q) \cup {x.msg}
  BY Added
<1>3. ASSUME InOrder(n, q), x.msg.origin = n => \A m \in Mine(n, q) : m.num < x.msg.num
      PROVE  InOrder(n, Append(q, x))
  <2> SUFFICES ASSUME NEW i \in DOMAIN Append(q, x), NEW j \in DOMAIN Append(q, x), i < j,
                      Append(q, x)[i].msg.origin = n, Append(q, x)[j].msg.origin = n
               PROVE  Append(q, x)[i].msg.num < Append(q, x)[j].msg.num
    BY DEF InOrder
  <2>0. i \in DOMAIN q
    BY <1>1
  <2>1. CASE j \in DOMAIN q
    BY <1>1, <1>3, <2>0, <2>1 DEF InOrder
  <2>2. CASE j = Len(q) + 1
    <3>1. q[i].msg \in Mine(n, q)
      BY <1>1, <2>0 DEF Mine, MsgsIn
    <3> QED BY <1>1, <1>3, <2>0, <2>2, <3>1
  <2> QED BY <1>1, <2>1, <2>2
<1> QED BY <1>1, <1>2, <1>3

\* What is taken off first is on the queue, and comes before the rest.
LEMMA HeadKept ==
  ASSUME NEW T, NEW q \in Seq(T), q # <<>>, NEW n
  PROVE  /\ Head(q).msg \in MsgsIn(q)
         /\ \E i \in DOMAIN q : Head(q) = q[i]
         /\ InOrder(n, q) /\ Head(q).msg.origin = n
              => \A m \in Mine(n, Tail(q)) : Head(q).msg.num < m.num
<1>1. /\ 1 \in DOMAIN q /\ Head(q) = q[1]
      /\ \A i \in DOMAIN Tail(q) : i + 1 \in DOMAIN q /\ 1 < i + 1 /\ Tail(q)[i] = q[i + 1]
  OBVIOUS
<1>2. ASSUME InOrder(n, q), Head(q).msg.origin = n, NEW m \in Mine(n, Tail(q))
      PROVE  Head(q).msg.num < m.num
  <2>1. PICK i \in DOMAIN Tail(q) : m = Tail(q)[i].msg /\ m.origin = n
    BY <1>2 DEF Mine, MsgsIn
  <2> QED BY <1>1, <1>2, <2>1 DEF InOrder
<1> QED BY <1>1, <1>2 DEF MsgsIn

\* What a broadcast does to the log and to the uplink's receiver.
LEMMA BroadcastQueues ==
  ASSUME TypeOK, NEW n \in Nodes, NEW m \in Message, NEW from \in BOOLEAN, Broadcast(n, m, from)
  PROVE  /\ log'[n] = Append(log[n], m)
         /\ \A p \in Nodes \ {n} : log'[p] = log[p] /\ localRx'[p] = localRx[p]
         /\ \/ localRx'[n] = localRx[n]
            \/ \E r \in Seq(Entry) :
                 Part(r, localRx[n]) /\ localRx'[n] = Append(r, [msg |-> m, from_uplink |-> from])
<1>0. localRx[n] \in Seq(Entry) /\ localRx \in [Nodes -> Seq(Entry)]
  BY DEF TypeOK, QueueTypes
<1>1. log'[n] = Append(log[n], m) /\ \A p \in Nodes \ {n} : log'[p] = log[p]
  BY DEF Broadcast, TypeOK
<1>2. \A p \in Nodes \ {n} : localRx'[p] = localRx[p]
  BY <1>0 DEF Broadcast
<1>3. CASE localRx' = [localRx EXCEPT ![n] = Put(@, [msg |-> m, from_uplink |-> from])]
  <2>1. localRx'[n] = Put(localRx[n], [msg |-> m, from_uplink |-> from])
    BY <1>0, <1>3
  <2>2. CASE Len(localRx[n]) = Capacity
    <3>1. localRx[n] # <<>>
      BY <2>2, UplinkNumbers
    <3>2. Tail(localRx[n]) \in Seq(Entry) /\ Part(Tail(localRx[n]), localRx[n])
      BY <1>0, <3>1, Parts
    <3>3. localRx'[n] = Append(Tail(localRx[n]), [msg |-> m, from_uplink |-> from])
      BY <2>1, <2>2 DEF Put
    <3> QED BY <1>1, <1>2, <3>2, <3>3
  <2>3. CASE Len(localRx[n]) # Capacity
    <3>1. Part(localRx[n], localRx[n])
      BY <1>0, Parts
    <3>2. localRx'[n] = Append(localRx[n], [msg |-> m, from_uplink |-> from])
      BY <2>1, <2>3 DEF Put
    <3> QED BY <1>0, <1>1, <1>2, <3>1, <3>2
  <2> QED BY <2>2, <2>3
<1>4. CASE UNCHANGED localRx
  BY <1>1, <1>2, <1>4
<1> QED BY <1>3, <1>4 DEF Broadcast

\* Faults only take messages away.
LEMMA FaultParts ==
  ASSUME TypeOK, NEW k \in Nodes, Fault(k)
  PROVE  /\ \A p \in Nodes : Part(localRx'[p], localRx[p]) /\ Part(outbox'[p], outbox[p])
         /\ \A p, o \in Nodes : Part(inbound'[p][o], inbound[p][o])
         /\ UNCHANGED log
<1>0. /\ localRx \in [Nodes -> Seq(Entry)] /\ outbox \in [Nodes -> Seq(Envelope)]
      /\ inbound \in [Nodes -> [Nodes -> Seq(Envelope)]]
  BY DEF TypeOK, QueueTypes
<1>1. /\ \A p \in Nodes : /\ Part(localRx[p], localRx[p]) /\ Part(<<>>, localRx[p])
                          /\ Part(outbox[p], outbox[p]) /\ Part(<<>>, outbox[p])
      /\ \A p, o \in Nodes : /\ Part(inbound[p][o], inbound[p][o]) /\ Part(<<>>, inbound[p][o])
                             /\ inbound[p][o] # <<>> => Part(Front(inbound[p][o]), inbound[p][o])
  BY <1>0, Parts
<1>2. CASE LinkDown(k)
  <2>1. /\ UNCHANGED <<localRx, log>>
        /\ inbound' = [inbound EXCEPT ![k] = [o \in Nodes |-> <<>>]]
    BY <1>2 DEF LinkDown, fleetVars
  <2>2. PICK j \in 0..Len(outbox[k]) : outbox' = [outbox EXCEPT ![k] = SubSeq(@, j + 1, Len(@))]
    BY <1>2 DEF LinkDown
  <2>3. Part(SubSeq(outbox[k], j + 1, Len(outbox[k])), outbox[k])
    BY <1>0, Parts
  <2>4. \A p \in Nodes : Part(outbox'[p], outbox[p])
    BY <1>0, <1>1, <2>2, <2>3
  <2>5. \A p, o \in Nodes : inbound'[p][o] \in {<<>>, inbound[p][o]}
    BY <1>0, <2>1
  <2> QED BY <1>1, <2>1, <2>4, <2>5
<1>3. CASE Restart(k)
  <2>1. /\ UNCHANGED log
        /\ localRx' = [localRx EXCEPT ![k] = <<>>] /\ outbox' = [outbox EXCEPT ![k] = <<>>]
        /\ inbound' = [inbound EXCEPT ![k] = [o \in Nodes |-> <<>>]]
    BY <1>3 DEF Restart
  <2>2. \A p, o \in Nodes : inbound'[p][o] \in {<<>>, inbound[p][o]}
    BY <1>0, <2>1
  <2>3. \A p \in Nodes : localRx'[p] \in {<<>>, localRx[p]} /\ outbox'[p] \in {<<>>, outbox[p]}
    BY <1>0, <2>1
  <2> QED BY <1>1, <2>1, <2>2, <2>3
<1>4. ASSUME NEW o \in Nodes, Overrun(k, o)
      PROVE  /\ UNCHANGED <<log, localRx, outbox>>
             /\ \A p, q \in Nodes : \/ inbound'[p][q] = inbound[p][q]
                                    \/ inbound[p][q] # <<>> /\ inbound'[p][q] = Front(inbound[p][q])
  BY <1>0, <1>4 DEF Overrun, fleetVars
<1> QED BY <1>1, <1>2, <1>3, <1>4 DEF Fault
=============================================================================
