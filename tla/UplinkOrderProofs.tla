------------------------- MODULE UplinkOrderProofs -------------------------
(***************************************************************************)
(* Proofs about Uplink, for every number of nodes, names and messages,     *)
(* every capacity and every number of faults: what one node publishes is   *)
(* broadcast on every bus at most once and in the order it was published,  *)
(* and peers --fleet shows nothing that was not published.                 *)
(*                                                                         *)
(* A message of node n for node p is in one of four places, which it goes  *)
(* through in turn: n's receiver, n's outbox, p's subscription, p's bus.   *)
(* Faults take messages out of these places and put none in.               *)
(***************************************************************************)
EXTENDS UplinkProofs

\* The messages of node n on a bus, and whether they are in the order of their numbers.
Logged(n, bus) == {m \in {bus[i] : i \in DOMAIN bus} : m.origin = n}
LogInOrder(n, bus) ==
  \A i, j \in DOMAIN bus :
    i < j /\ bus[i].origin = n /\ bus[j].origin = n => bus[i].num < bus[j].num

Before(older, newer) == \A a \in older, b \in newer : a.num < b.num

\* The way of node n's messages to a node with this bus, through a subscription, an
\* outbox and a receiver, when n has published count messages.
Lane(n, bus, sub, out, rx, count) ==
  /\ LogInOrder(n, bus) /\ InOrder(n, sub) /\ InOrder(n, out) /\ InOrder(n, rx)
  /\ Before(Logged(n, bus), Mine(n, sub) \cup Mine(n, out) \cup Mine(n, rx))
  /\ Before(Mine(n, sub), Mine(n, out) \cup Mine(n, rx))
  /\ Before(Mine(n, out), Mine(n, rx))
  /\ \A m \in Logged(n, bus) \cup Mine(n, sub) \cup Mine(n, out) \cup Mine(n, rx) :
       m.num <= count

\* An envelope that node n has published.
Stamped(n, env) == env.origin_node = NameOf[n] /\ env.msg.origin = n

Published(n) == Cardinality(Own(n))

OrderInv ==
  /\ \A n \in Nodes :
       /\ LogInOrder(n, log[n])
       /\ \A m \in Logged(n, log[n]) : m.num <= Published(n)
       /\ \A i \in DOMAIN localRx[n] :
            localRx[n][i].from_uplink <=> localRx[n][i].msg.origin # n
       /\ \A i \in DOMAIN outbox[n] : Stamped(n, outbox[n][i])
       /\ \A p \in Nodes : \A i \in DOMAIN inbound[p][n] : Stamped(n, inbound[p][n][i])
  /\ \A n \in Nodes : \A p \in Nodes \ {n} :
       Lane(n, log[p], inbound[p][n], outbox[n], localRx[n], Published(n))

-----------------------------------------------------------------------------
(* Lanes *)

\* A broadcast puts one message at the end of the bus.
LEMMA LoggedOne ==
  ASSUME NEW bus \in Seq(Message), NEW m \in Message, NEW n
  PROVE  /\ m.origin = n => Logged(n, Append(bus, m)) = Logged(n, bus) \cup {m}
         /\ m.origin # n => Logged(n, Append(bus, m)) = Logged(n, bus)
         /\ LogInOrder(n, bus) /\ (m.origin = n => Before(Logged(n, bus), {m}))
              => LogInOrder(n, Append(bus, m))
<1>1. /\ DOMAIN Append(bus, m) = DOMAIN bus \cup {Len(bus) + 1}
      /\ \A i \in DOMAIN bus : Append(bus, m)[i] = bus[i]
      /\ Append(bus, m)[Len(bus) + 1] = m
      /\ DOMAIN bus = 1..Len(bus) /\ Len(bus) \in Nat
  OBVIOUS
<1>2. {Append(bus, m)[i] : i \in DOMAIN Append(bus, m)} = {bus[i] : i \in DOMAIN bus} \cup {m}
  BY <1>1
<1>3. ASSUME LogInOrder(n, bus), m.origin = n => Before(Logged(n, bus), {m})
      PROVE  LogInOrder(n, Append(bus, m))
  <2> SUFFICES ASSUME NEW i \in DOMAIN Append(bus, m), NEW j \in DOMAIN Append(bus, m), i < j,
                      Append(bus, m)[i].origin = n, Append(bus, m)[j].origin = n
               PROVE  Append(bus, m)[i].num < Append(bus, m)[j].num
    BY DEF LogInOrder
  <2>0. i \in DOMAIN bus
    BY <1>1
  <2>1. CASE j \in DOMAIN bus
    BY <1>1, <1>3, <2>0, <2>1 DEF LogInOrder
  <2>2. CASE j = Len(bus) + 1
    <3>1. bus[i] \in Logged(n, bus)
      BY <1>1, <2>0 DEF Logged
    <3> QED BY <1>1, <1>3, <2>0, <2>2, <3>1 DEF Before
  <2> QED BY <1>1, <2>1, <2>2
<1> QED BY <1>2, <1>3 DEF Logged

\* On its own bus a node's messages are numbered as they come.
LEMMA LoggedOwn ==
  ASSUME NEW bus \in Seq(Message), NEW m \in Message, NEW n, NEW count \in Nat,
         m.origin = n, m.num = count + 1, LogInOrder(n, bus),
         \A x \in Logged(n, bus) : x.num <= count
  PROVE  /\ LogInOrder(n, Append(bus, m))
         /\ \A x \in Logged(n, Append(bus, m)) : x.num <= count + 1
<1>1. \A a \in Nat : a <= count => a < count + 1 /\ a <= count + 1
  OBVIOUS
<1>2. \A x \in Logged(n, bus) : x \in Message
  BY DEF Logged
<1>3. \A x \in Logged(n, bus) : x.num < m.num /\ x.num <= count + 1
  BY <1>1, <1>2 DEF Message
<1>4. Before(Logged(n, bus), {m})
  BY <1>3 DEF Before
<1>5. /\ Logged(n, Append(bus, m)) = Logged(n, bus) \cup {m}
      /\ LogInOrder(n, Append(bus, m))
  BY <1>4, LoggedOne
<1>6. m.num <= count + 1
  OBVIOUS
<1> QED BY <1>3, <1>5, <1>6

\* What is taken off a queue comes before what stays on it.
LEMMA TakenFirst ==
  ASSUME NEW T, NEW q \in Seq(T), q # <<>>, NEW n
  PROVE  /\ Head(q) \in T /\ Tail(q) \in Seq(T)
         /\ Mine(n, Tail(q)) \subseteq Mine(n, q)
         /\ Head(q).msg.origin = n => Head(q).msg \in Mine(n, q)
         /\ InOrder(n, q) => InOrder(n, Tail(q))
         /\ InOrder(n, q) /\ Head(q).msg.origin = n => Before({Head(q).msg}, Mine(n, Tail(q)))
<1>1. Head(q) \in T /\ Tail(q) \in Seq(T) /\ Part(Tail(q), q)
  BY Parts
<1>2. /\ Mine(n, Tail(q)) \subseteq Mine(n, q)
      /\ InOrder(n, q) => InOrder(n, Tail(q))
  BY <1>1, PartKept
<1>3. /\ Head(q).msg \in MsgsIn(q)
      /\ InOrder(n, q) /\ Head(q).msg.origin = n
           => \A m \in Mine(n, Tail(q)) : Head(q).msg.num < m.num
  BY HeadKept
<1> QED BY <1>1, <1>2, <1>3 DEF Mine, Before

\* Losses leave a lane in order.
LEMMA LaneShrunk ==
  ASSUME NEW n, NEW bus, NEW count \in Nat,
         NEW sub \in Seq(Envelope), NEW out \in Seq(Envelope), NEW rx \in Seq(Entry),
         NEW sub2 \in Seq(Envelope), NEW out2 \in Seq(Envelope), NEW rx2 \in Seq(Entry),
         Part(sub2, sub), Part(out2, out), Part(rx2, rx),
         Lane(n, bus, sub, out, rx, count)
  PROVE  Lane(n, bus, sub2, out2, rx2, count)
<1>1. /\ Mine(n, sub2) \subseteq Mine(n, sub)
      /\ Mine(n, out2) \subseteq Mine(n, out)
      /\ Mine(n, rx2) \subseteq Mine(n, rx)
      /\ InOrder(n, sub) => InOrder(n, sub2)
      /\ InOrder(n, out) => InOrder(n, out2)
      /\ InOrder(n, rx) => InOrder(n, rx2)
  BY PartKept
<1>2. /\ LogInOrder(n, bus) /\ InOrder(n, sub2) /\ InOrder(n, out2) /\ InOrder(n, rx2)
      /\ \A m \in Logged(n, bus) \cup Mine(n, sub2) \cup Mine(n, out2) \cup Mine(n, rx2) :
           m.num <= count
  BY <1>1 DEF Lane
<1>3. /\ Before(Logged(n, bus), Mine(n, sub2) \cup Mine(n, out2) \cup Mine(n, rx2))
      /\ Before(Mine(n, sub2), Mine(n, out2) \cup Mine(n, rx2))
      /\ Before(Mine(n, out2), Mine(n, rx2))
  BY <1>1 DEF Lane, Before
<1> QED BY <1>2, <1>3 DEF Lane

\* Nor does a message of another node disturb it, at the end of the bus ...
LEMMA LaneBus ==
  ASSUME NEW n, NEW bus \in Seq(Message), NEW sub, NEW out, NEW rx, NEW count,
         NEW m \in Message, m.origin # n, Lane(n, bus, sub, out, rx, count)
  PROVE  Lane(n, Append(bus, m), sub, out, rx, count)
<1>1. /\ Logged(n, Append(bus, m)) = Logged(n, bus)
      /\ LogInOrder(n, bus) => LogInOrder(n, Append(bus, m))
  BY LoggedOne
<1> QED BY <1>1 DEF Lane

\* ... or in the receiver.
LEMMA LaneRx ==
  ASSUME NEW n, NEW bus, NEW sub, NEW out, NEW count, NEW rx \in Seq(Entry),
         NEW x \in Entry, x.msg.origin # n, Lane(n, bus, sub, out, rx, count)
  PROVE  Lane(n, bus, sub, out, Append(rx, x), count)
<1>1. /\ MsgsIn(Append(rx, x)) = MsgsIn(rx) \cup {x.msg}
      /\ InOrder(n, rx) => InOrder(n, Append(rx, x))
  BY AppendKept
<1>2. Mine(n, Append(rx, x)) = Mine(n, rx)
  BY <1>1 DEF Mine
<1> QED BY <1>1, <1>2 DEF Lane

\* What n publishes next has a higher number than everything before it.
LEMMA LaneSay ==
  ASSUME NEW n, NEW bus \in Seq(Message), NEW count \in Nat,
         NEW sub \in Seq(Envelope), NEW out \in Seq(Envelope), NEW rx \in Seq(Entry),
         NEW x \in Entry, x.msg.origin = n, x.msg.num = count + 1,
         Lane(n, bus, sub, out, rx, count)
  PROVE  /\ Lane(n, bus, sub, out, Append(rx, x), count + 1)
         /\ Lane(n, bus, sub, out, rx, count + 1)
<1> DEFINE all == Logged(n, bus) \cup Mine(n, sub) \cup Mine(n, out) \cup Mine(n, rx)
<1>1. all \subseteq Message
  <2>1. \A e \in Envelope \cup Entry : e.msg \in Message
    BY DEF Envelope, Entry
  <2>2. \A i \in DOMAIN bus : bus[i] \in Message
    OBVIOUS
  <2>3. /\ \A i \in DOMAIN sub : sub[i] \in Envelope
        /\ \A i \in DOMAIN out : out[i] \in Envelope
        /\ \A i \in DOMAIN rx : rx[i] \in Entry
    OBVIOUS
  <2> QED BY <2>1, <2>2, <2>3 DEF Logged, Mine, MsgsIn
<1>2. \A m \in all : m.num \in Nat /\ m.num <= count
  BY <1>1 DEF Message, Lane
<1>3. \A a \in Nat : a <= count => a < count + 1 /\ a <= count + 1
  OBVIOUS
<1>4. \A m \in all : m.num < x.msg.num /\ m.num <= count + 1
  BY <1>2, <1>3
<1>5. /\ MsgsIn(Append(rx, x)) = MsgsIn(rx) \cup {x.msg}
      /\ InOrder(n, rx) => InOrder(n, Append(rx, x))
  BY <1>4, AppendKept
<1>6. Mine(n, Append(rx, x)) = Mine(n, rx) \cup {x.msg}
  BY <1>5 DEF Mine
<1>7. x.msg.num <= count + 1
  OBVIOUS
<1>8. \A m \in all \cup {x.msg} : m.num <= count + 1
  BY <1>4, <1>7
<1>9. /\ Before(Logged(n, bus), Mine(n, sub) \cup Mine(n, out) \cup Mine(n, rx) \cup {x.msg})
      /\ Before(Mine(n, sub), Mine(n, out) \cup Mine(n, rx) \cup {x.msg})
      /\ Before(Mine(n, out), Mine(n, rx) \cup {x.msg})
  BY <1>4 DEF Lane, Before
<1>10. Lane(n, bus, sub, out, rx, count + 1)
  BY <1>8 DEF Lane
<1>11. LogInOrder(n, bus) /\ InOrder(n, sub) /\ InOrder(n, out) /\ InOrder(n, Append(rx, x))
  BY <1>5 DEF Lane
<1>12. /\ Logged(n, bus) \cup Mine(n, sub) \cup Mine(n, out) \cup Mine(n, Append(rx, x))
            = all \cup {x.msg}
       /\ Mine(n, sub) \cup Mine(n, out) \cup Mine(n, Append(rx, x))
            = Mine(n, sub) \cup Mine(n, out) \cup Mine(n, rx) \cup {x.msg}
       /\ Mine(n, out) \cup Mine(n, Append(rx, x)) = Mine(n, out) \cup Mine(n, rx) \cup {x.msg}
  BY <1>6
<1> QED BY <1>6, <1>8, <1>9, <1>10, <1>11, <1>12 DEF Lane

\* The receiver's first message goes to the end of the outbox, ...
LEMMA LaneRelayed ==
  ASSUME NEW n, NEW bus, NEW sub, NEW count, NEW out \in Seq(Envelope), NEW rx \in Seq(Entry),
         rx # <<>>, NEW env \in Envelope, env.msg = Head(rx).msg, env.msg.origin = n,
         Lane(n, bus, sub, out, rx, count)
  PROVE  Lane(n, bus, sub, Append(out, env), Tail(rx), count)
<1>1. InOrder(n, rx)
  BY DEF Lane
<1>2. /\ Mine(n, Tail(rx)) \subseteq Mine(n, rx)
      /\ InOrder(n, Tail(rx)) /\ Before({env.msg}, Mine(n, Tail(rx)))
  BY <1>1, TakenFirst
<1>3. env.msg \in Mine(n, rx)
  BY TakenFirst
<1>4. \A m \in Mine(n, out) : m.num < env.msg.num
  BY <1>3 DEF Lane, Before
<1>5. /\ MsgsIn(Append(out, env)) = MsgsIn(out) \cup {env.msg}
      /\ InOrder(n, out) => InOrder(n, Append(out, env))
  BY <1>4, AppendKept
<1>6. Mine(n, Append(out, env)) = Mine(n, out) \cup {env.msg}
  BY <1>3, <1>5 DEF Mine
<1> DEFINE out2 == Append(out, env)
           rx2 == Tail(rx)
<1>7. /\ LogInOrder(n, bus) /\ InOrder(n, sub) /\ InOrder(n, out2) /\ InOrder(n, rx2)
      /\ Before(Mine(n, out2), Mine(n, rx2))
  BY <1>1, <1>2, <1>3, <1>5, <1>6 DEF Lane, Before
<1>8. Mine(n, out2) \cup Mine(n, rx2) \subseteq Mine(n, out) \cup Mine(n, rx)
  BY <1>2, <1>3, <1>6
<1> HIDE DEF out2, rx2
<1>9. /\ Before(Logged(n, bus), Mine(n, sub) \cup Mine(n, out2) \cup Mine(n, rx2))
      /\ Before(Mine(n, sub), Mine(n, out2) \cup Mine(n, rx2))
      /\ \A m \in Logged(n, bus) \cup Mine(n, sub) \cup Mine(n, out2) \cup Mine(n, rx2) :
           m.num <= count
  BY <1>8 DEF Lane, Before
<1>10. Lane(n, bus, sub, out2, rx2, count)
  BY <1>7, <1>9 DEF Lane
<1> QED BY <1>10 DEF out2, rx2

\* ... the outbox's first to the end of a subscription, ...
LEMMA LaneFlushed ==
  ASSUME NEW n, NEW bus, NEW rx, NEW count, NEW sub \in Seq(Envelope), NEW out \in Seq(Envelope),
         out # <<>>, Head(out).msg.origin = n, Lane(n, bus, sub, out, rx, count)
  PROVE  Lane(n, bus, Append(sub, Head(out)), Tail(out), rx, count)
<1> DEFINE env == Head(out)
<1>1. InOrder(n, out) /\ env \in Envelope
  BY TakenFirst DEF Lane
<1>2. /\ Mine(n, Tail(out)) \subseteq Mine(n, out)
      /\ InOrder(n, Tail(out)) /\ Before({env.msg}, Mine(n, Tail(out)))
  BY <1>1, TakenFirst
<1>3. env.msg \in Mine(n, out)
  BY TakenFirst
<1> HIDE DEF env
<1>4. \A m \in Mine(n, sub) : m.num < env.msg.num
  BY <1>3 DEF Lane, Before
<1>5. /\ MsgsIn(Append(sub, env)) = MsgsIn(sub) \cup {env.msg}
      /\ InOrder(n, sub) => InOrder(n, Append(sub, env))
  BY <1>1, <1>4, AppendKept
<1>6. Mine(n, Append(sub, env)) = Mine(n, sub) \cup {env.msg}
  BY <1>3, <1>5 DEF Mine
<1> DEFINE sub2 == Append(sub, env)
           out2 == Tail(out)
<1>7. /\ LogInOrder(n, bus) /\ InOrder(n, sub2) /\ InOrder(n, out2) /\ InOrder(n, rx)
      /\ Before(Mine(n, sub2), Mine(n, out2))
  BY <1>1, <1>2, <1>3, <1>5, <1>6 DEF Lane, Before
<1>8. /\ Mine(n, sub2) \cup Mine(n, out2) \subseteq Mine(n, sub) \cup Mine(n, out)
      /\ Mine(n, out2) \subseteq Mine(n, out)
  BY <1>2, <1>3, <1>6
<1> HIDE DEF sub2, out2
<1>9. /\ Before(Logged(n, bus), Mine(n, sub2) \cup Mine(n, out2) \cup Mine(n, rx))
      /\ Before(Mine(n, sub2), Mine(n, rx)) /\ Before(Mine(n, out2), Mine(n, rx))
      /\ \A m \in Logged(n, bus) \cup Mine(n, sub2) \cup Mine(n, out2) \cup Mine(n, rx) :
           m.num <= count
  BY <1>8 DEF Lane, Before
<1>10. Before(Mine(n, sub2), Mine(n, out2) \cup Mine(n, rx))
  BY <1>7, <1>9 DEF Before
<1>11. Lane(n, bus, sub2, out2, rx, count)
  BY <1>7, <1>9, <1>10 DEF Lane
<1> QED BY <1>11 DEF env, sub2, out2

\* ... and the subscription's first to the end of the bus.
LEMMA LaneDelivered ==
  ASSUME NEW n, NEW out, NEW rx, NEW count, NEW bus \in Seq(Message), NEW sub \in Seq(Envelope),
         sub # <<>>, NEW m \in Message, m = Head(sub).msg, m.origin = n,
         Lane(n, bus, sub, out, rx, count)
  PROVE  Lane(n, Append(bus, m), Tail(sub), out, rx, count)
<1>1. InOrder(n, sub)
  BY DEF Lane
<1>2. /\ Mine(n, Tail(sub)) \subseteq Mine(n, sub)
      /\ InOrder(n, Tail(sub)) /\ Before({m}, Mine(n, Tail(sub)))
  BY <1>1, TakenFirst
<1>3. m \in Mine(n, sub)
  BY TakenFirst
<1>4. Before(Logged(n, bus), {m})
  BY <1>3 DEF Lane, Before
<1>5. /\ Logged(n, Append(bus, m)) = Logged(n, bus) \cup {m}
      /\ LogInOrder(n, bus) => LogInOrder(n, Append(bus, m))
  BY <1>4, LoggedOne
<1> QED BY <1>1, <1>2, <1>3, <1>5 DEF Lane, Before

-----------------------------------------------------------------------------
(* Steps *)

\* A broadcast of another node's message does not change what a node has published.
LEMMA PublishedSame ==
  ASSUME NEW n, NEW k \in Nodes, NEW m \in Message, TypeOK, NEW from, n \in Nodes,
         Broadcast(k, m, from), k = n => m.origin # n
  PROVE  Published(n)' = Published(n)
<1>1. Own(n)' = Own(n)
  <2>1. log[n] \in Seq(Message) /\ log' = [log EXCEPT ![k] = Append(@, m)]
        /\ log \in [Nodes -> Seq(Message)]
    BY DEF TypeOK, Broadcast
  <2>2. CASE k # n
    BY <2>1, <2>2 DEF Own
  <2>3. CASE k = n
    <3>1. log'[n] = Append(log[n], m)
      BY <2>1, <2>3
    <3>2. /\ DOMAIN log'[n] = DOMAIN log[n] \cup {Len(log[n]) + 1}
          /\ \A i \in DOMAIN log[n] : log'[n][i] = log[n][i]
          /\ log'[n][Len(log[n]) + 1] = m
      BY <2>1, <3>1
    <3> QED BY <2>3, <3>2 DEF Own
  <2> QED BY <2>2, <2>3
<1> QED BY <1>1 DEF Published

\* A message that begins on a node is one more.
LEMMA PublishedOne ==
  ASSUME NEW n \in Nodes, NEW m \in Message, TypeOK, NEW from, Broadcast(n, m, from), m.origin = n
  PROVE  Published(n) \in Nat /\ Published(n)' = Published(n) + 1
<1>1. log[n] \in Seq(Message) /\ log'[n] = Append(log[n], m)
  BY DEF TypeOK, Broadcast
<1>2. /\ DOMAIN log'[n] = DOMAIN log[n] \cup {Len(log[n]) + 1}
      /\ \A i \in DOMAIN log[n] : log'[n][i] = log[n][i]
      /\ log'[n][Len(log[n]) + 1] = m
      /\ Len(log[n]) + 1 \notin DOMAIN log[n]
  BY <1>1
<1>3. Own(n)' = Own(n) \cup {Len(log[n]) + 1} /\ Len(log[n]) + 1 \notin Own(n)
  BY <1>2 DEF Own
<1>4. IsFiniteSet(Own(n)) /\ Cardinality(Own(n)) \in Nat
  BY <1>1, OwnCount
<1> QED BY <1>3, <1>4, FS_AddElement DEF Published

\* Steps that only take messages away.
LEMMA OrderLeft ==
  ASSUME TypeOK, TypeOK', OrderInv, UNCHANGED log,
         \A p \in Nodes : Part(localRx'[p], localRx[p]) /\ Part(outbox'[p], outbox[p]),
         \A p, o \in Nodes : Part(inbound'[p][o], inbound[p][o])
  PROVE  OrderInv'
<1>1. \A n : Published(n)' = Published(n)
  BY DEF Published, Own
<1>2. ASSUME NEW n \in Nodes, NEW p \in Nodes \ {n}
      PROVE  Lane(n, log[p], inbound[p][n], outbox[n], localRx[n], Published(n))'
  <2>1. /\ inbound[p][n] \in Seq(Envelope) /\ inbound'[p][n] \in Seq(Envelope)
        /\ outbox[n] \in Seq(Envelope) /\ outbox'[n] \in Seq(Envelope)
        /\ localRx[n] \in Seq(Entry) /\ localRx'[n] \in Seq(Entry)
    BY DEF TypeOK, QueueTypes
  <2>2. Published(n) \in Nat
    BY OwnCount DEF TypeOK, Published
  <2>3. Lane(n, log[p], inbound'[p][n], outbox'[n], localRx'[n], Published(n))
    BY <2>1, <2>2, LaneShrunk DEF OrderInv
  <2> QED BY <1>1, <2>3
<1>3. ASSUME NEW n \in Nodes
      PROVE  /\ \A i \in DOMAIN localRx'[n] :
                  localRx'[n][i].from_uplink <=> localRx'[n][i].msg.origin # n
             /\ \A i \in DOMAIN outbox'[n] : Stamped(n, outbox'[n][i])
             /\ \A p \in Nodes : \A i \in DOMAIN inbound'[p][n] : Stamped(n, inbound'[p][n][i])
  BY DEF OrderInv, Part
<1>4. ASSUME NEW n \in Nodes
      PROVE  /\ LogInOrder(n, log'[n])
             /\ \A m \in Logged(n, log'[n]) : m.num <= Published(n)'
  BY <1>1 DEF OrderInv
<1> QED BY <1>2, <1>3, <1>4 DEF OrderInv, Stamped

\* A receiver that gets a message keeps the marks of the others.
LEMMA MarkedBroadcast ==
  ASSUME TypeOK, OrderInv, NEW k \in Nodes, NEW m \in Message, NEW from \in BOOLEAN,
         from <=> m.origin # k, Broadcast(k, m, from), NEW n \in Nodes
  PROVE  \A i \in DOMAIN localRx'[n] :
           localRx'[n][i].from_uplink <=> localRx'[n][i].msg.origin # n
<1> DEFINE x == [msg |-> m, from_uplink |-> from]
           Marked(e) == e.from_uplink <=> e.msg.origin # n
<1>1. \A i \in DOMAIN localRx[n] : Marked(localRx[n][i])
  BY DEF OrderInv
<1>2. x \in Entry /\ (n = k => Marked(x))
  BY DEF Entry
<1> HIDE DEF x, Marked
<1>3. CASE localRx'[n] = localRx[n]
  BY <1>1, <1>3 DEF Marked
<1>4. ASSUME NEW r \in Seq(Entry), n = k, Part(r, localRx[n]), localRx'[n] = Append(r, x)
      PROVE  \A i \in DOMAIN localRx'[n] : Marked(localRx'[n][i])
  <2>1. \A i \in DOMAIN r : Marked(r[i])
    BY <1>1, <1>4 DEF Part
  <2>2. /\ DOMAIN Append(r, x) = DOMAIN r \cup {Len(r) + 1}
        /\ \A i \in DOMAIN r : Append(r, x)[i] = r[i]
        /\ Append(r, x)[Len(r) + 1] = x
    BY <1>2
  <2> QED BY <1>2, <1>4, <2>1, <2>2
<1>5. CASE n # k
  BY <1>3, <1>5, BroadcastQueues
<1>6. CASE n = k
  <2>1. \/ localRx'[k] = localRx[k]
        \/ \E r \in Seq(Entry) : Part(r, localRx[k]) /\ localRx'[k] = Append(r, x)
    BY BroadcastQueues DEF x
  <2> QED BY <1>3, <1>4, <1>6, <2>1 DEF Marked
<1> QED BY <1>5, <1>6

\* What a node says goes to its own bus and into its receiver.
LEMMA OrderSaid ==
  ASSUME TypeOK, OrderInv, NEW k \in Nodes, NEW m \in Message, m.origin = k,
         m.num = Published(k) + 1, Broadcast(k, m, FALSE), UNCHANGED <<outbox, inbound>>
  PROVE  OrderInv'
<1>0. /\ localRx \in [Nodes -> Seq(Entry)] /\ outbox \in [Nodes -> Seq(Envelope)]
      /\ inbound \in [Nodes -> [Nodes -> Seq(Envelope)]] /\ log \in [Nodes -> Seq(Message)]
  BY DEF TypeOK, QueueTypes
<1>1. /\ Published(k) \in Nat /\ Published(k)' = Published(k) + 1
      /\ \A n \in Nodes \ {k} : Published(n)' = Published(n)
  BY PublishedOne, PublishedSame
<1>2. /\ log'[k] = Append(log[k], m)
      /\ \A n \in Nodes \ {k} : log'[n] = log[n] /\ localRx'[n] = localRx[n]
      /\ \/ localRx'[k] = localRx[k]
         \/ \E r \in Seq(Entry) :
              Part(r, localRx[k]) /\ localRx'[k] = Append(r, [msg |-> m, from_uplink |-> FALSE])
  BY BroadcastQueues
<1>3. ASSUME NEW p \in Nodes \ {k}
      PROVE  Lane(k, log[p], inbound[p][k], outbox[k], localRx'[k], Published(k)')
  <2> DEFINE x == [msg |-> m, from_uplink |-> FALSE]
  <2>1. x \in Entry /\ x.msg = m
    BY DEF Entry
  <2> HIDE DEF x
  <2>2. /\ log[p] \in Seq(Message) /\ inbound[p][k] \in Seq(Envelope)
        /\ outbox[k] \in Seq(Envelope) /\ localRx[k] \in Seq(Entry)
        /\ Lane(k, log[p], inbound[p][k], outbox[k], localRx[k], Published(k))
    BY <1>0 DEF OrderInv
  <2>3. Lane(k, log[p], inbound[p][k], outbox[k], localRx[k], Published(k) + 1)
    BY <1>1, <2>1, <2>2, LaneSay
  <2>4. ASSUME NEW r \in Seq(Entry), Part(r, localRx[k])
        PROVE  Lane(k, log[p], inbound[p][k], outbox[k], Append(r, x), Published(k) + 1)
    <3>1. Part(inbound[p][k], inbound[p][k]) /\ Part(outbox[k], outbox[k])
      BY <2>2, Parts
    <3>2. Lane(k, log[p], inbound[p][k], outbox[k], r, Published(k))
      BY <1>1, <2>2, <2>4, <3>1, LaneShrunk
    <3> QED BY <1>1, <2>1, <2>2, <3>2, LaneSay
  <2>5. CASE localRx'[k] = localRx[k]
    BY <1>1, <2>3, <2>5
  <2>6. ASSUME NEW r \in Seq(Entry), Part(r, localRx[k]), localRx'[k] = Append(r, x)
        PROVE  Lane(k, log[p], inbound[p][k], outbox[k], localRx'[k], Published(k)')
    BY <1>1, <2>4, <2>6
  <2> QED BY <1>2, <2>5, <2>6 DEF x
<1>4. ASSUME NEW n \in Nodes \ {k}, NEW p \in Nodes \ {n}
      PROVE  Lane(n, log'[p], inbound[p][n], outbox[n], localRx'[n], Published(n)')
  <2>1. Lane(n, log[p], inbound[p][n], outbox[n], localRx[n], Published(n))
    BY DEF OrderInv
  <2>2. CASE p # k
    BY <1>1, <1>2, <2>1, <2>2
  <2>3. CASE p = k
    <3>1. log[k] \in Seq(Message) /\ m.origin # n
      BY <1>0
    <3>2. Lane(n, Append(log[k], m), inbound[k][n], outbox[n], localRx[n], Published(n))
      BY <2>1, <2>3, <3>1, LaneBus
    <3> QED BY <1>1, <1>2, <2>3, <3>2
  <2> QED BY <2>2, <2>3
<1>5. /\ LogInOrder(k, log'[k])
      /\ \A x \in Logged(k, log'[k]) : x.num <= Published(k)'
  <2>1. /\ log[k] \in Seq(Message) /\ LogInOrder(k, log[k]) /\ Published(k) \in Nat
        /\ \A x \in Logged(k, log[k]) : x.num <= Published(k)
    BY <1>0, <1>1 DEF OrderInv
  <2>2. /\ LogInOrder(k, Append(log[k], m))
        /\ \A x \in Logged(k, Append(log[k], m)) : x.num <= Published(k) + 1
    BY <2>1, LoggedOwn
  <2> QED BY <1>1, <1>2, <2>2
<1>6. ASSUME NEW n \in Nodes \ {k}
      PROVE  /\ LogInOrder(n, log'[n])
             /\ \A x \in Logged(n, log'[n]) : x.num <= Published(n)'
  BY <1>1, <1>2 DEF OrderInv
<1>7. ASSUME NEW n \in Nodes
      PROVE  /\ \A i \in DOMAIN localRx'[n] :
                  localRx'[n][i].from_uplink <=> localRx'[n][i].msg.origin # n
             /\ \A i \in DOMAIN outbox'[n] : Stamped(n, outbox'[n][i])
             /\ \A p \in Nodes : \A i \in DOMAIN inbound'[p][n] : Stamped(n, inbound'[p][n][i])
  BY MarkedBroadcast DEF OrderInv
<1>8. ASSUME NEW n \in Nodes, NEW p \in Nodes \ {n}
      PROVE  Lane(n, log'[p], inbound'[p][n], outbox'[n], localRx'[n], Published(n)')
  BY <1>2, <1>3, <1>4
<1> QED BY <1>5, <1>6, <1>7, <1>8 DEF OrderInv, Stamped

\* What comes in from another node goes to the bus, and into the receiver for nobody.
LEMMA OrderReceived ==
  ASSUME TypeOK, TypeOK', OrderInv, NEW k \in Nodes, NEW o \in Nodes, RelayIn(k, o)
  PROVE  OrderInv'
<1> DEFINE m == Head(inbound[k][o]).msg
           x == [msg |-> m, from_uplink |-> TRUE]
<1>0. /\ localRx \in [Nodes -> Seq(Entry)] /\ outbox \in [Nodes -> Seq(Envelope)]
      /\ inbound \in [Nodes -> [Nodes -> Seq(Envelope)]] /\ log \in [Nodes -> Seq(Message)]
  BY DEF TypeOK, QueueTypes
<1>1. /\ inbound[k][o] # <<>> /\ inbound' = [inbound EXCEPT ![k][o] = Tail(@)]
      /\ UNCHANGED outbox
  BY DEF RelayIn
<1>2. /\ inbound[k][o] \in Seq(Envelope) /\ Head(inbound[k][o]) \in Envelope
      /\ m \in Message /\ Tail(inbound[k][o]) \in Seq(Envelope)
      /\ Part(Tail(inbound[k][o]), inbound[k][o])
  <2>1. inbound[k][o] \in Seq(Envelope) /\ \A e \in Envelope : e.msg \in Message
    BY <1>0 DEF Envelope
  <2> QED BY <1>1, <2>1, Parts
<1>3. Stamped(o, Head(inbound[k][o]))
  <2>1. 1 \in DOMAIN inbound[k][o] /\ Head(inbound[k][o]) = inbound[k][o][1]
    BY <1>1, <1>2
  <2> QED BY <2>1 DEF OrderInv
<1>4. /\ \A p, n \in Nodes : Part(inbound[p][n], inbound[p][n])
      /\ \A p \in Nodes : Part(outbox[p], outbox[p]) /\ Part(localRx[p], localRx[p])
  BY <1>0, Parts
<1>5. \A p, n \in Nodes : Part(inbound'[p][n], inbound[p][n])
  BY <1>0, <1>1, <1>2, <1>4
<1>6. CASE SelfEcho(k, Head(inbound[k][o]))
  <2>1. UNCHANGED <<log, localRx>>
    BY <1>6 DEF RelayIn
  <2> QED BY <1>1, <1>4, <1>5, <2>1, OrderLeft
<1>7. CASE ~SelfEcho(k, Head(inbound[k][o]))
  <2>1. m.origin = o /\ o # k
    BY <1>3, <1>7 DEF SelfEcho, Stamped
  <2>2. Broadcast(k, m, TRUE)
    BY <1>7 DEF RelayIn
  <2>3. x \in Entry /\ x.msg = m
    BY <1>2 DEF Entry
  <2> HIDE DEF m
  <2>4. /\ log'[k] = Append(log[k], m)
        /\ \A n \in Nodes \ {k} : log'[n] = log[n] /\ localRx'[n] = localRx[n]
        /\ \/ localRx'[k] = localRx[k]
           \/ \E r \in Seq(Entry) : Part(r, localRx[k]) /\ localRx'[k] = Append(r, x)
    BY <1>2, <2>2, BroadcastQueues
  <2> HIDE DEF x
  <2>5. \A n \in Nodes : Published(n)' = Published(n)
    BY <1>2, <2>1, <2>2, PublishedSame
  <2>6. ASSUME NEW n \in Nodes, NEW p \in Nodes \ {n}
        PROVE  Lane(n, log'[p], inbound'[p][n], outbox[n], localRx'[n], Published(n))
    <3>1. /\ log[p] \in Seq(Message) /\ inbound[p][n] \in Seq(Envelope)
          /\ outbox[n] \in Seq(Envelope) /\ localRx[n] \in Seq(Entry)
          /\ Lane(n, log[p], inbound[p][n], outbox[n], localRx[n], Published(n))
          /\ Published(n) \in Nat
      BY <1>0, OwnCount DEF OrderInv, Published
    <3>2. CASE n = k
      <4>1. log'[p] = log[p] /\ inbound'[p][n] = inbound[p][n]
        BY <1>0, <1>1, <2>4, <3>2
      <4>2. CASE localRx'[n] = localRx[n]
        BY <3>1, <4>1, <4>2
      <4>3. ASSUME NEW r \in Seq(Entry), Part(r, localRx[n]), localRx'[n] = Append(r, x)
            PROVE  Lane(n, log'[p], inbound'[p][n], outbox[n], localRx'[n], Published(n))
        <5>1. Lane(n, log[p], inbound[p][n], outbox[n], r, Published(n))
          BY <1>4, <3>1, <4>3, LaneShrunk
        <5>2. Lane(n, log[p], inbound[p][n], outbox[n], Append(r, x), Published(n))
          BY <2>1, <2>3, <3>2, <5>1, LaneRx
        <5> QED BY <4>1, <4>3, <5>2
      <4> QED BY <2>4, <3>2, <4>2, <4>3
    <3>3. CASE n # k /\ p # k
      BY <1>0, <1>1, <2>4, <3>1, <3>3
    <3>4. CASE n # k /\ p = k /\ n # o
      <4>1. inbound'[p][n] = inbound[p][n] /\ localRx'[n] = localRx[n]
        BY <1>0, <1>1, <2>4, <3>4
      <4>2. Lane(n, Append(log[p], m), inbound[p][n], outbox[n], localRx[n], Published(n))
        BY <1>2, <2>1, <3>1, <3>4, LaneBus
      <4> QED BY <2>4, <3>4, <4>1, <4>2
    <3>5. CASE p = k /\ n = o
      <4>1. inbound'[p][n] = Tail(inbound[p][n]) /\ localRx'[n] = localRx[n]
        BY <1>0, <1>1, <2>1, <2>4, <3>5
      <4>2. Lane(n, Append(log[p], m), Tail(inbound[p][n]), outbox[n], localRx[n], Published(n))
        BY <1>1, <1>2, <2>1, <3>1, <3>5, LaneDelivered DEF m
      <4> QED BY <2>4, <3>5, <4>1, <4>2
    <3> QED BY <3>2, <3>3, <3>4, <3>5
  <2>7. ASSUME NEW n \in Nodes
        PROVE  /\ LogInOrder(n, log'[n])
               /\ \A y \in Logged(n, log'[n]) : y.num <= Published(n)
    <3>1. LogInOrder(n, log[n]) /\ \A y \in Logged(n, log[n]) : y.num <= Published(n)
      BY DEF OrderInv
    <3>2. CASE n # k
      BY <2>4, <3>1, <3>2
    <3>3. CASE n = k
      <4>1. /\ Logged(n, Append(log[k], m)) = Logged(n, log[k])
            /\ LogInOrder(n, log[k]) => LogInOrder(n, Append(log[k], m))
        BY <1>0, <1>2, <2>1, <3>3, LoggedOne
      <4> QED BY <2>4, <3>1, <3>3, <4>1
    <3> QED BY <3>2, <3>3
  <2>8. ASSUME NEW n \in Nodes
        PROVE  /\ \A i \in DOMAIN localRx'[n] :
                    localRx'[n][i].from_uplink <=> localRx'[n][i].msg.origin # n
               /\ \A i \in DOMAIN outbox'[n] : Stamped(n, outbox'[n][i])
               /\ \A p \in Nodes : \A i \in DOMAIN inbound'[p][n] : Stamped(n, inbound'[p][n][i])
    <3>1. \A i \in DOMAIN localRx'[n] :
            localRx'[n][i].from_uplink <=> localRx'[n][i].msg.origin # n
      BY <1>2, <2>1, <2>2, MarkedBroadcast
    <3>2. \A p \in Nodes : \A i \in DOMAIN inbound'[p][n] : Stamped(n, inbound'[p][n][i])
      BY <1>5 DEF OrderInv, Part
    <3> QED BY <1>1, <3>1, <3>2 DEF OrderInv
  <2> QED BY <1>1, <2>5, <2>6, <2>7, <2>8 DEF OrderInv, Stamped
<1> QED BY <1>6, <1>7

\* A message goes out only on the node it began on.
LEMMA OrderRelayed ==
  ASSUME TypeOK, TypeOK', OrderInv, NEW k \in Nodes, RelayOut(k)
  PROVE  OrderInv'
<1> DEFINE env == [origin_node |-> NameOf[k], msg |-> Head(localRx[k]).msg]
<1>0. /\ localRx \in [Nodes -> Seq(Entry)] /\ outbox \in [Nodes -> Seq(Envelope)]
      /\ inbound \in [Nodes -> [Nodes -> Seq(Envelope)]] /\ log \in [Nodes -> Seq(Message)]
  BY DEF TypeOK, QueueTypes
<1>1. /\ localRx[k] # <<>> /\ localRx' = [localRx EXCEPT ![k] = Tail(@)]
      /\ UNCHANGED <<inbound, log>>
  BY DEF RelayOut
<1>2. /\ localRx[k] \in Seq(Entry) /\ Head(localRx[k]) \in Entry
      /\ Tail(localRx[k]) \in Seq(Entry) /\ Part(Tail(localRx[k]), localRx[k])
  BY <1>0, <1>1, Parts
<1>3. /\ \A p, n \in Nodes : Part(inbound[p][n], inbound[p][n])
      /\ \A p \in Nodes : Part(outbox[p], outbox[p]) /\ Part(localRx[p], localRx[p])
  BY <1>0, Parts
<1>4. \A p \in Nodes : Part(localRx'[p], localRx[p])
  BY <1>0, <1>1, <1>2, <1>3
<1>5. CASE ~Relays(Head(localRx[k]))
  <2>1. UNCHANGED outbox
    BY <1>5 DEF RelayOut
  <2> QED BY <1>1, <1>3, <1>4, <2>1, OrderLeft
<1>6. CASE Relays(Head(localRx[k]))
  <2>1. Head(localRx[k]).msg.origin = k
    <3>1. 1 \in DOMAIN localRx[k] /\ Head(localRx[k]) = localRx[k][1]
      BY <1>1, <1>2
    <3> QED BY <1>6, <3>1 DEF OrderInv, Relays
  <2>2. outbox' = [outbox EXCEPT ![k] = Append(@, env)]
    BY <1>6 DEF RelayOut, Queued
  <2>3. env \in Envelope /\ env.msg = Head(localRx[k]).msg /\ Stamped(k, env)
    BY <1>2, <2>1, UplinkNames DEF Envelope, Entry, Stamped
  <2> HIDE DEF env
  <2>4. \A n : Published(n)' = Published(n)
    BY <1>1 DEF Published, Own
  <2>5. ASSUME NEW n \in Nodes, NEW p \in Nodes \ {n}
        PROVE  Lane(n, log[p], inbound[p][n], outbox'[n], localRx'[n], Published(n))
    <3>1. /\ outbox[n] \in Seq(Envelope) /\ localRx[n] \in Seq(Entry)
          /\ Lane(n, log[p], inbound[p][n], outbox[n], localRx[n], Published(n))
      BY <1>0 DEF OrderInv
    <3>2. CASE n = k
      <4>1. outbox'[n] = Append(outbox[n], env) /\ localRx'[n] = Tail(localRx[n])
        BY <1>0, <1>1, <2>2, <3>2
      <4>2. Lane(n, log[p], inbound[p][n], Append(outbox[n], env), Tail(localRx[n]), Published(n))
        BY <1>1, <2>1, <2>3, <3>1, <3>2, LaneRelayed
      <4> QED BY <4>1, <4>2
    <3>3. CASE n # k
      BY <1>0, <1>1, <2>2, <3>1, <3>3
    <3> QED BY <3>2, <3>3
  <2>6. ASSUME NEW n \in Nodes PROVE \A i \in DOMAIN outbox'[n] : Stamped(n, outbox'[n][i])
    <3>1. \A i \in DOMAIN outbox[n] : Stamped(n, outbox[n][i])
      BY DEF OrderInv
    <3>2. CASE n = k
      <4>1. outbox'[n] = Append(outbox[n], env) /\ outbox[n] \in Seq(Envelope)
        BY <1>0, <2>2, <3>2
      <4>2. /\ DOMAIN outbox'[n] = DOMAIN outbox[n] \cup {Len(outbox[n]) + 1}
            /\ \A i \in DOMAIN outbox[n] : outbox'[n][i] = outbox[n][i]
            /\ outbox'[n][Len(outbox[n]) + 1] = env
        BY <2>3, <4>1
      <4> QED BY <2>3, <3>1, <3>2, <4>2
    <3>3. CASE n # k
      BY <1>0, <2>2, <3>1, <3>3
    <3> QED BY <3>2, <3>3
  <2>7. ASSUME NEW n \in Nodes
        PROVE  \A i \in DOMAIN localRx'[n] :
                 localRx'[n][i].from_uplink <=> localRx'[n][i].msg.origin # n
    BY <1>4 DEF OrderInv, Part
  <2> QED BY <1>1, <2>4, <2>5, <2>6, <2>7 DEF OrderInv, Stamped
<1> QED BY <1>5, <1>6

\* NATS hands over what it was given, in its order.
LEMMA OrderFlushed ==
  ASSUME TypeOK, TypeOK', OrderInv, NEW k \in Nodes, Flush(k)
  PROVE  OrderInv'
<1> DEFINE env == Head(outbox[k])
<1>0. /\ localRx \in [Nodes -> Seq(Entry)] /\ outbox \in [Nodes -> Seq(Envelope)]
      /\ inbound \in [Nodes -> [Nodes -> Seq(Envelope)]] /\ log \in [Nodes -> Seq(Message)]
  BY DEF TypeOK, QueueTypes
<1>1. /\ outbox[k] # <<>> /\ outbox' = [outbox EXCEPT ![k] = Tail(@)]
      /\ UNCHANGED <<localRx, log>>
      /\ \A p, n \in Nodes :
           \/ inbound'[p][n] = inbound[p][n]
           \/ n = k /\ inbound'[p][n] = Append(inbound[p][n], env)
  BY <1>0 DEF Flush
<1>2. /\ outbox[k] \in Seq(Envelope) /\ env \in Envelope
      /\ Tail(outbox[k]) \in Seq(Envelope) /\ Part(Tail(outbox[k]), outbox[k])
  BY <1>0, <1>1, Parts
<1>3. Stamped(k, env)
  <2>1. 1 \in DOMAIN outbox[k] /\ env = outbox[k][1]
    BY <1>1, <1>2
  <2> QED BY <2>1 DEF OrderInv
<1>4. \A n : Published(n)' = Published(n)
  BY <1>1 DEF Published, Own
<1>5. ASSUME NEW n \in Nodes, NEW p \in Nodes \ {n}
      PROVE  Lane(n, log[p], inbound'[p][n], outbox'[n], localRx[n], Published(n))
  <2>1. /\ outbox[n] \in Seq(Envelope) /\ localRx[n] \in Seq(Entry)
        /\ inbound[p][n] \in Seq(Envelope) /\ Published(n) \in Nat
        /\ Lane(n, log[p], inbound[p][n], outbox[n], localRx[n], Published(n))
    BY <1>0, OwnCount DEF OrderInv, Published
  <2>2. CASE n = k
    <3>1. outbox'[n] = Tail(outbox[n])
      BY <1>0, <1>1, <2>2
    <3>2. CASE inbound'[p][n] = inbound[p][n]
      <4>1. Part(inbound[p][n], inbound[p][n]) /\ Part(localRx[n], localRx[n])
        BY <2>1, Parts
      <4>2. Lane(n, log[p], inbound[p][n], Tail(outbox[n]), localRx[n], Published(n))
        BY <1>2, <2>1, <2>2, <4>1, LaneShrunk
      <4> QED BY <3>1, <3>2, <4>2
    <3>3. CASE inbound'[p][n] = Append(inbound[p][n], env)
      <4>1. Lane(n, log[p], Append(inbound[p][n], env), Tail(outbox[n]), localRx[n], Published(n))
        BY <1>1, <1>3, <2>1, <2>2, LaneFlushed DEF Stamped
      <4> QED BY <3>1, <3>3, <4>1
    <3> QED BY <1>1, <3>2, <3>3
  <2>3. CASE n # k
    BY <1>0, <1>1, <2>1, <2>3
  <2> QED BY <2>2, <2>3
<1>6. ASSUME NEW n \in Nodes, NEW p \in Nodes
      PROVE  \A i \in DOMAIN inbound'[p][n] : Stamped(n, inbound'[p][n][i])
  <2>1. \A i \in DOMAIN inbound[p][n] : Stamped(n, inbound[p][n][i])
    BY DEF OrderInv
  <2>2. CASE n = k /\ inbound'[p][n] = Append(inbound[p][n], env)
    <3>1. inbound[p][n] \in Seq(Envelope)
      BY <1>0
    <3> HIDE DEF env
    <3>2. /\ DOMAIN inbound'[p][n] = DOMAIN inbound[p][n] \cup {Len(inbound[p][n]) + 1}
          /\ \A i \in DOMAIN inbound[p][n] : inbound'[p][n][i] = inbound[p][n][i]
          /\ inbound'[p][n][Len(inbound[p][n]) + 1] = env
      BY <1>2, <2>2, <3>1
    <3> QED BY <1>3, <2>1, <2>2, <3>2
  <2> QED BY <1>1, <2>1, <2>2
<1>7. ASSUME NEW n \in Nodes PROVE \A i \in DOMAIN outbox'[n] : Stamped(n, outbox'[n][i])
  <2>1. CASE n = k
    BY <1>0, <1>1, <1>2, <2>1 DEF OrderInv, Part
  <2>2. CASE n # k
    BY <1>0, <1>1, <2>2 DEF OrderInv
  <2> QED BY <2>1, <2>2
<1> QED BY <1>1, <1>4, <1>5, <1>6, <1>7 DEF OrderInv, Stamped

\* Every step keeps the order.
LEMMA OrderStep == TypeOK /\ OrderInv /\ [Next]_vars => OrderInv'
<1> SUFFICES ASSUME TypeOK, OrderInv, [Next]_vars PROVE OrderInv'
  OBVIOUS
<1>0. TypeOK'
  BY TypeStep
<1>1. /\ \A p \in Nodes : Part(localRx[p], localRx[p]) /\ Part(outbox[p], outbox[p])
      /\ \A p, o \in Nodes : Part(inbound[p][o], inbound[p][o])
  BY Parts DEF TypeOK, QueueTypes
<1>2. CASE UNCHANGED <<log, queueVars>>
  BY <1>0, <1>1, <1>2, OrderLeft DEF queueVars
<1>3. ASSUME NEW n \in Nodes, Fault(n) PROVE OrderInv'
  BY <1>0, <1>3, FaultParts, OrderLeft
<1>4. ASSUME NEW n \in Nodes, NEW about \in Presences \cup {None}, Say(n, about),
             UNCHANGED <<outbox, inbound>>
      PROVE  OrderInv'
  <2> DEFINE m == [origin |-> n, num |-> Cardinality(Own(n)) + 1, about |-> about]
  <2>1. m \in Message /\ Broadcast(n, m, FALSE)
    BY <1>4, SayTyped
  <2>2. m.origin = n /\ m.num = Published(n) + 1
    BY DEF Published
  <2> HIDE DEF m
  <2> QED BY <1>4, <2>1, <2>2, OrderSaid
<1>5. ASSUME NEW n \in Nodes, Publish(n) \/ \E s \in Sessions : Announce(n, s)
      PROVE  OrderInv'
  BY <1>4, <1>5, SomethingSaid
<1>6. ASSUME NEW n \in Nodes, RelayOut(n) \/ Flush(n) \/ \E o \in Nodes : RelayIn(n, o)
      PROVE  OrderInv'
  BY <1>0, <1>6, OrderRelayed, OrderFlushed, OrderReceived
<1>7. ASSUME NEW n \in Nodes,
             \/ Connect(n) \/ Listen(n) \/ LinkUp(n) \/ Notice(n) \/ Beat(n) \/ Peers(n)
             \/ \E r \in Peer : Arrive(n, r) \/ Leave(n, r)
      PROVE  UNCHANGED <<log, queueVars>>
  BY <1>7 DEF Connect, Listen, LinkUp, Notice, Beat, Peers, Arrive, Leave
<1>8. Collect \/ Store \/ Show \/ UNCHANGED vars => UNCHANGED <<log, queueVars>>
  BY DEF Collect, Store, Show, vars
<1> QED BY <1>2, <1>3, <1>5, <1>6, <1>7, <1>8 DEF Next, Relay, Nats, Presence

LEMMA OrderInit == Init => OrderInv
<1> SUFFICES ASSUME Init PROVE OrderInv
  OBVIOUS
<1>1. \A n : Logged(n, <<>>) = {} /\ Mine(n, <<>>) = {} /\ LogInOrder(n, <<>>) /\ InOrder(n, <<>>)
  BY DEF Logged, Mine, MsgsIn, LogInOrder, InOrder
<1>2. \A n \in Nodes : /\ log[n] = <<>> /\ localRx[n] = <<>> /\ outbox[n] = <<>>
                       /\ \A p \in Nodes : inbound[p][n] = <<>>
  BY DEF Init
<1>3. \A n : Lane(n, <<>>, <<>>, <<>>, <<>>, Published(n))
  BY <1>1 DEF Lane, Before
<1> QED BY <1>1, <1>2, <1>3 DEF OrderInv

-----------------------------------------------------------------------------
(* Theorems *)

\* The invariant, with the types it needs.
THEOREM OrderInvariant == Spec => [](TypeOK /\ OrderInv)
<1> DEFINE Inv == TypeOK /\ OrderInv
<1>1. Init => Inv
  BY TypeInit, OrderInit
<1>2. Inv /\ [Next]_vars => Inv'
  BY TypeStep, OrderStep
<1> HIDE DEF Inv
<1>3. Spec => []Inv
  BY <1>1, <1>2, PTL DEF Spec
<1> QED BY <1>3 DEF Inv

\* Of two messages of one node, the one that is broadcast later was published later.
LEMMA OrderedLog ==
  ASSUME TypeOK, OrderInv, NEW p \in Nodes, NEW i \in DOMAIN log[p], NEW j \in DOMAIN log[p],
         i < j, log[p][i].origin = log[p][j].origin
  PROVE  log[p][i].num < log[p][j].num
<1> DEFINE n == log[p][i].origin
<1>1. n \in Nodes
  <2>1. log[p] \in Seq(Message) /\ \A m \in Message : m.origin \in Nodes
    BY DEF TypeOK, Message
  <2> QED BY <2>1
<1>2. LogInOrder(n, log[p])
  BY <1>1 DEF OrderInv, Lane
<1> QED BY <1>2 DEF LogInOrder

\* What one node publishes is broadcast on every other in the order it was published,
\* with gaps but never overtaken, whatever links break, queues overflow, daemons restart
\* and names are shared.
THEOREM OrderKept == Spec => []OriginOrder
<1>1. TypeOK /\ OrderInv => OriginOrder
  BY OrderedLog DEF OriginOrder
<1> QED BY <1>1, OrderInvariant, PTL

\* A message is broadcast at most once on each node's bus: no uplink sends on what
\* another one relayed, and none takes back what it sent itself.
THEOREM NoLoops == Spec => []AtMostOnce
<1>1. TypeOK /\ OrderInv => AtMostOnce
  <2> SUFFICES ASSUME TypeOK, OrderInv, NEW p \in Nodes,
                      NEW i \in DOMAIN log[p], NEW j \in DOMAIN log[p],
                      i # j, log[p][i] = log[p][j]
               PROVE  FALSE
    BY DEF AtMostOnce
  <2>0. log[p] \in Seq(Message)
    BY DEF TypeOK
  <2>1. i \in Nat /\ j \in Nat /\ log[p][i] \in Message
    BY <2>0
  <2>2. log[p][i].num < log[p][j].num \/ log[p][j].num < log[p][i].num
    <3>1. i < j \/ j < i
      BY <2>1
    <3> QED BY <3>1, OrderedLog
  <2>3. log[p][i].num \in Nat
    BY <2>1 DEF Message
  <2> QED BY <2>2, <2>3
<1> QED BY <1>1, OrderInvariant, PTL

-----------------------------------------------------------------------------
(* The refinement of JoinedBuses *)

\* The messages of node n on node p's bus.
Said(n, p) == JB!Said(n, p)

\* Whatever of a node's messages is under way was said there.
GenuineInv ==
  \A n \in Nodes :
    /\ Mine(n, localRx[n]) \cup Mine(n, outbox[n]) \subseteq Said(n, n)
    /\ \A p \in Nodes : Mine(n, inbound[p][n]) \subseteq Said(n, n)

\* The two ways to speak of a node's messages on a bus.
LEMMA SaidLogged ==
  ASSUME NEW n, NEW p
  PROVE  Said(n, p) = Logged(n, log[p])
BY DEF Said, JB!Said, Logged

\* A broadcast takes nothing from what was said.
LEMMA SaidGrows ==
  ASSUME TypeOK, NEW k \in Nodes, NEW m \in Message, NEW from, Broadcast(k, m, from)
  PROVE  /\ \A n \in Nodes : Said(n, n) \subseteq Said(n, n)'
         /\ m.origin = k => m \in Said(k, k)'
<1>1. log \in [Nodes -> Seq(Message)] /\ log' = [log EXCEPT ![k] = Append(@, m)]
  BY DEF TypeOK, Broadcast
<1>2. /\ \A n \in Nodes \ {k} : log'[n] = log[n]
      /\ log'[k] = Append(log[k], m)
  BY <1>1
<1>3. /\ DOMAIN log'[k] = DOMAIN log[k] \cup {Len(log[k]) + 1}
      /\ \A i \in DOMAIN log[k] : log'[k][i] = log[k][i]
      /\ log'[k][Len(log[k]) + 1] = m
  BY <1>1, <1>2
<1> QED BY <1>2, <1>3 DEF Said, JB!Said

\* Steps that put nothing into the queues.
LEMMA GenuineLeft ==
  ASSUME TypeOK, GenuineInv, \A n \in Nodes : Said(n, n) \subseteq Said(n, n)',
         \A n \in Nodes :
           /\ Mine(n, localRx'[n]) \cup Mine(n, outbox'[n]) \subseteq Said(n, n)'
           /\ \A p \in Nodes : Mine(n, inbound'[p][n]) \subseteq Said(n, n)'
  PROVE  GenuineInv'
BY DEF GenuineInv

\* Steps that only take messages away, and may add to the buses.
LEMMA GenuineParts ==
  ASSUME TypeOK, TypeOK', GenuineInv, NEW n \in Nodes, Said(n, n) \subseteq Said(n, n)'
  PROVE  /\ Part(localRx'[n], localRx[n]) => Mine(n, localRx'[n]) \subseteq Said(n, n)'
         /\ Part(outbox'[n], outbox[n]) => Mine(n, outbox'[n]) \subseteq Said(n, n)'
         /\ \A p \in Nodes :
              Part(inbound'[p][n], inbound[p][n]) => Mine(n, inbound'[p][n]) \subseteq Said(n, n)'
<1>1. /\ localRx[n] \in Seq(Entry) /\ localRx'[n] \in Seq(Entry)
      /\ outbox[n] \in Seq(Envelope) /\ outbox'[n] \in Seq(Envelope)
      /\ \A p \in Nodes : inbound[p][n] \in Seq(Envelope) /\ inbound'[p][n] \in Seq(Envelope)
  BY DEF TypeOK, QueueTypes
<1>2. /\ Mine(n, localRx[n]) \subseteq Said(n, n) /\ Mine(n, outbox[n]) \subseteq Said(n, n)
      /\ \A p \in Nodes : Mine(n, inbound[p][n]) \subseteq Said(n, n)
  BY DEF GenuineInv
<1>3. Part(localRx'[n], localRx[n]) => Mine(n, localRx'[n]) \subseteq Mine(n, localRx[n])
  BY <1>1, PartKept
<1>4. Part(outbox'[n], outbox[n]) => Mine(n, outbox'[n]) \subseteq Mine(n, outbox[n])
  BY <1>1, PartKept
<1>5. \A p \in Nodes : Part(inbound'[p][n], inbound[p][n])
                         => Mine(n, inbound'[p][n]) \subseteq Mine(n, inbound[p][n])
  BY <1>1, PartKept
<1> QED BY <1>2, <1>3, <1>4, <1>5

\* A broadcast puts its message into one receiver, where it is genuine.
LEMMA GenuineBroadcast ==
  ASSUME TypeOK, TypeOK', GenuineInv, NEW k \in Nodes, NEW m \in Message, NEW from \in BOOLEAN,
         Broadcast(k, m, from), NEW n \in Nodes
  PROVE  Mine(n, localRx'[n]) \subseteq Said(n, n)'
<1> DEFINE x == [msg |-> m, from_uplink |-> from]
<1>1. /\ Said(n, n) \subseteq Said(n, n)' /\ (m.origin = k => m \in Said(k, k)')
      /\ Mine(n, localRx[n]) \subseteq Said(n, n)
  BY SaidGrows DEF GenuineInv
<1>2. localRx[n] \in Seq(Entry) /\ x \in Entry /\ x.msg = m
  BY DEF TypeOK, QueueTypes, Entry
<1> HIDE DEF x
<1>3. CASE localRx'[n] = localRx[n]
  BY <1>1, <1>3
<1>4. ASSUME NEW r \in Seq(Entry), n = k, Part(r, localRx[n]), localRx'[n] = Append(r, x)
      PROVE  Mine(n, localRx'[n]) \subseteq Said(n, n)'
  <2>1. Mine(n, r) \subseteq Mine(n, localRx[n])
    BY <1>2, <1>4, PartKept
  <2>2. MsgsIn(localRx'[n]) = MsgsIn(r) \cup {m}
    <3>1. MsgsIn(Append(r, x)) = MsgsIn(r) \cup {x.msg}
      BY <1>2, Added
    <3> QED BY <1>2, <1>4, <3>1
  <2>3. Mine(n, localRx'[n]) \subseteq Mine(n, r) \cup {y \in {m} : y.origin = n}
    BY <2>2 DEF Mine
  <2> QED BY <1>1, <1>4, <2>1, <2>3
<1> QED BY <1>3, <1>4, BroadcastQueues DEF x

LEMMA GenuineStep == TypeOK /\ TypeOK' /\ OrderInv /\ GenuineInv /\ [Next]_vars => GenuineInv'
<1> SUFFICES ASSUME TypeOK, TypeOK', OrderInv, GenuineInv, [Next]_vars PROVE GenuineInv'
  OBVIOUS
<1>1. /\ localRx \in [Nodes -> Seq(Entry)] /\ outbox \in [Nodes -> Seq(Envelope)]
      /\ inbound \in [Nodes -> [Nodes -> Seq(Envelope)]]
      /\ localRx' \in [Nodes -> Seq(Entry)] /\ outbox' \in [Nodes -> Seq(Envelope)]
      /\ inbound' \in [Nodes -> [Nodes -> Seq(Envelope)]]
  BY DEF TypeOK, QueueTypes
<1>2. /\ \A p \in Nodes : Part(localRx[p], localRx[p]) /\ Part(outbox[p], outbox[p])
      /\ \A p, o \in Nodes : Part(inbound[p][o], inbound[p][o])
  BY <1>1, Parts
<1>3. UNCHANGED log => \A n : Said(n, n)' = Said(n, n)
  BY DEF Said, JB!Said
<1>4. ASSUME UNCHANGED log,
             \A p \in Nodes : Part(localRx'[p], localRx[p]) /\ Part(outbox'[p], outbox[p]),
             \A p, o \in Nodes : Part(inbound'[p][o], inbound[p][o])
      PROVE  GenuineInv'
  BY <1>3, <1>4, GenuineParts DEF GenuineInv
<1>5. CASE UNCHANGED <<log, queueVars>>
  BY <1>2, <1>4, <1>5 DEF queueVars
<1>6. ASSUME NEW k \in Nodes, Fault(k) PROVE GenuineInv'
  BY <1>4, <1>6, FaultParts
<1>7. ASSUME NEW k \in Nodes, NEW about \in Presences \cup {None}, Say(k, about),
             UNCHANGED <<outbox, inbound>>
      PROVE  GenuineInv'
  <2> DEFINE m == [origin |-> k, num |-> Cardinality(Own(k)) + 1, about |-> about]
  <2>1. m \in Message /\ Broadcast(k, m, FALSE)
    BY <1>7, SayTyped
  <2> HIDE DEF m
  <2>2. \A n \in Nodes : /\ Said(n, n) \subseteq Said(n, n)'
                         /\ Mine(n, localRx'[n]) \subseteq Said(n, n)'
    BY <2>1, SaidGrows, GenuineBroadcast
  <2> QED BY <1>2, <1>7, <2>2, GenuineParts DEF GenuineInv
<1>8. ASSUME NEW k \in Nodes, NEW o \in Nodes, RelayIn(k, o) PROVE GenuineInv'
  <2> DEFINE m == Head(inbound[k][o]).msg
  <2>1. /\ inbound[k][o] # <<>> /\ inbound' = [inbound EXCEPT ![k][o] = Tail(@)]
        /\ UNCHANGED outbox
    BY <1>8 DEF RelayIn
  <2>2. m \in Message /\ Part(Tail(inbound[k][o]), inbound[k][o])
    <3>1. inbound[k][o] \in Seq(Envelope) /\ \A e \in Envelope : e.msg \in Message
      BY <1>1 DEF Envelope
    <3> QED BY <2>1, <3>1, Parts
  <2>3. \A p, n \in Nodes : Part(inbound'[p][n], inbound[p][n])
    BY <1>1, <1>2, <2>1, <2>2
  <2>4. CASE SelfEcho(k, Head(inbound[k][o]))
    BY <1>2, <1>4, <1>8, <2>1, <2>3, <2>4 DEF RelayIn
  <2>5. CASE ~SelfEcho(k, Head(inbound[k][o]))
    <3>1. Broadcast(k, m, TRUE)
      BY <1>8, <2>5 DEF RelayIn
    <3> HIDE DEF m
    <3>2. \A n \in Nodes : /\ Said(n, n) \subseteq Said(n, n)'
                           /\ Mine(n, localRx'[n]) \subseteq Said(n, n)'
      BY <2>2, <3>1, SaidGrows, GenuineBroadcast
    <3> QED BY <1>2, <2>1, <2>3, <3>2, GenuineParts DEF GenuineInv
  <2> QED BY <2>4, <2>5
<1>9. ASSUME NEW k \in Nodes, RelayOut(k) PROVE GenuineInv'
  <2> DEFINE env == [origin_node |-> NameOf[k], msg |-> Head(localRx[k]).msg]
  <2>1. /\ localRx[k] # <<>> /\ localRx' = [localRx EXCEPT ![k] = Tail(@)]
        /\ UNCHANGED <<inbound, log>>
        /\ \/ UNCHANGED outbox
           \/ outbox' = [outbox EXCEPT ![k] = Append(@, env)]
    BY <1>9 DEF RelayOut, Queued
  <2>2. env \in Envelope /\ env.msg = Head(localRx[k]).msg
    <3>1. Head(localRx[k]) \in Entry /\ \A e \in Entry : e.msg \in Message
      <4>1. localRx[k] \in Seq(Entry) /\ localRx[k] # <<>>
        BY <1>1, <2>1
      <4> QED BY <4>1, TakenFirst DEF Entry
    <3>2. NameOf[k] \in Names
      BY UplinkNames
    <3> QED BY <3>1, <3>2 DEF Envelope
  <2>3. /\ Part(Tail(localRx[k]), localRx[k])
        /\ env.msg.origin = k => env.msg \in Mine(k, localRx[k])
    BY <1>1, <2>1, <2>2, Parts, TakenFirst
  <2>4. \A n \in Nodes : Part(localRx'[n], localRx[n])
    BY <1>1, <1>2, <2>1, <2>3
  <2> HIDE DEF env
  <2>5. ASSUME NEW n \in Nodes PROVE Mine(n, outbox'[n]) \subseteq Said(n, n)'
    <3>1. CASE outbox'[n] = outbox[n]
      BY <1>2, <1>3, <2>1, <3>1, GenuineParts
    <3>2. CASE n = k /\ outbox'[n] = Append(outbox[n], env)
      <4>1. MsgsIn(outbox'[n]) = MsgsIn(outbox[n]) \cup {env.msg}
        <5>1. MsgsIn(Append(outbox[n], env)) = MsgsIn(outbox[n]) \cup {env.msg}
          <6>1. outbox[n] \in Seq(Envelope)
            BY <1>1
          <6> QED BY <2>2, <6>1, Added
        <5> QED BY <3>2, <5>1
      <4>2. Mine(n, outbox'[n]) \subseteq Mine(n, outbox[n]) \cup Mine(n, localRx[n])
        BY <2>3, <3>2, <4>1 DEF Mine
      <4> QED BY <1>3, <2>1, <4>2 DEF GenuineInv
    <3> QED BY <1>1, <2>1, <3>1, <3>2
  <2> QED BY <1>2, <1>3, <2>1, <2>4, <2>5, GenuineParts DEF GenuineInv
<1>10. ASSUME NEW k \in Nodes, Flush(k) PROVE GenuineInv'
  <2> DEFINE env == Head(outbox[k])
  <2>1. /\ outbox[k] # <<>> /\ outbox' = [outbox EXCEPT ![k] = Tail(@)]
        /\ UNCHANGED <<localRx, log>>
        /\ \A p, n \in Nodes :
             \/ inbound'[p][n] = inbound[p][n]
             \/ n = k /\ inbound'[p][n] = Append(inbound[p][n], env)
    BY <1>1, <1>10 DEF Flush
  <2>2. /\ env \in Envelope /\ Part(Tail(outbox[k]), outbox[k])
        /\ env.msg.origin = k => env.msg \in Mine(k, outbox[k])
    BY <1>1, <2>1, Parts, TakenFirst
  <2>3. \A n \in Nodes : Part(outbox'[n], outbox[n])
    BY <1>1, <1>2, <2>1, <2>2
  <2> HIDE DEF env
  <2>4. ASSUME NEW n \in Nodes, NEW p \in Nodes PROVE Mine(n, inbound'[p][n]) \subseteq Said(n, n)'
    <3>1. CASE inbound'[p][n] = inbound[p][n]
      BY <1>2, <1>3, <2>1, <3>1, GenuineParts
    <3>2. CASE n = k /\ inbound'[p][n] = Append(inbound[p][n], env)
      <4>1. MsgsIn(inbound'[p][n]) = MsgsIn(inbound[p][n]) \cup {env.msg}
        <5>1. MsgsIn(Append(inbound[p][n], env)) = MsgsIn(inbound[p][n]) \cup {env.msg}
          <6>1. inbound[p][n] \in Seq(Envelope)
            BY <1>1
          <6> QED BY <2>2, <6>1, Added
        <5> QED BY <3>2, <5>1
      <4>2. Mine(n, inbound'[p][n]) \subseteq Mine(n, inbound[p][n]) \cup Mine(n, outbox[n])
        BY <2>2, <3>2, <4>1 DEF Mine
      <4> QED BY <1>3, <2>1, <4>2 DEF GenuineInv
    <3> QED BY <2>1, <3>1, <3>2
  <2> QED BY <1>2, <1>3, <2>1, <2>3, <2>4, GenuineParts DEF GenuineInv
<1>11. ASSUME NEW n \in Nodes, Publish(n) \/ \E s \in Sessions : Announce(n, s)
      PROVE  GenuineInv'
  BY <1>7, <1>11, SomethingSaid
<1>12. ASSUME NEW n \in Nodes,
             \/ Connect(n) \/ Listen(n) \/ LinkUp(n) \/ Notice(n) \/ Beat(n) \/ Peers(n)
             \/ \E r \in Peer : Arrive(n, r) \/ Leave(n, r)
      PROVE  UNCHANGED <<log, queueVars>>
  BY <1>12 DEF Connect, Listen, LinkUp, Notice, Beat, Peers, Arrive, Leave
<1>13. Collect \/ Store \/ Show \/ UNCHANGED vars => UNCHANGED <<log, queueVars>>
  BY DEF Collect, Store, Show, vars
<1> QED BY <1>5, <1>6, <1>8, <1>9, <1>10, <1>11, <1>12, <1>13 DEF Next, Relay, Nats, Presence

\* A message that an uplink takes in is a repetition.
LEMMA RelayedInRepeats ==
  ASSUME TypeOK, OrderInv, GenuineInv, NEW k \in Nodes, NEW o \in Nodes, RelayIn(k, o)
  PROVE  UNCHANGED log \/ JB!Repeat(o, k)
<1> DEFINE m == Head(inbound[k][o]).msg
<1>1. inbound[k][o] # <<>> /\ inbound[k][o] \in Seq(Envelope)
  BY DEF RelayIn, TypeOK, QueueTypes
<1>2. Stamped(o, Head(inbound[k][o]))
  <2>1. 1 \in DOMAIN inbound[k][o] /\ Head(inbound[k][o]) = inbound[k][o][1]
    BY <1>1
  <2> QED BY <2>1 DEF OrderInv
<1>3. m.origin = o /\ m \in Mine(o, inbound[k][o])
  BY <1>1, <1>2, TakenFirst DEF Stamped
<1>4. CASE SelfEcho(k, Head(inbound[k][o]))
  BY <1>4 DEF RelayIn
<1>5. CASE ~SelfEcho(k, Head(inbound[k][o]))
  <2>1. NameOf[o] # NameOf[k]
    BY <1>2, <1>5 DEF SelfEcho, Stamped
  <2>2. log' = [log EXCEPT ![k] = Append(@, m)]
    BY <1>5 DEF RelayIn, Broadcast
  <2> HIDE DEF m
  <2>3. m \in Said(o, o)
    BY <1>3 DEF GenuineInv
  <2>4. \A x \in Said(o, k) : x.num < m.num
    <3>1. Before(Logged(o, log[k]), Mine(o, inbound[k][o]))
      BY <2>1 DEF OrderInv, Lane, Before
    <3> QED BY <1>3, <3>1, SaidLogged DEF Before
  <2> QED BY <2>1, <2>2, <2>3, <2>4 DEF JB!Repeat, JB!Later, Said
<1> QED BY <1>4, <1>5

LEMMA BusesStep == TypeOK /\ OrderInv /\ GenuineInv /\ [Next]_vars => [JB!Next]_log
<1> SUFFICES ASSUME TypeOK, OrderInv, GenuineInv, [Next]_vars PROVE [JB!Next]_log
  OBVIOUS
<1>1. ASSUME NEW n \in Nodes, NEW about \in Presences \cup {None}, Say(n, about)
      PROVE  JB!Say(n)
  <2> DEFINE m == [origin |-> n, num |-> Cardinality(Own(n)) + 1, about |-> about]
  <2>1. m \in Message /\ Broadcast(n, m, FALSE)
    BY <1>1, SayTyped
  <2>2. log[n] \in Seq(Message) /\ Cardinality(Own(n)) \in Nat
    BY OwnCount DEF TypeOK
  <2>3. ASSUME NEW x \in Said(n, n) PROVE x.num < m.num
    <3>1. x \in Logged(n, log[n])
      BY SaidLogged
    <3>2. x \in Message
      BY <2>2, <3>1 DEF Logged
    <3>3. x.num <= Cardinality(Own(n)) /\ x.num \in Nat
      BY <3>1, <3>2 DEF OrderInv, Published, Message
    <3> QED BY <2>2, <3>3
  <2>4. m \in [origin: {n}, num: Nat \ {0}, about: Presences \cup {None}]
    BY <2>2
  <2>5. m.origin = n
    OBVIOUS
  <2> HIDE DEF m
  <2>6. m \in Said(n, n)'
    BY <2>1, <2>5, SaidGrows
  <2>7. log' = [log EXCEPT ![n] = Append(@, m)]
    BY <2>1 DEF Broadcast
  <2> QED BY <2>3, <2>4, <2>6, <2>7 DEF JB!Say, JB!Later, Said
<1>2. ASSUME NEW n \in Nodes, Publish(n) \/ \E s \in Sessions : Announce(n, s)
      PROVE  JB!Say(n)
  BY <1>1, <1>2, SomethingSaid
<1>3. ASSUME NEW n \in Nodes, NEW o \in Nodes, RelayIn(n, o)
      PROVE  UNCHANGED log \/ JB!Repeat(o, n)
  BY <1>3, RelayedInRepeats
<1>4. ASSUME NEW n \in Nodes,
             \/ Connect(n) \/ Listen(n) \/ LinkUp(n) \/ Notice(n) \/ Beat(n) \/ Peers(n)
             \/ RelayOut(n) \/ Flush(n)
             \/ \E r \in Peer : Arrive(n, r) \/ Leave(n, r)
      PROVE  UNCHANGED log
  BY <1>4 DEF Connect, Listen, LinkUp, Notice, Beat, Peers, RelayOut, Flush, Arrive, Leave
<1>5. ASSUME NEW n \in Nodes, Fault(n) PROVE UNCHANGED log
  BY <1>5, FaultParts
<1>6. Collect \/ Store \/ Show \/ UNCHANGED vars => UNCHANGED log
  BY DEF Collect, Store, Show, vars
<1> QED BY <1>2, <1>3, <1>4, <1>5, <1>6 DEF Next, Relay, Nats, Presence, JB!Next

\* The nodes' buses are what JoinedBuses says: whatever is broadcast on one was said on
\* it, or on a node of another name just so, which nothing said there later preceded.
THEOREM BusesJoined == Spec => ImplementsJoinedBuses
<1> DEFINE Inv == TypeOK /\ OrderInv /\ GenuineInv
<1>1. Init => Inv
  <2>1. \A n : Mine(n, <<>>) = {}
    BY DEF Mine, MsgsIn
  <2>2. Init => GenuineInv
    BY <2>1 DEF Init, GenuineInv
  <2> QED BY <2>2, TypeInit, OrderInit
<1>2. Inv /\ [Next]_vars => Inv'
  BY TypeStep, OrderStep, GenuineStep
<1>3. Init => JB!Init
  BY DEF Init, JB!Init
<1>4. Inv /\ [Next]_vars => [JB!Next]_log
  BY BusesStep
<1> HIDE DEF Inv
<1> QED BY <1>1, <1>2, <1>3, <1>4, PTL DEF Spec, ImplementsJoinedBuses, JB!Spec

-----------------------------------------------------------------------------
(* The fleet view *)

\* Some node's own bus had a presence event with this session and node.
Heard(x) == \E n \in Nodes : \E i \in Own(n) : log[n][i].about = x

\* Whatever a query has read or has still to read was said.
FleetInv ==
  /\ \A i \in DOMAIN query.unread : Heard(query.unread[i])
  /\ \A x \in query.store : Heard(x)

\* A bus forgets nothing.
LEMMA HeardGrows ==
  ASSUME TypeOK, NEW k \in Nodes, NEW m \in Message, NEW from, Broadcast(k, m, from)
  PROVE  /\ \A x : Heard(x) => Heard(x)'
         /\ m.origin = k => Heard(m.about)'
<1>1. log \in [Nodes -> Seq(Message)] /\ log' = [log EXCEPT ![k] = Append(@, m)]
  BY DEF TypeOK, Broadcast
<1>2. /\ \A n \in Nodes \ {k} : log'[n] = log[n]
      /\ log'[k] = Append(log[k], m)
  BY <1>1
<1>3. /\ DOMAIN log'[k] = DOMAIN log[k] \cup {Len(log[k]) + 1}
      /\ \A i \in DOMAIN log[k] : log'[k][i] = log[k][i]
      /\ log'[k][Len(log[k]) + 1] = m
  BY <1>1, <1>2
<1>4. \A n \in Nodes : \A i \in DOMAIN log[n] : i \in DOMAIN log'[n] /\ log'[n][i] = log[n][i]
  BY <1>2, <1>3
<1> QED BY <1>3, <1>4 DEF Heard, Own

\* A broadcast shows a query nothing that was not said.
LEMMA FleetBroadcast ==
  ASSUME TypeOK, FleetInv, NEW k \in Nodes, NEW m \in Message, NEW from \in BOOLEAN,
         Broadcast(k, m, from), m.origin = k \/ Heard(m.about)
  PROVE  FleetInv'
<1>1. (\A x : Heard(x) => Heard(x)') /\ Heard(m.about)'
  BY HeardGrows
<1>2. CASE query' = query
  BY <1>1, <1>2 DEF FleetInv
<1>3. CASE m.about # None /\ query' = [query EXCEPT !.unread = Append(@, m.about)]
  <2>0. query \in Queries /\ query.unread \in Seq(Presences) /\ m.about \in Presences
    BY <1>3, QueryTyped DEF TypeOK, FleetTypes, Message
  <2>1. query'.unread = Append(query.unread, m.about) /\ query'.store = query.store
    BY <1>3, <2>0 DEF Queries
  <2>2. \A i \in DOMAIN query'.unread :
          \/ i \in DOMAIN query.unread /\ query'.unread[i] = query.unread[i]
          \/ query'.unread[i] = m.about
    BY <2>0, <2>1
  <2> QED BY <1>1, <2>1, <2>2 DEF FleetInv
<1> QED BY <1>2, <1>3 DEF Broadcast

\* Every step of the relays, and of a query, leaves only what was said.
LEMMA FleetStep == TypeOK /\ OrderInv /\ GenuineInv /\ FleetInv /\ [Next]_vars => FleetInv'
<1> SUFFICES ASSUME TypeOK, OrderInv, GenuineInv, FleetInv, [Next]_vars PROVE FleetInv'
  OBVIOUS
<1>0. query \in Queries /\ query.unread \in Seq(Presences)
  BY QueryTyped DEF TypeOK, FleetTypes
<1>1. ASSUME UNCHANGED log, \A i \in DOMAIN query'.unread : Heard(query'.unread[i]),
             \A x \in query'.store : Heard(x)
      PROVE  FleetInv'
  BY <1>1 DEF FleetInv, Heard, Own
<1>2. CASE UNCHANGED <<log, query>>
  BY <1>1, <1>2 DEF FleetInv
<1>3. ASSUME NEW n \in Nodes, Publish(n) \/ \E s \in Sessions : Announce(n, s) PROVE FleetInv'
  <2>1. PICK about \in Presences \cup {None} : Say(n, about)
    BY <1>3, SomethingSaid
  <2> DEFINE m == [origin |-> n, num |-> Cardinality(Own(n)) + 1, about |-> about]
  <2>2. m \in Message /\ Broadcast(n, m, FALSE) /\ m.origin = n
    BY <2>1, SayTyped
  <2> HIDE DEF m
  <2> QED BY <2>2, FleetBroadcast
<1>4. ASSUME NEW n \in Nodes, NEW o \in Nodes, RelayIn(n, o) PROVE FleetInv'
  <2> DEFINE m == Head(inbound[n][o]).msg
  <2>1. inbound[n][o] # <<>> /\ inbound[n][o] \in Seq(Envelope)
    BY <1>4 DEF RelayIn, TypeOK, QueueTypes
  <2>2. Stamped(o, Head(inbound[n][o]))
    <3>1. 1 \in DOMAIN inbound[n][o] /\ Head(inbound[n][o]) = inbound[n][o][1]
      BY <2>1
    <3> QED BY <3>1 DEF OrderInv
  <2>3. m \in Mine(o, inbound[n][o]) /\ m \in Message
    <3>1. /\ Head(inbound[n][o]) \in Envelope
          /\ Head(inbound[n][o]).msg.origin = o => m \in Mine(o, inbound[n][o])
      BY <2>1, TakenFirst
    <3>2. Head(inbound[n][o]).msg.origin = o
      BY <2>2 DEF Stamped
    <3> QED BY <3>1, <3>2 DEF Envelope
  <2>4. CASE SelfEcho(n, Head(inbound[n][o]))
    BY <1>2, <1>4, <2>4 DEF RelayIn
  <2>5. CASE ~SelfEcho(n, Head(inbound[n][o]))
    <3>1. Broadcast(n, m, TRUE)
      BY <1>4, <2>5 DEF RelayIn
    <3> HIDE DEF m
    <3>2. m \in Said(o, o)
      BY <2>3 DEF GenuineInv
    <3>3. Heard(m.about)
      BY <3>2 DEF Said, JB!Said, Heard, Own
    <3> QED BY <2>3, <3>1, <3>3, FleetBroadcast
  <2> QED BY <2>4, <2>5
<1>5. ASSUME NEW n \in Nodes, Fault(n) PROVE FleetInv'
  <2>1. UNCHANGED log
    BY <1>5, FaultParts
  <2>2. query' = query \/ (query'.unread = <<>> /\ query'.store = query.store)
    <3>1. [query EXCEPT !.phase = "shown", !.unread = <<>>].unread = <<>>
          /\ [query EXCEPT !.phase = "shown", !.unread = <<>>].store = query.store
      BY <1>0 DEF Queries
    <3> QED BY <1>5, <3>1 DEF Fault, LinkDown, Restart, Overrun, fleetVars
  <2> QED BY <1>1, <2>1, <2>2 DEF FleetInv
<1>6. ASSUME NEW n \in Nodes, Peers(n) PROVE FleetInv'
  <2>1. query'.unread = <<>> /\ query'.store = {} /\ UNCHANGED log
    BY <1>6 DEF Peers, NoQuery
  <2> QED BY <1>1, <2>1
<1>7. CASE Collect
  <2>1. query'.unread = query.unread /\ query'.store = query.store /\ UNCHANGED log
    BY <1>0, <1>7 DEF Collect, Queries
  <2> QED BY <1>1, <2>1 DEF FleetInv
<1>8. CASE Store
  <2>1. /\ query.unread # <<>> /\ query'.unread = Tail(query.unread)
        /\ query'.store = query.store \cup {Head(query.unread)} /\ UNCHANGED log
    BY <1>0, <1>8 DEF Store, Queries
  <2>2. /\ \A i \in DOMAIN Tail(query.unread) :
             i + 1 \in DOMAIN query.unread /\ Tail(query.unread)[i] = query.unread[i + 1]
        /\ 1 \in DOMAIN query.unread /\ Head(query.unread) = query.unread[1]
    BY <1>0, <2>1
  <2> QED BY <1>1, <2>1, <2>2 DEF FleetInv
<1>9. CASE Show
  <2>1. query'.unread = <<>> /\ query'.store = query.store /\ UNCHANGED log
    BY <1>0, <1>9 DEF Show, Queries
  <2> QED BY <1>1, <2>1 DEF FleetInv
<1>10. ASSUME NEW n \in Nodes,
              \/ Connect(n) \/ Listen(n) \/ LinkUp(n) \/ Notice(n) \/ Beat(n)
              \/ RelayOut(n) \/ Flush(n)
              \/ \E r \in Peer : Arrive(n, r) \/ Leave(n, r)
       PROVE  UNCHANGED <<log, query>>
  BY <1>10 DEF Connect, Listen, LinkUp, Notice, Beat, RelayOut, Flush, Arrive, Leave, fleetVars
<1>11. UNCHANGED vars => UNCHANGED <<log, query>>
  BY DEF vars, fleetVars
<1> QED BY <1>2, <1>3, <1>4, <1>5, <1>6, <1>7, <1>8, <1>9, <1>10, <1>11
        DEF Next, Relay, Nats, Presence

\* The merge shows no session of a node twice, and only what was read.
LEMMA MergedOnce ==
  ASSUME TypeOK
  PROVE  /\ \A r, x \in Merged(query) : Same(r, x) => r = x
         /\ \A r \in Merged(query) : r.remote =>
              \E s \in query.store : s = [sid |-> r.sid, node |-> r.node]
<1>1. /\ \A r \in Local(query) : r = [sid |-> r.sid, node |-> r.node, remote |-> FALSE]
      /\ \A r \in Remote(query) : r = [sid |-> r.sid, node |-> r.node, remote |-> TRUE]
      /\ \A r \in Local(query) : ~r.remote
      /\ \A r \in Remote(query) : r.remote
  BY DEF Local, Remote
<1>2. ASSUME NEW r \in Merged(query), NEW x \in Merged(query), Same(r, x)
      PROVE  r = x
  <2>1. Same(x, r)
    BY <1>2 DEF Same
  <2>2. (r \in Local(query) /\ x \in Local(query)) \/ (r \in Remote(query) /\ x \in Remote(query))
    BY <1>2, <2>1 DEF Merged
  <2> QED BY <1>1, <1>2, <2>2 DEF Same
<1>3. ASSUME NEW r \in Remote(query)
      PROVE  \E s \in query.store : s = [sid |-> r.sid, node |-> r.node]
  <2>1. PICK s \in query.store : r = [sid |-> s.sid, node |-> s.node, remote |-> TRUE]
    BY <1>3 DEF Remote
  <2>2. s \in Presences
    BY QueryTyped DEF TypeOK, FleetTypes
  <2>3. s = [sid |-> s.sid, node |-> s.node]
    BY <2>2 DEF Presences
  <2> QED BY <2>1, <2>3
<1> QED BY <1>1, <1>2, <1>3 DEF Merged

\* peers --fleet shows no session of a node twice, and besides the local peers nobody of
\* whom no node's own bus had a presence event with that session and node: whoever
\* published it, and whatever was lost, restarted or relayed by nodes of one name since.
THEOREM FleetTrue == Spec => []FleetView
<1> DEFINE Inv == TypeOK /\ OrderInv /\ GenuineInv /\ FleetInv
<1>1. Init => Inv
  <2>1. \A n : Mine(n, <<>>) = {}
    BY DEF Mine, MsgsIn
  <2>2. Init => GenuineInv
    BY <2>1 DEF Init, GenuineInv
  <2>3. Init => FleetInv
    BY DEF Init, FleetInv, NoQuery
  <2> QED BY <2>2, <2>3, TypeInit, OrderInit
<1>2. Inv /\ [Next]_vars => Inv'
  BY TypeStep, OrderStep, GenuineStep, FleetStep
<1>3. Inv => FleetView
  BY MergedOnce DEF FleetInv, FleetView, Heard
<1> HIDE DEF Inv
<1> QED BY <1>1, <1>2, <1>3, PTL DEF Spec
=============================================================================
