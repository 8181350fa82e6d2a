----------------------------- MODULE BusProofs -----------------------------
(***************************************************************************)
(* Proofs about sessions and connections in Bus, for every value of the    *)
(* constants: who owns a record, why a record disappears, who is told of   *)
(* a drain, what subscribers are sent, and which claims are announced as   *)
(* released.  They rest on the type invariant of BusTypeProofs.            *)
(***************************************************************************)
EXTENDS BusTypeProofs, FiniteSetTheorems

\* Every reachable state satisfies the strengthened type invariant.
THEOREM TypeInvariant == Spec => []TypeInv
BY TypeInit, TypeStep, PTL DEF Spec

-----------------------------------------------------------------------------
(* Ownership *)

\* An announce makes its own connection the owner, or leaves the tables alone.
LEMMA AnnounceOwns ==
  ASSUME TypeInv, Ownership, NEW c \in Conns, NEW m \in Messages, Announce(c, m)
  PROVE  Ownership'
<1>1. m.sid \in Sessions /\ session[c] = None /\ pc[c] = "idle"
  BY MessagesAssumption, MessageFields DEF Announce, ReadLine
<1>2. session' = [session EXCEPT ![c] = m.sid] /\ pc' = [pc EXCEPT ![c] = "reply"]
  BY DEF Announce, Answer, Finish
<1>3. \A s \in Sessions : peer_owners[s] # c
  BY <1>1, AbsenceAssumption DEF Ownership
<1>4. \A s \in Sessions, d \in Conns :
        peer_owners'[s] = d => peer_owners[s] = d \/ (s = m.sid /\ d = c)
  BY <1>1 DEF Announce, TypeInv, TypeOK
<1>5. \A s \in Sessions : peers'[s] # None => peer_owners'[s] # None
  <2>1. c # None
    BY AbsenceAssumption
  <2>2. CASE peer_owners[m.sid] = None
    <3>1. /\ peers' = [peers EXCEPT ![m.sid] = [hb |-> clock, sticky |-> NoIntent]]
          /\ peer_owners' = [peer_owners EXCEPT ![m.sid] = c]
      BY <2>2 DEF Announce
    <3> QED BY <1>1, <2>1, <3>1 DEF Ownership, TypeInv, TypeOK
  <2>3. CASE peer_owners[m.sid] # None
    <3>1. peers' = peers /\ peer_owners' = peer_owners
      BY <2>3 DEF Announce
    <3> QED BY <3>1 DEF Ownership
  <2> QED BY <2>2, <2>3
<1>6. \A d \in Conns : pc'[d] \in {"new", "closed"} => pc[d] = pc'[d] /\ d # c
  BY <1>2 DEF TypeInv, TypeOK
<1>7. ASSUME NEW s \in Sessions, NEW d \in Conns, peer_owners'[s] = d
      PROVE  session'[d] = s /\ pc'[d] \notin {"new", "closed"}
  <2>1. CASE peer_owners[s] = d
    BY <1>2, <1>3, <1>6, <2>1 DEF Ownership, TypeInv, TypeOK
  <2>2. CASE s = m.sid /\ d = c
    BY <1>2, <2>2 DEF TypeInv, TypeOK
  <2> QED BY <1>4, <1>7, <2>1, <2>2
<1> QED BY <1>5, <1>7 DEF Ownership

\* A cleanup removes the record and its owner together, and the connection that
\* closes owned nothing else.
LEMMA CleanupOwns ==
  ASSUME TypeInv, Ownership, NEW c \in Conns, Cleanup(c)
  PROVE  Ownership'
<1> DEFINE s == session[c]
<1>1. session' = session /\ pc' = [pc EXCEPT ![c] = "closed"]
  BY DEF Cleanup
<1>2. CASE s # None /\ peer_owners[s] = c
  <2>1. s \in Sessions
    BY <1>2 DEF TypeInv, TypeOK
  <2>2. /\ peers' = [peers EXCEPT ![s] = None]
        /\ peer_owners' = [peer_owners EXCEPT ![s] = None]
    BY <1>2 DEF Cleanup
  <2>3. \A r \in Sessions : peer_owners[r] = c => r = s
    BY DEF Ownership
  <2>4. \A r \in Sessions : peer_owners'[r] # c
    BY <2>1, <2>2, <2>3, AbsenceAssumption DEF TypeInv, TypeOK
  <2> QED BY <1>1, <2>1, <2>2, <2>4, AbsenceAssumption DEF Ownership, TypeInv, TypeOK
<1>3. CASE ~(s # None /\ peer_owners[s] = c)
  <2>1. peers' = peers /\ peer_owners' = peer_owners
    BY <1>3 DEF Cleanup
  <2>2. \A r \in Sessions : peer_owners[r] # c
    BY <1>3, AbsenceAssumption DEF Ownership
  <2> QED BY <1>1, <2>1, <2>2 DEF Ownership, TypeInv, TypeOK
<1> QED BY <1>2, <1>3

\* What a step that neither announces nor cleans up leaves of sessions and owners.
RegisterKept ==
  /\ \A s \in Sessions : peers'[s] # None => peers[s] # None
  /\ peer_owners' = peer_owners /\ session' = session
  /\ \A c \in Conns : pc'[c] \in {"new", "closed"} => pc[c] = pc'[c]

\* The other steps add no record, change no owner and close no connection.
LEMMA OthersKeepRegister ==
  ASSUME TypeInv, [Next]_vars
  PROVE  \/ RegisterKept
         \/ \E c \in Conns, m \in Messages : Announce(c, m)
         \/ \E c \in Conns : Cleanup(c)
<1> USE DEF RegisterKept
<1>1. ASSUME NEW c \in Conns,
             Accept(c) \/ Hangup(c) \/ Eof(c) \/ Lagged(c) \/ Deliver(c) \/ Drain(c)
               \/ Abort(c) \/ Reply(c) \/ Bail(c)
      PROVE  RegisterKept
  BY <1>1 DEF Accept, Hangup, Eof, Lagged, Deliver, Drain, Abort, Reply, Bail,
       stateVars, TypeInv, TypeOK
<1>2. ASSUME NEW c \in Conns, NEW m \in Messages,
             \/ ReadError(c, m) \/ Reject(c, m) \/ UplinkStatus(c, m) \/ AlreadyAnnounced(c, m)
             \/ TooManyPaths(c, m) \/ Subscribe(c, m) \/ Publish(c, m) \/ ReadClock(c, m)
      PROVE  RegisterKept
  BY <1>2 DEF ReadError, Reject, UplinkStatus, AlreadyAnnounced, TooManyPaths, Subscribe, Publish,
       ReadClock, Continue, Answer, Refuse, Finish, stateVars, TypeInv, TypeOK
<1>3. ASSUME NEW c \in Conns, NEW m \in Messages, Update(c, m) \/ Heartbeat(c, m)
      PROVE  RegisterKept
  BY <1>3 DEF Update, Heartbeat, Touch, Continue, Answer, Finish, TypeInv, TypeOK
<1>4. ASSUME NEW c \in Conns,
             PublishTouch(c) \/ PeersList(c) \/ Acquire(c) \/ Release(c)
      PROVE  RegisterKept
  BY <1>4 DEF PublishTouch, PeersList, Acquire, Release, Touch, PruneStale, Continue,
       Answer, Refuse, Finish, TypeInv, TypeOK
<1>5. ASSUME NEW c \in Conns, List(c) \/ Signal(c) \/ Send(c) PROVE RegisterKept
  BY <1>5 DEF List, Signal, Send, Continue, Answer, Finish, stateVars, TypeInv, TypeOK
<1>6. ASSUME PersistTask \/ Main \/ Stopped \/ Tick \/ UNCHANGED vars PROVE RegisterKept
  BY <1>6 DEF PersistTask, PersistRecv, PersistDrain, PersistSnapshot, PersistSave, persistElse, Main, Shutdown,
       AbortAll, FinalSnapshot, FinalSave, Exit, daemonElse, Stopped, Tick, vars, connVars, stateVars
<1> HIDE DEF RegisterKept
<1> QED BY <1>1, <1>2, <1>3, <1>4, <1>5, <1>6 DEF Next, HandleLine, Proceed

\* Announces and cleanups keep the register of owners, and nothing else touches it.
THEOREM OwnershipStep == TypeInv /\ Ownership /\ [Next]_vars => Ownership'
<1> SUFFICES ASSUME TypeInv, Ownership, [Next]_vars PROVE Ownership'
  OBVIOUS
<1>1. RegisterKept => Ownership'
  BY DEF RegisterKept, Ownership
<1> QED BY <1>1, OthersKeepRegister, AnnounceOwns, CleanupOwns

\* A listed session has an owner that can still remove it, whatever connections come,
\* go, fail and reuse session ids.
THEOREM OwnershipInvariant == Spec => []Ownership
<1>1. Init => Ownership
  BY AbsenceAssumption DEF Init, Ownership
<1> QED BY <1>1, TypeInvariant, OwnershipStep, PTL DEF Spec

\* What a step may do to the owner of a session, and to a session that is not listed.
Inherited(s) ==
  (\/ peers[s] = None /\ peers'[s] # None
   \/ peer_owners'[s] \notin {peer_owners[s], None})
  => /\ peer_owners[s] = None
     /\ \E c \in Conns : session[c] = None /\ session'[c] = s /\ peer_owners'[s] = c

\* Only an announce lists a session or gives it an owner, the connection that
\* announces, when the session had none; a cleanup takes both away.
THEOREM InheritanceStep == TypeInv /\ [Next]_vars => \A s \in Sessions : Inherited(s)
<1> SUFFICES ASSUME TypeInv, [Next]_vars, NEW s \in Sessions PROVE Inherited(s)
  OBVIOUS
<1>1. CASE RegisterKept
  BY <1>1 DEF RegisterKept, Inherited
<1>2. ASSUME NEW c \in Conns, NEW m \in Messages, Announce(c, m) PROVE Inherited(s)
  <2>1. m.sid \in Sessions
    BY <1>2, MessagesAssumption, MessageFields DEF Announce
  <2>2. session[c] = None /\ session'[c] = m.sid
    BY <1>2, <2>1 DEF Announce, TypeInv, TypeOK
  <2>3. CASE peer_owners[m.sid] = None
    <3>1. peer_owners' = [peer_owners EXCEPT ![m.sid] = c]
          /\ \A r \in Sessions \ {m.sid} : peers'[r] = peers[r]
      BY <1>2, <2>3 DEF Announce, TypeInv, TypeOK
    <3> QED BY <2>1, <2>2, <2>3, <3>1 DEF Inherited, TypeInv, TypeOK
  <2>4. CASE peer_owners[m.sid] # None
    BY <1>2, <2>4 DEF Announce, Inherited
  <2> QED BY <2>3, <2>4
<1>3. ASSUME NEW c \in Conns, Cleanup(c) PROVE Inherited(s)
  BY <1>3 DEF Cleanup, Inherited, TypeInv, TypeOK
<1> QED BY <1>1, <1>2, <1>3, OthersKeepRegister

\* A guest is never promoted, and nothing but an announce that finds no owner lists
\* a session.
THEOREM NoInheritance == Spec => NobodyInherits
<1>1. TypeInv /\ [Next]_vars =>
        [\A s \in Sessions :
           (\/ peers[s] = None /\ peers'[s] # None
            \/ peer_owners'[s] \notin {peer_owners[s], None})
           => /\ peer_owners[s] = None
              /\ \E c \in Conns :
                   session[c] = None /\ session'[c] = s /\ peer_owners'[s] = c]_vars
  BY InheritanceStep DEF Inherited
<1> QED BY <1>1, TypeInvariant, PTL DEF Spec, NobodyInherits

-----------------------------------------------------------------------------
(* Records disappear for a reason *)

\* The clock a task read before it asked for the lock is never ahead.
NotAhead == \A c \in Conns : now[c] <= clock

\* now is set from the clock or to zero, and the clock never goes back.
THEOREM NotAheadInvariant == Spec => []NotAhead
<1>1. Init => NotAhead
  BY NumbersAssumption DEF Init, NotAhead
<1>2. TypeInv /\ NotAhead /\ [Next]_vars => NotAhead'
  <2> SUFFICES ASSUME TypeInv, NotAhead, [Next]_vars PROVE NotAhead'
    OBVIOUS
  <2> DEFINE Past == clock' >= clock /\ clock' \in Nat
                     /\ \A c \in Conns : now'[c] \in {now[c], clock, 0}
  <2>1. Past => NotAhead'
    <3> SUFFICES ASSUME Past, NEW c \in Conns PROVE now'[c] <= clock'
      BY DEF NotAhead
    <3>1. now[c] \in Nat /\ clock \in Nat /\ now[c] <= clock
      BY DEF NotAhead, TypeInv, TypeOK
    <3>2. CASE now'[c] = now[c]
      BY <3>1, <3>2
    <3>3. CASE now'[c] = clock \/ now'[c] = 0
      BY <3>1, <3>3
    <3> QED BY <3>2, <3>3
  <2>2. ASSUME NEW c \in Conns,
               Accept(c) \/ Hangup(c) \/ Eof(c) \/ Cleanup(c) \/ Lagged(c) \/ Deliver(c)
                 \/ Drain(c) \/ Abort(c) \/ Reply(c) \/ Bail(c)
        PROVE  Past
    BY <2>2 DEF Accept, Hangup, Eof, Cleanup, Lagged, Deliver, Drain, Abort, Reply, Bail,
         TypeInv, TypeOK
  <2>3. ASSUME NEW c \in Conns, NEW m \in Messages,
               \/ ReadError(c, m) \/ Reject(c, m) \/ UplinkStatus(c, m) \/ AlreadyAnnounced(c, m)
               \/ TooManyPaths(c, m) \/ Announce(c, m) \/ Update(c, m)
               \/ Subscribe(c, m) \/ Publish(c, m) \/ ReadClock(c, m)
        PROVE  Past
    BY <2>3 DEF ReadError, Reject, UplinkStatus, AlreadyAnnounced, TooManyPaths, Announce, Update,
         Subscribe, Publish, ReadClock, Continue, Answer, Refuse, Finish, TypeInv, TypeOK
  <2>4. ASSUME NEW c \in Conns, NEW m \in Messages, Heartbeat(c, m) PROVE Past
    <3>1. now' = now \/ Answer(c)
      BY <2>4 DEF Heartbeat
    <3> QED BY <2>4, <3>1 DEF Heartbeat, Answer, Finish, TypeInv, TypeOK
  <2>5. ASSUME NEW c \in Conns,
               PublishTouch(c) \/ PeersList(c) \/ List(c) \/ Send(c)
        PROVE  Past
    BY <2>5 DEF PublishTouch, PeersList, List, Send, Answer, Finish, TypeInv, TypeOK
  <2>6. ASSUME NEW c \in Conns, Acquire(c) \/ Release(c) \/ Signal(c) PROVE Past
    <3>1. now' = now \/ Answer(c) \/ Refuse(c)
      BY <2>6 DEF Acquire, Release, Signal
    <3>2. clock' = clock
      BY <2>6 DEF Acquire, Release, Signal
    <3> QED BY <3>1, <3>2 DEF Answer, Refuse, Finish, TypeInv, TypeOK
  <2>7. ASSUME PersistTask \/ Main \/ Stopped \/ Tick \/ UNCHANGED vars PROVE Past
    BY <2>7 DEF PersistTask, PersistRecv, PersistDrain, PersistSnapshot, PersistSave, persistElse, Main, Shutdown,
         AbortAll, FinalSnapshot, FinalSave, Exit, daemonElse, Stopped, Tick, vars, connVars,
         TypeInv, TypeOK
  <2> HIDE DEF Past
  <2> QED BY <2>1, <2>2, <2>3, <2>4, <2>5, <2>6, <2>7 DEF Next, HandleLine, Proceed
<1> QED BY <1>1, <1>2, TypeInvariant, PTL DEF Spec

\* What a step may do to a listed session.
Kept(s) ==
  (peers[s] # None /\ peers'[s] = None) =>
    \/ clock - peers[s].hb > HeartbeatTimeout
    \/ \E c \in Conns : peer_owners[s] = c /\ pc[c] = "cleanup"

\* Only a cleanup and the pruning of the peers op remove records: the first one its
\* own, the second with a clock that is not ahead of the real one.
THEOREM DelistingStep ==
  TypeInv /\ NotAhead /\ [Next]_vars => \A s \in Sessions : Kept(s)
<1> SUFFICES ASSUME TypeInv, NotAhead, [Next]_vars, NEW s \in Sessions PROVE Kept(s)
  OBVIOUS
<1> DEFINE Same == peers[s] # None => peers'[s] # None
<1>1. ASSUME NEW c \in Conns, Cleanup(c) PROVE Kept(s)
  BY <1>1 DEF Cleanup, Kept, TypeInv, TypeOK
<1>2. ASSUME NEW c \in Conns, PeersList(c) PROVE Kept(s)
  <2>1. ASSUME peers[s] # None
        PROVE  peers[s].hb \in Nat
    BY <2>1 DEF TypeInv, TypeOK, PeerRecord
  <2> QED BY <1>2, <2>1, NumbersAssumption
          DEF PeersList, PruneStale, NotAhead, Kept, TypeInv, TypeOK
<1>3. ASSUME NEW r \in Sessions, NEW t \in Nat,
             peers' = peers \/ peers' = Touch(peers, r, t)
      PROVE  Same
  <2>1. \A h \in Nat : peers[s] # None => [peers[s] EXCEPT !.hb = h] # None
    BY AbsenceAssumption DEF TypeInv, TypeOK, PeerRecord
  <2> QED BY <1>3, <2>1 DEF Touch, TypeInv, TypeOK
<1>4. ASSUME NEW c \in Conns,
             Accept(c) \/ Hangup(c) \/ Eof(c) \/ Lagged(c) \/ Deliver(c)
               \/ Drain(c) \/ Abort(c) \/ Reply(c) \/ Bail(c)
      PROVE  Same
  BY <1>4 DEF Accept, Hangup, Eof, Lagged, Deliver, Drain, Abort, Reply, Bail, stateVars
<1>5. ASSUME NEW c \in Conns, NEW m \in Messages,
             \/ ReadError(c, m) \/ Reject(c, m) \/ UplinkStatus(c, m) \/ AlreadyAnnounced(c, m)
             \/ TooManyPaths(c, m) \/ Subscribe(c, m) \/ Publish(c, m) \/ ReadClock(c, m)
      PROVE  Same
  BY <1>5 DEF ReadError, Reject, UplinkStatus, AlreadyAnnounced, TooManyPaths, Subscribe, Publish,
       ReadClock, stateVars
<1>6. ASSUME NEW c \in Conns, NEW m \in Messages, Announce(c, m) PROVE Same
  <2>1. m.sid \in Sessions
    BY <1>6, MessagesAssumption, MessageFields DEF Announce
  <2>2. [hb |-> clock, sticky |-> NoIntent] # None
    BY AbsenceAssumption DEF TypeInv, TypeOK, PeerRecord, NoIntent, StickyIntent, Sticky
  <2> QED BY <1>6, <2>1, <2>2 DEF Announce, TypeInv, TypeOK
<1>7. ASSUME NEW c \in Conns, NEW m \in Messages, Update(c, m) PROVE Same
  BY <1>3, <1>7 DEF Update, TypeInv, TypeOK
<1>8. ASSUME NEW c \in Conns, NEW m \in Messages, Heartbeat(c, m) PROVE Same
  <2> DEFINE r == session[c]
             new == [f \in Fields |-> IF m.set[f] = Absent THEN peers[r].sticky[f] ELSE m.set[f]]
  <2>1. peers' = IF peers[r] = None THEN peers
                 ELSE [peers EXCEPT ![r] = [hb |-> clock, sticky |-> new]]
    BY <1>8 DEF Heartbeat
  <2>2. r \in Sessions /\ m.set \in [Fields -> Sticky \cup {Absent}]
    BY <1>8, MessagesAssumption, MessageFields DEF Heartbeat, TypeInv, TypeOK
  <2>3. peers[r] # None => [hb |-> clock, sticky |-> new] \in PeerRecord
    BY <2>2 DEF TypeInv, TypeOK, PeerRecord, StickyIntent
  <2> HIDE DEF new
  <2> QED BY <2>1, <2>2, <2>3, AbsenceAssumption DEF TypeInv, TypeOK
<1>9. ASSUME NEW c \in Conns,
             PublishTouch(c) \/ Acquire(c) \/ Release(c) \/ List(c) \/ Signal(c) \/ Send(c)
      PROVE  Same
  <2>1. peers' = peers \/ peers' = Touch(peers, session[c], now[c])
          \/ peers' = Touch(peers, session[c], clock)
    BY <1>9 DEF PublishTouch, Acquire, Release, List, Signal, Send, stateVars
  <2>2. peers' = peers \/ session[c] \in Sessions
    BY <1>9 DEF PublishTouch, Acquire, Release, List, Signal, Send, stateVars, Locked,
         TypeInv, HandlerOK
  <2> QED BY <1>3, <2>1, <2>2 DEF TypeInv, TypeOK
<1>10. ASSUME PersistTask \/ Main \/ Stopped \/ Tick \/ UNCHANGED vars PROVE Same
  BY <1>10 DEF PersistTask, PersistRecv, PersistDrain, PersistSnapshot, PersistSave, persistElse, Main, Shutdown,
       AbortAll, FinalSnapshot, FinalSave, Exit, daemonElse, Stopped, Tick, vars, connVars, stateVars
<1>11. Same => Kept(s)
  BY DEF Kept
<1> HIDE DEF Same
<1> QED BY <1>1, <1>2, <1>4, <1>5, <1>6, <1>7, <1>8, <1>9, <1>10, <1>11
         DEF Next, HandleLine, Proceed

\* A guest that leaves, a failing connection or a peers request with an old clock never
\* removes a record whose heartbeat stamp is recent: only its owner's cleanup does.
THEOREM Delisting == Spec => DelistedByOwnerOrStamp
<1>1. TypeInv /\ NotAhead /\ [Next]_vars =>
        [\A s \in Sessions :
           (peers[s] # None /\ peers'[s] = None) =>
             \/ clock - peers[s].hb > HeartbeatTimeout
             \/ \E c \in Conns : peer_owners[s] = c /\ pc[c] = "cleanup"]_vars
  BY DelistingStep DEF Kept
<1> QED BY <1>1, TypeInvariant, NotAheadInvariant, PTL DEF Spec, DelistedByOwnerOrStamp

-----------------------------------------------------------------------------
(* Delivery *)

\* What c's subscriber was sent is in order and behind its receiver, which is not ahead
\* of the channel; and nothing between a subscription and the receiver is missing.
DeliveryInv(c) ==
  /\ rx[c] <= Len(log) + 1
  /\ prefixes[c] # {} => rx[c] # 0
  /\ \A p \in prefixes[c] : since[c][p] # 0
  /\ \A i \in 1..Len(out[c]) : out[c][i] < rx[c]
  /\ \A i, j \in 1..Len(out[c]) : i < j => out[c][i] < out[c][j]
  /\ \A p \in prefixes[c] : \A i \in since[c][p]..(rx[c] - 1) :
       SeqExt!IsPrefix(p, log[i].topic) =>
         i \in SeqExt!ToSet(out[c]) \cup missed[c] \/ pc[c] = "failed"

\* The channel only grows at its end.
Grows == log' = log \/ \E x \in BroadcastMsg : log' = Append(log, x)

\* Nothing happens to c's subscriptions; a task that has failed has ended.
Undisturbed(c) ==
  /\ rx'[c] = rx[c] /\ prefixes'[c] = prefixes[c] /\ out'[c] = out[c]
  /\ missed'[c] = missed[c] /\ since'[c] = since[c]
  /\ pc[c] = "failed" => pc'[c] = "failed"

\* A handler broadcasts at most one message, at the end.
LEMMA BroadcastTyped ==
  ASSUME TypeInv, NEW c \in Conns, Acquire(c) \/ Release(c) \/ Signal(c) \/ Send(c)
  PROVE  Grows
<1>1. CASE Signal(c) \/ Release(c)
  BY <1>1 DEF Signal, Release, Grows
<1>2. CASE Send(c)
  <2>1. req[c].path \in Paths /\ session[c] \in Sessions
    BY <1>2, MessageFields DEF Send, TypeInv, HandlerOK
  <2> QED BY <1>2, <2>1 DEF Send, Broadcast, Grows, BroadcastMsg
<1>3. CASE Acquire(c)
  <2> DEFINE p == req[c].path
             table == PruneExpired(claims, now[c])
  <2>1. p \in Paths /\ table \in [Paths -> ClaimRecord \cup {None}]
    BY <1>3, MessageFields, PruneTyped DEF Acquire, Locked, TypeInv, TypeOK, HandlerOK
  <2>2. table[p] # None => table[p].sid \in Sessions
    BY <2>1 DEF ClaimRecord
  <2> HIDE DEF table
  <2>3. log' = log \/ (table[p] # None /\ Broadcast(ClaimRelease, p, table[p].sid))
    BY <1>3 DEF Acquire, table
  <2> QED BY <2>1, <2>2, <2>3 DEF Broadcast, Grows, BroadcastMsg
<1> QED BY <1>1, <1>2, <1>3

\* Messages already sent stay where they are.
LEMMA GrownLog ==
  ASSUME TypeInv, Grows
  PROVE  /\ Len(log) \in Nat /\ Len(log) <= Len(log') /\ Len(log') \in Nat
         /\ \A i \in 1..Len(log) : log'[i] = log[i]
<1>0. log \in Seq(BroadcastMsg)
  BY DEF TypeInv, TypeOK
<1>1. CASE log' = log
  BY <1>0, <1>1
<1>2. ASSUME NEW x \in BroadcastMsg, log' = Append(log, x)
      PROVE  /\ Len(log) \in Nat /\ Len(log) <= Len(log') /\ Len(log') \in Nat
             /\ \A i \in 1..Len(log) : log'[i] = log[i]
  BY <1>0, <1>2
<1> QED BY <1>1, <1>2 DEF Grows

\* A step that leaves a subscriber alone may send more messages.
LEMMA UndisturbedDelivery ==
  ASSUME TypeInv, NEW c \in Conns, DeliveryInv(c), Grows, Undisturbed(c)
  PROVE  DeliveryInv(c)'
<1>0. rx[c] \in Nat /\ \A p \in Prefixes : since[c][p] \in Nat
  BY DEF TypeInv, TypeOK
<1>1. /\ Len(log) \in Nat /\ Len(log) <= Len(log') /\ Len(log') \in Nat
      /\ \A i \in 1..Len(log) : log'[i] = log[i]
  BY GrownLog
<1>2. rx'[c] <= Len(log') + 1
  BY <1>0, <1>1 DEF DeliveryInv, Undisturbed
<1>3. ASSUME NEW p \in prefixes[c], NEW i \in since[c][p]..(rx[c] - 1),
             SeqExt!IsPrefix(p, log'[i].topic)
      PROVE  i \in SeqExt!ToSet(out[c]) \cup missed[c] \/ pc'[c] = "failed"
  <2>1. CASE i \in 1..Len(log)
    <3>1. log'[i] = log[i]
      BY <1>1, <2>1
    <3> QED BY <1>3, <3>1 DEF DeliveryInv, Undisturbed
  <2>2. i \in 1..Len(log)
    <3>1. since[c][p] \in Nat \ {0} /\ rx[c] - 1 <= Len(log)
      BY <1>0, <1>1 DEF DeliveryInv, TypeInv, TypeOK
    <3> QED BY <1>0, <1>1, <3>1
  <2> QED BY <2>1, <2>2
<1> QED BY <1>2, <1>3 DEF DeliveryInv, Undisturbed

\* A subscriber that has fallen behind skips what the channel dropped.
LEMMA LaggedDelivery ==
  ASSUME TypeInv, NEW c \in Conns, DeliveryInv(c), Lagged(c)
  PROVE  DeliveryInv(c)'
<1> DEFINE oldest == Len(log) - BroadcastCapacity + 1
<1>0. /\ rx[c] \in Nat /\ Len(log) \in Nat /\ \A p \in prefixes[c] : since[c][p] \in Nat
      /\ BroadcastCapacity \in Nat \ {0} /\ oldest \in Int /\ out[c] \in Seq(Nat)
  BY NumbersAssumption DEF TypeInv, TypeOK
<1>1. /\ rx[c] < oldest /\ rx'[c] = oldest /\ missed'[c] = missed[c] \cup rx[c]..(oldest - 1)
      /\ prefixes' = prefixes /\ out' = out /\ since' = since /\ log' = log /\ pc' = pc
  BY DEF Lagged, TypeInv, TypeOK
<1>2. oldest <= Len(log) + 1 /\ oldest # 0
  BY <1>0, <1>1
<1> HIDE DEF oldest
<1>3. ASSUME NEW i \in 1..Len(out[c]) PROVE out[c][i] < oldest
  <2>1. out[c][i] < rx[c] /\ out[c][i] \in Nat
    BY <1>0 DEF DeliveryInv
  <2> QED BY <1>0, <1>1, <2>1
<1>4. ASSUME NEW p \in prefixes[c], NEW i \in since[c][p]..(oldest - 1),
             SeqExt!IsPrefix(p, log[i].topic)
      PROVE  i \in SeqExt!ToSet(out[c]) \cup missed'[c] \/ pc[c] = "failed"
  <2>1. i \in since[c][p]..(rx[c] - 1) \/ i \in rx[c]..(oldest - 1)
    BY <1>0, <1>1
  <2> QED BY <1>1, <1>4, <2>1 DEF DeliveryInv
<1> QED BY <1>1, <1>2, <1>3, <1>4 DEF DeliveryInv

\* A message that matches is written to the client, or the task ends there.
LEMMA DeliverDelivery ==
  ASSUME TypeInv, NEW c \in Conns, DeliveryInv(c), Deliver(c)
  PROVE  DeliveryInv(c)'
<1> DEFINE wanted == TopicMatches(prefixes[c], log[rx[c]].topic)
<1>0. /\ rx[c] \in Nat /\ Len(log) \in Nat /\ \A p \in prefixes[c] : since[c][p] \in Nat
      /\ out[c] \in Seq(Nat) /\ rx[c] <= Len(log)
  BY DEF Deliver, TypeInv, TypeOK
<1>1. /\ rx'[c] = rx[c] + 1 /\ missed' = missed
      /\ prefixes' = prefixes /\ since' = since /\ log' = log /\ pc[c] = "idle"
      /\ out'[c] = IF wanted /\ ~gone[c] THEN Append(out[c], rx[c]) ELSE out[c]
      /\ wanted /\ gone[c] => pc'[c] = "failed"
  BY DEF Deliver, TypeInv, TypeOK
<1> HIDE DEF wanted
<1>2. rx[c] + 1 <= Len(log) + 1 /\ rx[c] + 1 # 0
  BY <1>0
<1>3. \A i \in 1..Len(out[c]) : out[c][i] \in Nat /\ out[c][i] < rx[c] /\ out[c][i] < rx[c] + 1
  BY <1>0 DEF DeliveryInv
<1>4. /\ \A i \in 1..Len(out'[c]) : out'[c][i] < rx[c] + 1
      /\ \A i, j \in 1..Len(out'[c]) : i < j => out'[c][i] < out'[c][j]
      /\ SeqExt!ToSet(out[c]) \subseteq SeqExt!ToSet(out'[c])
  <2>1. CASE wanted /\ ~gone[c]
    <3>1. out'[c] = Append(out[c], rx[c])
      BY <1>1, <2>1
    <3>2. /\ Len(out'[c]) = Len(out[c]) + 1 /\ Len(out[c]) \in Nat
          /\ \A i \in 1..Len(out[c]) : out'[c][i] = out[c][i]
          /\ out'[c][Len(out[c]) + 1] = rx[c]
          /\ DOMAIN out[c] = 1..Len(out[c]) /\ DOMAIN out'[c] = 1..(Len(out[c]) + 1)
      BY <1>0, <3>1
    <3>3. \A i \in 1..(Len(out[c]) + 1) : i \in 1..Len(out[c]) \/ i = Len(out[c]) + 1
      BY <3>2
    <3>4. \A i \in 1..Len(out'[c]) : out'[c][i] < rx[c] + 1
      BY <1>0, <1>3, <3>2, <3>3
    <3>5. ASSUME NEW i \in 1..Len(out'[c]), NEW j \in 1..Len(out'[c]), i < j
          PROVE  out'[c][i] < out'[c][j]
      <4>1. i \in 1..Len(out[c])
        BY <3>2, <3>5
      <4>2. CASE j \in 1..Len(out[c])
        BY <3>2, <3>5, <4>1, <4>2 DEF DeliveryInv
      <4>3. CASE j = Len(out[c]) + 1
        BY <1>3, <3>2, <4>1, <4>3
      <4> QED BY <3>2, <3>3, <4>2, <4>3
    <3>6. SeqExt!ToSet(out[c]) \subseteq SeqExt!ToSet(out'[c])
      BY <3>2, <3>3 DEF SeqExt!ToSet
    <3> QED BY <3>4, <3>5, <3>6
  <2>2. CASE ~(wanted /\ ~gone[c])
    <3>1. out'[c] = out[c]
      BY <1>1, <2>2
    <3> QED BY <1>3, <3>1 DEF DeliveryInv
  <2> QED BY <2>1, <2>2
<1>5. wanted /\ ~gone[c] => rx[c] \in SeqExt!ToSet(out'[c])
  <2> SUFFICES ASSUME wanted, ~gone[c] PROVE rx[c] \in SeqExt!ToSet(out'[c])
    OBVIOUS
  <2>1. /\ Len(out[c]) + 1 \in DOMAIN Append(out[c], rx[c])
        /\ Append(out[c], rx[c])[Len(out[c]) + 1] = rx[c]
    BY <1>0
  <2> QED BY <1>1, <2>1 DEF SeqExt!ToSet
<1>6. ASSUME NEW p \in prefixes[c], NEW i \in since[c][p]..((rx[c] + 1) - 1),
             SeqExt!IsPrefix(p, log[i].topic)
      PROVE  i \in SeqExt!ToSet(out'[c]) \cup missed[c] \/ pc'[c] = "failed"
  <2>1. i \in since[c][p]..(rx[c] - 1) \/ i = rx[c]
    BY <1>0
  <2>2. CASE i \in since[c][p]..(rx[c] - 1)
    BY <1>1, <1>4, <1>6, <2>2 DEF DeliveryInv
  <2>3. CASE i = rx[c]
    <3>1. wanted
      BY <1>6, <2>3 DEF wanted, TopicMatches
    <3> QED BY <1>1, <1>5, <2>3, <3>1
  <2> QED BY <2>1, <2>2, <2>3
<1> QED BY <1>1, <1>2, <1>4, <1>6 DEF DeliveryInv

\* A subscription begins at the end of the channel, where the receiver is or will be.
LEMMA SubscribeDelivery ==
  ASSUME TypeInv, NEW c \in Conns, DeliveryInv(c), NEW m \in Messages, Subscribe(c, m)
  PROVE  DeliveryInv(c)'
<1>0. /\ rx[c] \in Nat /\ Len(log) \in Nat /\ \A p \in Prefixes : since[c][p] \in Nat
      /\ out[c] \in Seq(Nat) /\ prefixes[c] \subseteq Prefixes /\ rx[c] <= Len(log) + 1
      /\ m.prefix \in Prefixes
  BY MessagesAssumption, MessageFields DEF Subscribe, DeliveryInv, TypeInv, TypeOK
<1>1. /\ prefixes'[c] = prefixes[c] \cup {m.prefix} /\ log' = log
      /\ out' = out /\ missed' = missed /\ pc[c] = "idle"
      /\ rx'[c] = IF rx[c] = 0 THEN Len(log) + 1 ELSE rx[c]
      /\ \A p \in prefixes[c] : since'[c][p] = since[c][p]
      /\ m.prefix \notin prefixes[c] => since'[c][m.prefix] = Len(log) + 1
  BY <1>0 DEF Subscribe, ReadLine, TypeInv, TypeOK
<1>2. rx'[c] <= Len(log) + 1 /\ rx'[c] # 0 /\ rx'[c] \in Nat /\ Len(log) + 1 # 0
  BY <1>0, <1>1
<1>3. \A i \in 1..Len(out[c]) : out[c][i] < rx'[c]
  <2>1. \A i \in 1..Len(out[c]) : out[c][i] \in Nat /\ out[c][i] < rx[c]
    BY <1>0 DEF DeliveryInv
  <2> QED BY <1>0, <1>1, <2>1
<1>4. ASSUME NEW p \in prefixes'[c]
      PROVE  /\ since'[c][p] # 0
             /\ \A i \in since'[c][p]..(rx'[c] - 1) :
                  SeqExt!IsPrefix(p, log[i].topic) =>
                    i \in SeqExt!ToSet(out[c]) \cup missed[c] \/ pc'[c] = "failed"
  <2>1. CASE p \in prefixes[c]
    <3>1. rx'[c] = rx[c] /\ since'[c][p] = since[c][p] /\ since[c][p] # 0
      BY <1>1, <2>1 DEF DeliveryInv
    <3> QED BY <1>1, <2>1, <3>1 DEF DeliveryInv
  <2>2. CASE p \notin prefixes[c]
    <3>1. since'[c][p] = Len(log) + 1
      BY <1>1, <1>4, <2>2
    <3>2. \A i \in since'[c][p]..(rx'[c] - 1) : FALSE
      BY <1>0, <1>2, <3>1
    <3> QED BY <1>2, <3>1, <3>2
  <2> QED BY <2>1, <2>2
<1> QED BY <1>1, <1>2, <1>3, <1>4 DEF DeliveryInv

\* Every step keeps what subscribers were promised.
THEOREM DeliveryStep ==
  TypeInv /\ (\A c \in Conns : DeliveryInv(c)) /\ [Next]_vars
    => (\A c \in Conns : DeliveryInv(c))'
<1> SUFFICES ASSUME TypeInv, \A c \in Conns : DeliveryInv(c), [Next]_vars, NEW d \in Conns
             PROVE  DeliveryInv(d)'
  OBVIOUS
<1> DEFINE Only(c) == Grows /\ \A e \in Conns \ {c} : Undisturbed(e)
           All == Grows /\ \A e \in Conns : Undisturbed(e)
<1>0. TypeInv'
  BY TypeStep
<1>1. ASSUME NEW c \in Conns, Lagged(c) PROVE DeliveryInv(d)'
  <2>1. Only(c)
    BY <1>1 DEF Lagged, Grows, Undisturbed, TypeInv, TypeOK
  <2> QED BY <1>1, <2>1, LaggedDelivery, UndisturbedDelivery
<1>2. ASSUME NEW c \in Conns, Deliver(c) PROVE DeliveryInv(d)'
  <2>1. Only(c)
    BY <1>2 DEF Deliver, Grows, Undisturbed, TypeInv, TypeOK
  <2> QED BY <1>2, <2>1, DeliverDelivery, UndisturbedDelivery
<1>3. ASSUME NEW c \in Conns, NEW m \in Messages, Subscribe(c, m) PROVE DeliveryInv(d)'
  <2>1. Only(c)
    <3>1. m.prefix \in Prefixes
      BY <1>3, MessagesAssumption, MessageFields DEF Subscribe
    <3> QED BY <1>3, <3>1
        DEF Subscribe, ReadLine, Answer, Finish, Grows, Undisturbed, TypeInv, TypeOK
  <2> QED BY <1>3, <2>1, SubscribeDelivery, UndisturbedDelivery
<1>4. All => DeliveryInv(d)'
  BY UndisturbedDelivery
<1>5. ASSUME UNCHANGED <<rx, prefixes, out, missed, since>>, Grows,
             \A e \in Conns : pc[e] = "failed" => pc'[e] = "failed"
      PROVE  All
  BY <1>5 DEF Undisturbed
<1>6. ASSUME NEW c \in Conns,
             \/ Accept(c) \/ Hangup(c) \/ Eof(c) \/ Drain(c) \/ Cleanup(c) \/ Abort(c)
             \/ Reply(c) \/ Bail(c)
      PROVE  All
  <2>1. UNCHANGED <<rx, prefixes, out, missed, since, log>>
    BY <1>6 DEF Accept, Hangup, Eof, Drain, Cleanup, Abort, Reply, Bail, historyVars
  <2>2. \A e \in Conns : pc[e] = "failed" => pc'[e] = "failed"
    BY <1>6 DEF Accept, Hangup, Eof, Drain, Cleanup, Abort, Reply, Bail, TypeInv, TypeOK
  <2> QED BY <1>5, <2>1, <2>2 DEF Grows
<1>7. ASSUME NEW c \in Conns, NEW m \in Messages,
             \/ ReadError(c, m) \/ Reject(c, m) \/ UplinkStatus(c, m) \/ AlreadyAnnounced(c, m)
             \/ TooManyPaths(c, m) \/ Announce(c, m) \/ Update(c, m) \/ ReadClock(c, m)
             \/ Heartbeat(c, m)
      PROVE  All
  <2>1. UNCHANGED <<rx, prefixes, out, missed, since, log>>
    BY <1>7 DEF ReadError, Reject, UplinkStatus, AlreadyAnnounced, TooManyPaths, Announce, Update,
         ReadClock, Heartbeat, historyVars
  <2>2. pc[c] = "idle"
    BY <1>7 DEF ReadError, Reject, UplinkStatus, AlreadyAnnounced, TooManyPaths, Announce, Update,
         ReadClock, Heartbeat, ReadLine
  <2>3. \E l : pc' = [pc EXCEPT ![c] = l]
    BY <1>7 DEF ReadError, Reject, UplinkStatus, AlreadyAnnounced, TooManyPaths, Announce, Update,
         ReadClock, Heartbeat, Continue, Answer, Refuse, Finish
  <2> QED BY <1>5, <2>1, <2>2, <2>3 DEF Grows, TypeInv, TypeOK
<1>8. ASSUME NEW c \in Conns, NEW m \in Messages, Publish(c, m) PROVE All
  <2>1. /\ UNCHANGED <<rx, prefixes, out, missed, since>> /\ pc[c] = "idle"
        /\ pc' = [pc EXCEPT ![c] = "lock"]
    BY <1>8 DEF Publish, ReadLine, Continue, historyVars
  <2>2. Grows
    <3>1. m.topic \in Topics /\ session[c] \in Sessions
      BY <1>8, MessagesAssumption, MessageFields DEF Publish, TypeInv, TypeOK
    <3> QED BY <1>8, <3>1 DEF Publish, Broadcast, Grows, BroadcastMsg
  <2> QED BY <1>5, <2>1, <2>2 DEF TypeInv, TypeOK
<1>9. ASSUME NEW c \in Conns, PublishTouch(c) \/ PeersList(c) \/ List(c) PROVE All
  <2>1. /\ UNCHANGED <<rx, prefixes, out, missed, since, log>> /\ pc[c] = "lock"
        /\ pc' = [pc EXCEPT ![c] = "reply"]
    BY <1>9 DEF PublishTouch, PeersList, List, Locked, Answer, Finish, historyVars
  <2> QED BY <1>5, <2>1 DEF Grows, TypeInv, TypeOK
<1>10. ASSUME NEW c \in Conns, Acquire(c) \/ Release(c) \/ Signal(c) \/ Send(c) PROVE All
  <2>1. UNCHANGED <<rx, prefixes, out, missed, since>> /\ pc[c] # "failed"
    BY <1>10 DEF Acquire, Release, Signal, Send, Locked, historyVars
  <2>2. \E l : pc' = [pc EXCEPT ![c] = l]
    BY <1>10 DEF Acquire, Release, Signal, Send, Continue, Answer, Refuse, Finish
  <2>3. Grows
    BY <1>10, <1>0, BroadcastTyped
  <2> QED BY <1>5, <2>1, <2>2, <2>3 DEF TypeInv, TypeOK
<1>11. ASSUME PersistTask \/ Main \/ Stopped \/ Tick \/ UNCHANGED vars PROVE All
  <2>1. UNCHANGED <<pc, rx, prefixes, out, missed, since, log>>
    BY <1>11 DEF PersistTask, PersistRecv, PersistDrain, PersistSnapshot, PersistSave, persistElse, Main, Shutdown,
         AbortAll, FinalSnapshot, FinalSave, Exit, daemonElse, Stopped, Tick, vars, connVars, historyVars
  <2> QED BY <1>5, <2>1 DEF Grows
<1> HIDE DEF All
<1> QED BY <1>1, <1>2, <1>3, <1>4, <1>6, <1>7, <1>8, <1>9, <1>10, <1>11
        DEF Next, HandleLine, Proceed

\* Subscribers get every message once and in order, or lag, or have failed, for any
\* number of connections, topics and prefixes, and any capacity of the channel.
THEOREM Delivered == Spec => []Delivery
<1> DEFINE Inv == \A c \in Conns : DeliveryInv(c)
<1>1. Init => Inv
  BY DEF Init, DeliveryInv
<1>2. TypeInv /\ Inv /\ [Next]_vars => Inv'
  BY DeliveryStep
<1>3. Inv => Delivery
  BY DEF Delivery, DeliveryInv
<1> HIDE DEF Inv
<1> QED BY <1>1, <1>2, <1>3, TypeInvariant, PTL DEF Spec

-----------------------------------------------------------------------------
(* Announcements of releases *)

\* The claim.release messages sent for p, and the tasks about to send one.
Sent(p) == {i \in 1..Len(log) : log[i].topic = ClaimRelease /\ log[i].path = p}
Pending(p) == {c \in Conns : /\ pc[c] \in {"signal", "send"}
                             /\ req[c].op = "claim_release"
                             /\ req[c].path = p}

\* What is counted is finite, with any number of connections.
AnnounceInv(p) ==
  /\ IsFiniteSet(Pending(p))
  /\ freed[p] = Cardinality(Sent(p)) + Cardinality(Pending(p))

\* The messages sent so far are finitely many.
LEMMA SentFinite ==
  ASSUME TypeInv, NEW p \in Paths
  PROVE  IsFiniteSet(Sent(p)) /\ Cardinality(Sent(p)) \in Nat
<1>1. Len(log) \in Nat
  BY DEF TypeInv, TypeOK
<1>2. Sent(p) \in SUBSET (1..Len(log))
  BY DEF Sent
<1>3. IsFiniteSet(1..Len(log))
  BY <1>1, FS_Interval
<1>4. IsFiniteSet(Sent(p))
  BY <1>2, <1>3, FS_Subset
<1> QED BY <1>4, FS_CardinalityType

\* A broadcast adds itself to those sent, if it is a release of p.
LEMMA SentOneMore ==
  ASSUME TypeInv, NEW p \in Paths, NEW x \in BroadcastMsg, log' = Append(log, x)
  PROVE  Cardinality(Sent(p)') = Cardinality(Sent(p)) +
           (IF x.topic = ClaimRelease /\ x.path = p THEN 1 ELSE 0)
<1> DEFINE n == Len(log) + 1
<1>1. /\ Len(log) \in Nat /\ Len(log') = n /\ log'[n] = x
      /\ \A i \in 1..Len(log) : log'[i] = log[i]
  BY DEF TypeInv, TypeOK
<1>2. n \notin Sent(p)
  BY <1>1 DEF Sent
<1>3. CASE x.topic = ClaimRelease /\ x.path = p
  <2>1. Sent(p)' = Sent(p) \cup {n}
    BY <1>1, <1>3 DEF Sent
  <2> QED BY <1>2, <1>3, <2>1, SentFinite, FS_AddElement
<1>4. CASE ~(x.topic = ClaimRelease /\ x.path = p)
  <2>1. Sent(p)' = Sent(p)
    BY <1>1, <1>4 DEF Sent
  <2> QED BY <1>4, <2>1, SentFinite
<1> QED BY <1>3, <1>4

\* A step that releases nothing and sends no release, by tasks that are not
\* about to send one either before or after it, keeps the count.
LEMMA CountUnchanged ==
  ASSUME TypeInv, NEW p \in Paths, AnnounceInv(p),
         Pending(p)' = Pending(p), freed'[p] = freed[p],
         \/ log' = log
         \/ \E x \in BroadcastMsg :
              log' = Append(log, x) /\ ~(x.topic = ClaimRelease /\ x.path = p)
  PROVE  AnnounceInv(p)'
<1>1. Cardinality(Sent(p)') = Cardinality(Sent(p))
  <2>1. CASE log' = log
    BY <2>1 DEF Sent
  <2>2. CASE \E x \in BroadcastMsg :
              log' = Append(log, x) /\ ~(x.topic = ClaimRelease /\ x.path = p)
    BY <2>2, SentOneMore, SentFinite
  <2> QED BY <2>1, <2>2
<1> QED BY <1>1 DEF AnnounceInv

\* A task that is not past the removal of a claim, before and after the step.
Elsewhere(c) ==
  pc[c] \in {"signal", "send"} => req[c].op # "claim_release"

\* If only c's task moves and it owes nothing, those who owe a message are the same.
LEMMA OthersPending ==
  ASSUME NEW c \in Conns, NEW p \in Paths, Elsewhere(c), Elsewhere(c)',
         \A d \in Conns \ {c} : pc'[d] = pc[d] /\ req'[d] = req[d]
  PROVE  Pending(p)' = Pending(p)
<1>1. \A d \in Conns : d \in Pending(p)' <=> d \in Pending(p)
  BY DEF Pending, Elsewhere
<1>2. Pending(p)' \subseteq Conns /\ Pending(p) \subseteq Conns
  BY DEF Pending
<1> QED BY <1>1, <1>2

\* A forced acquire announces the eviction before it lets the lock go.
LEMMA AcquireAnnounces ==
  ASSUME TypeInv, TypeInv', NEW c \in Conns, NEW q \in Paths, AnnounceInv(q), Acquire(c)
  PROVE  AnnounceInv(q)'
<1> DEFINE p == req[c].path
           table == PruneExpired(claims, now[c])
           foreign == table[p] # None /\ table[p].sid # session[c]
<1>1. p \in Paths /\ req[c].op = "claim_acquire" /\ pc[c] = "lock" /\ now[c] \in Nat
  BY MessageFields DEF Acquire, Locked, TypeInv, TypeOK, HandlerOK
<1>2. Pending(q)' = Pending(q)
  <2>1. Elsewhere(c) /\ Elsewhere(c)'
    BY <1>1 DEF Elsewhere, Acquire, Continue, Refuse, Finish, TypeInv, TypeOK
  <2>2. \A d \in Conns \ {c} : pc'[d] = pc[d] /\ req'[d] = req[d]
    BY DEF Acquire, Continue, Refuse, Finish, TypeInv, TypeOK
  <2> QED BY <2>1, <2>2, OthersPending
<1>3. CASE foreign /\ (req[c].force)
  <2>1. /\ log' = Append(log, [topic |-> ClaimRelease, path |-> p, sid |-> table[p].sid])
        /\ freed' = [freed EXCEPT ![p] = @ + 1]
    BY <1>3 DEF Acquire, Broadcast
  <2> DEFINE x == [topic |-> ClaimRelease, path |-> p, sid |-> table[p].sid]
  <2>2. table \in [Paths -> ClaimRecord \cup {None}]
    BY <1>1, PruneTyped DEF TypeInv, TypeOK
  <2>3. x \in BroadcastMsg
    BY <1>1, <1>3, <2>2 DEF BroadcastMsg, ClaimRecord
  <2>4. x.topic = ClaimRelease /\ x.path = p
    OBVIOUS
  <2>5. freed'[q] = freed[q] + (IF p = q THEN 1 ELSE 0) /\ freed[q] \in Nat
    BY <1>1, <2>1 DEF TypeInv, TypeOK
  <2> HIDE DEF x, table
  <2>6. Cardinality(Sent(q)') = Cardinality(Sent(q)) + (IF p = q THEN 1 ELSE 0)
    BY <2>1, <2>3, <2>4, SentOneMore DEF x
  <2>7. Cardinality(Sent(q)) \in Nat /\ Cardinality(Pending(q)) \in Nat
    BY SentFinite, FS_CardinalityType DEF AnnounceInv
  <2> QED BY <1>2, <2>5, <2>6, <2>7 DEF AnnounceInv
<1>4. CASE ~(foreign /\ req[c].force)
  <2>1. log' = log /\ freed' = freed
    BY <1>4 DEF Acquire
  <2> QED BY <1>2, <2>1, CountUnchanged
<1> QED BY <1>3, <1>4

\* A release that removed a claim owes a message from then on.
LEMMA ReleaseOwes ==
  ASSUME TypeInv, NEW c \in Conns, NEW q \in Paths, AnnounceInv(q), Release(c)
  PROVE  AnnounceInv(q)'
<1> DEFINE p == req[c].path
           table == PruneExpired(claims, now[c])
           released == table[p] # None /\ table[p].sid = session[c]
<1>1. p \in Paths /\ req[c].op = "claim_release" /\ pc[c] = "lock"
  BY MessageFields DEF Release, Locked, TypeInv, TypeOK, HandlerOK
<1>2. log' = log
  BY DEF Release
<1>3. CASE released
  <2>1. /\ Continue(c, req[c], "signal")
        /\ freed' = [freed EXCEPT ![p] = @ + 1]
    BY <1>3 DEF Release
  <2> HIDE DEF released, table
  <2>2. CASE q = p
    <3>1. c \notin Pending(q) /\ Pending(q)' = Pending(q) \cup {c}
      BY <1>1, <2>1, <2>2 DEF Continue, Pending, TypeInv, TypeOK
    <3>2. /\ IsFiniteSet(Pending(q)')
          /\ Cardinality(Pending(q)') = Cardinality(Pending(q)) + 1
      BY <3>1, FS_AddElement DEF AnnounceInv
    <3>3. freed'[q] = freed[q] + 1 /\ freed[q] \in Nat
      BY <2>1, <2>2 DEF TypeInv, TypeOK
    <3>4. Sent(q)' = Sent(q)
      BY <1>2 DEF Sent
    <3>5. Cardinality(Sent(q)) \in Nat /\ Cardinality(Pending(q)) \in Nat
      BY SentFinite, FS_CardinalityType DEF AnnounceInv
    <3> QED BY <3>2, <3>3, <3>4, <3>5 DEF AnnounceInv
  <2>3. CASE q # p
    <3>1. Pending(q)' = Pending(q)
      BY <1>1, <2>1, <2>3 DEF Continue, Pending, TypeInv, TypeOK
    <3>2. freed'[q] = freed[q]
      BY <1>1, <2>1, <2>3 DEF TypeInv, TypeOK
    <3> QED BY <1>2, <3>1, <3>2, CountUnchanged
  <2> QED BY <2>2, <2>3
<1>4. CASE ~released
  <2>1. Answer(c) /\ freed' = freed
    BY <1>4 DEF Release
  <2>2. Pending(q)' = Pending(q)
    BY <1>1, <2>1 DEF Answer, Finish, Pending, TypeInv, TypeOK
  <2> QED BY <1>2, <2>1, <2>2, CountUnchanged
<1> QED BY <1>3, <1>4

\* The send pays what is owed.
LEMMA SendPays ==
  ASSUME TypeInv, NEW c \in Conns, NEW q \in Paths, AnnounceInv(q), Send(c)
  PROVE  AnnounceInv(q)'
<1> DEFINE p == req[c].path
           topic == IF req[c].op = "claim_acquire" THEN ClaimAcquire ELSE ClaimRelease
           x == [topic |-> topic, path |-> p, sid |-> session[c]]
<1>1. /\ p \in Paths /\ req[c].op \in {"claim_acquire", "claim_release"} /\ pc[c] = "send"
      /\ session[c] \in Sessions
  BY MessageFields DEF Send, TypeInv, HandlerOK
<1>2. log' = Append(log, x) /\ Answer(c) /\ freed' = freed
  BY DEF Send, Broadcast, historyVars
<1>3. x \in BroadcastMsg /\ x.path = p
  BY <1>1 DEF BroadcastMsg
<1>4. x.topic = ClaimRelease <=> req[c].op = "claim_release"
  BY <1>1 DEF ClaimAcquire, ClaimRelease
<1> HIDE DEF x
<1>5. CASE req[c].op = "claim_release" /\ p = q
  <2>1. c \in Pending(q) /\ Pending(q)' = Pending(q) \ {c}
    BY <1>1, <1>2, <1>5 DEF Answer, Finish, Pending, TypeInv, TypeOK
  <2>2. /\ IsFiniteSet(Pending(q)')
        /\ Cardinality(Pending(q)') = Cardinality(Pending(q)) - 1
    BY <2>1, FS_RemoveElement DEF AnnounceInv
  <2>3. Cardinality(Sent(q)') = Cardinality(Sent(q)) + 1
    BY <1>2, <1>3, <1>4, <1>5, SentOneMore
  <2>4. Cardinality(Sent(q)) \in Nat /\ Cardinality(Pending(q)) \in Nat
    BY SentFinite, FS_CardinalityType DEF AnnounceInv
  <2> QED BY <1>2, <2>2, <2>3, <2>4 DEF AnnounceInv
<1>6. CASE ~(req[c].op = "claim_release" /\ p = q)
  <2>1. Pending(q)' = Pending(q)
    BY <1>1, <1>2, <1>6 DEF Answer, Finish, Pending, TypeInv, TypeOK
  <2> QED BY <1>2, <1>3, <1>4, <1>6, <2>1, CountUnchanged
<1> QED BY <1>5, <1>6

\* Every step keeps the count of what was removed and what was announced.
THEOREM AnnounceStep ==
  TypeInv /\ (\A q \in Paths : AnnounceInv(q)) /\ [Next]_vars
    => (\A q \in Paths : AnnounceInv(q))'
<1> SUFFICES ASSUME TypeInv, \A q \in Paths : AnnounceInv(q), [Next]_vars, NEW q \in Paths
             PROVE  AnnounceInv(q)'
  OBVIOUS
<1> DEFINE Only(c) == \A d \in Conns \ {c} : pc'[d] = pc[d] /\ req'[d] = req[d]
<1>0. TypeInv'
  BY TypeStep
<1>1. ASSUME NEW c \in Conns,
             \/ Accept(c) \/ Hangup(c) \/ Eof(c) \/ Lagged(c) \/ Deliver(c) \/ Drain(c)
             \/ Cleanup(c) \/ Abort(c) \/ Reply(c) \/ Bail(c)
      PROVE  AnnounceInv(q)'
  <2>1. UNCHANGED <<log, req, freed>>
    BY <1>1 DEF Accept, Hangup, Eof, Lagged, Deliver, Drain, Cleanup, Abort, Reply, Bail,
         historyVars
  <2>2. pc' = pc \/ (pc[c] \notin {"signal", "send"} /\ pc'[c] \notin {"signal", "send"})
    BY <1>1 DEF Accept, Hangup, Eof, Lagged, Deliver, Drain, Cleanup, Abort, Reply, Bail,
         TypeInv, TypeOK
  <2>3. \A d \in Conns \ {c} : pc'[d] = pc[d]
    BY <1>1 DEF Accept, Hangup, Eof, Lagged, Deliver, Drain, Cleanup, Abort, Reply, Bail,
         TypeInv, TypeOK
  <2>4. Pending(q)' = Pending(q)
    BY <2>1, <2>2, <2>3 DEF Pending
  <2> QED BY <2>1, <2>4, CountUnchanged
<1>2. ASSUME NEW c \in Conns, NEW m \in Messages,
             \/ ReadError(c, m) \/ Reject(c, m) \/ UplinkStatus(c, m) \/ AlreadyAnnounced(c, m)
             \/ TooManyPaths(c, m) \/ Announce(c, m) \/ Update(c, m) \/ Heartbeat(c, m)
             \/ Subscribe(c, m) \/ ReadClock(c, m)
      PROVE  AnnounceInv(q)'
  <2>1. log' = log /\ freed' = freed /\ pc[c] = "idle"
    BY <1>2 DEF ReadError, Reject, UplinkStatus, AlreadyAnnounced, TooManyPaths, Announce, Update,
         Heartbeat, Subscribe, ReadClock, ReadLine, historyVars
  <2>2. Only(c)
    BY <1>2 DEF ReadError, Reject, UplinkStatus, AlreadyAnnounced, TooManyPaths, Announce, Update,
         Heartbeat, Subscribe, ReadClock, Continue, Answer, Refuse, Finish, TypeInv, TypeOK
  <2>3. pc'[c] # "send" /\ (pc'[c] = "signal" => req'[c] = m /\ m.op = "heartbeat")
    BY <1>2 DEF ReadError, Reject, UplinkStatus, AlreadyAnnounced, TooManyPaths, Announce, Update,
         Heartbeat, Subscribe, ReadClock, Continue, Answer, Refuse, Finish, TypeInv, TypeOK
  <2>4. Elsewhere(c) /\ Elsewhere(c)'
    BY <2>1, <2>3 DEF Elsewhere
  <2> QED BY <2>1, <2>2, <2>4, OthersPending, CountUnchanged
<1>3. ASSUME NEW c \in Conns, NEW m \in Messages, Publish(c, m) PROVE AnnounceInv(q)'
  <2> DEFINE x == [topic |-> m.topic, path |-> None, sid |-> session[c]]
  <2>1. /\ log' = Append(log, x) /\ freed' = freed /\ pc[c] = "idle"
        /\ Continue(c, m, "lock")
    BY <1>3 DEF Publish, ReadLine, Broadcast, historyVars
  <2>2. x \in BroadcastMsg /\ x.path # q
    <3>1. m.topic \in Topics /\ session[c] \in Sessions
      BY <1>3, MessagesAssumption, MessageFields DEF Publish, TypeInv, TypeOK
    <3> QED BY <3>1, AbsenceAssumption DEF BroadcastMsg
  <2> HIDE DEF x
  <2>3. Pending(q)' = Pending(q)
    <3>1. Only(c) /\ Elsewhere(c) /\ Elsewhere(c)'
      BY <2>1 DEF Elsewhere, Continue, TypeInv, TypeOK
    <3> QED BY <3>1, OthersPending
  <2>4. ~(x.topic = ClaimRelease /\ x.path = q) /\ freed'[q] = freed[q]
    BY <2>1, <2>2
  <2>5. \E y \in BroadcastMsg :
          log' = Append(log, y) /\ ~(y.topic = ClaimRelease /\ y.path = q)
    BY <2>1, <2>2, <2>4
  <2> QED BY <2>3, <2>4, <2>5, CountUnchanged
<1>4. ASSUME NEW c \in Conns, PublishTouch(c) \/ PeersList(c) \/ List(c)
      PROVE  AnnounceInv(q)'
  <2>1. log' = log /\ freed' = freed /\ pc[c] = "lock" /\ Answer(c)
    BY <1>4 DEF PublishTouch, PeersList, List, Locked, historyVars
  <2>2. Only(c) /\ Elsewhere(c) /\ Elsewhere(c)'
    BY <2>1 DEF Elsewhere, Answer, Finish, TypeInv, TypeOK
  <2> QED BY <2>1, <2>2, OthersPending, CountUnchanged
<1>5. ASSUME NEW c \in Conns, Signal(c) PROVE AnnounceInv(q)'
  <2>1. log' = log /\ freed' = freed
    BY <1>5 DEF Signal, historyVars
  <2>2. Pending(q)' = Pending(q)
    <3>1. CASE req[c].op = "heartbeat"
      <4>1. Only(c) /\ Elsewhere(c) /\ Elsewhere(c)'
        BY <1>5, <3>1 DEF Signal, Elsewhere, Answer, Finish, TypeInv, TypeOK
      <4> QED BY <4>1, OthersPending
    <3>2. CASE req[c].op # "heartbeat"
      <4>1. /\ req' = req /\ pc[c] = "signal"
            /\ pc' = [pc EXCEPT ![c] = "send"]
        BY <1>5, <3>2 DEF Signal, Continue, TypeInv, TypeOK
      <4>2. \A d \in Conns :
              pc'[d] \in {"signal", "send"} <=> pc[d] \in {"signal", "send"}
        BY <4>1 DEF TypeInv, TypeOK
      <4> QED BY <4>1, <4>2 DEF Pending
    <3> QED BY <3>1, <3>2
  <2> QED BY <2>1, <2>2, CountUnchanged
<1>6. ASSUME NEW c \in Conns, Acquire(c) \/ Release(c) \/ Send(c) PROVE AnnounceInv(q)'
  BY <1>6, <1>0, AcquireAnnounces, ReleaseOwes, SendPays
<1>7. ASSUME PersistTask \/ Main \/ Stopped \/ Tick \/ UNCHANGED vars
      PROVE  AnnounceInv(q)'
  <2>1. UNCHANGED <<pc, req, log, freed>>
    BY <1>7 DEF PersistTask, PersistRecv, PersistDrain, PersistSnapshot, PersistSave, persistElse, Main, Shutdown,
         AbortAll, FinalSnapshot, FinalSave, Exit, daemonElse, Stopped, Tick, vars, connVars, historyVars
  <2>2. Pending(q)' = Pending(q)
    BY <2>1 DEF Pending
  <2> QED BY <2>1, <2>2, CountUnchanged
<1> QED BY <1>1, <1>2, <1>3, <1>4, <1>5, <1>6, <1>7 DEF Next, HandleLine, Proceed

\* Every claim that a release or an eviction removed is announced exactly once, or
\* about to be, for any number of connections and paths.
THEOREM Announced == Spec => []ReleasesAnnounced
<1> DEFINE Inv == \A p \in Paths : AnnounceInv(p)
<1>1. Init => Inv
  <2> SUFFICES ASSUME Init, NEW p \in Paths PROVE AnnounceInv(p)
    OBVIOUS
  <2>1. Sent(p) = {} /\ Pending(p) = {} /\ freed[p] = 0
    BY DEF Init, Sent, Pending
  <2> QED BY <2>1, FS_EmptySet DEF AnnounceInv
<1>2. TypeInv /\ Inv /\ [Next]_vars => Inv'
  BY AnnounceStep
<1>3. Inv => ReleasesAnnounced
  BY DEF ReleasesAnnounced, AnnounceInv, Sent, Pending
<1> HIDE DEF Inv
<1> QED BY <1>1, <1>2, <1>3, TypeInvariant, PTL DEF Spec
=============================================================================
