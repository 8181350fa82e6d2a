--------------------------- MODULE BusTypeProofs ---------------------------
(***************************************************************************)
(* The type invariant of Bus, for every set of connections, sessions,      *)
(* paths, topics and messages, and every capacity and bound.  TypeOK is    *)
(* not inductive: a handler past the lock uses req[c] and session[c] as a  *)
(* message and a session, which HandlerOK adds.                            *)
(***************************************************************************)
EXTENDS Bus, TLAPS

\* A task past the reading of its line knows its message and its session, and
\* the labels after the lock are reached by the ops that go there.
HandlerOK ==
  \A c \in Conns :
    /\ pc[c] \in {"lock", "signal", "send"} =>
         req[c] \in ClientMessage /\ session[c] \in Sessions
    /\ pc[c] = "signal" => req[c].op \in {"heartbeat", "claim_acquire", "claim_release"}
    /\ pc[c] = "send" => req[c].op \in {"claim_acquire", "claim_release"}

TypeInv == TypeOK /\ HandlerOK

\* What the op of a message says about its other fields.
LEMMA MessageFields ==
  ASSUME NEW m \in ClientMessage
  PROVE  /\ m.op = "announce" => m.sid \in Sessions
         /\ m.op = "heartbeat" => /\ m.set \in [Fields -> Sticky \cup {Absent}]
                                  /\ m.oversized \in BOOLEAN
         /\ m.op = "publish" => m.topic \in Topics
         /\ m.op = "subscribe" => m.prefix \in Prefixes
         /\ m.op = "claim_acquire" =>
              m.path \in Paths /\ m.ttl \in Nat /\ m.force \in BOOLEAN
         /\ m.op = "claim_release" => m.path \in Paths
BY DEF ClientMessage

\* Pruning a claims table gives a claims table.
LEMMA PruneTyped ==
  ASSUME NEW cl \in [Paths -> ClaimRecord \cup {None}], NEW t \in Nat
  PROVE  PruneExpired(cl, t) \in [Paths -> ClaimRecord \cup {None}]
BY DEF PruneExpired

\* So do the two updates of the peer table by handlers.
LEMMA TouchTyped ==
  ASSUME NEW pr \in [Sessions -> PeerRecord \cup {None}], NEW s \in Sessions, NEW t \in Nat
  PROVE  Touch(pr, s, t) \in [Sessions -> PeerRecord \cup {None}]
BY DEF Touch, PeerRecord

\* ... and the pruning of silent peers.
LEMMA StaleTyped ==
  ASSUME NEW pr \in [Sessions -> PeerRecord \cup {None}], NEW t \in Nat
  PROVE  PruneStale(pr, t) \in [Sessions -> PeerRecord \cup {None}]
BY DEF PruneStale

\* The daemon starts well typed, whatever well-formed journal it finds.
THEOREM TypeInit == Init => TypeInv
BY JournaledAssumption, NumbersAssumption, PruneTyped
DEF Init, TypeInv, TypeOK, HandlerOK, DurableState, StickyIntent, Sticky, NoIntent,
    PruneExpired, BroadcastMsg

\* Writing an event appends a position to out[c] and never enters a label of handle_line.
LEMMA DeliverTyped ==
  ASSUME TypeInv, NEW c \in Conns, Deliver(c)
  PROVE  TypeInv'
<1>1. rx[c] \in Nat /\ out[c] \in Seq(Nat)
  BY DEF TypeInv, TypeOK
<1>2. out' \in [Conns -> Seq(Nat)] /\ rx' \in [Conns -> Nat]
  BY <1>1 DEF Deliver, TypeInv, TypeOK
<1>3. /\ pc' \in [Conns -> {"new", "idle", "lock", "signal", "send", "reply", "error", "bail",
                       "cleanup", "closed", "failed", "aborted"}]
      /\ \A d \in Conns : pc'[d] \in {"lock", "signal", "send"} => pc'[d] = pc[d]
  BY DEF Deliver, TypeInv, TypeOK
<1> QED BY <1>2, <1>3 DEF TypeInv, TypeOK, HandlerOK, Deliver, stateVars, persistVars

\* The owner's new record carries the clock and no sticky intent.
LEMMA AnnounceTyped ==
  ASSUME TypeInv, NEW c \in Conns, NEW m \in Messages, Announce(c, m)
  PROVE  TypeInv'
<1>1. m.sid \in Sessions
  BY MessagesAssumption, MessageFields DEF Announce
<1>2. /\ peers' \in [Sessions -> PeerRecord \cup {None}]
      /\ peer_owners' \in [Sessions -> Conns \cup {None}]
  <2>1. NoIntent \in StickyIntent
    BY DEF NoIntent, StickyIntent, Sticky
  <2>2. [hb |-> clock, sticky |-> NoIntent] \in PeerRecord
    BY <2>1 DEF TypeInv, TypeOK, PeerRecord
  <2> QED BY <1>1, <2>2 DEF Announce, TypeInv, TypeOK
<1> QED BY <1>1, <1>2 
  DEF TypeInv, TypeOK, HandlerOK, Announce, ReadLine, Answer, Finish,
      persistVars, historyVars

\* Sticky fields a heartbeat leaves out keep the values of the record.
LEMMA HeartbeatTyped ==
  ASSUME TypeInv, NEW c \in Conns, NEW m \in Messages, Heartbeat(c, m)
  PROVE  TypeInv'
<1> DEFINE s == session[c]
           old == peers[s].sticky
           new == [f \in Fields |-> IF m.set[f] = Absent THEN old[f] ELSE m.set[f]]
           changed == peers[s] # None /\ new # old
<1>1. /\ m \in ClientMessage
      /\ m.op = "heartbeat"
      /\ m.set \in [Fields -> Sticky \cup {Absent}]
      /\ s \in Sessions
  BY MessagesAssumption, MessageFields DEF Heartbeat, TypeInv, TypeOK
<1>2. peers[s] # None => new \in StickyIntent
  BY <1>1 DEF TypeInv, TypeOK, PeerRecord, StickyIntent
<1>3. /\ peers' = IF peers[s] = None THEN peers
                  ELSE [peers EXCEPT ![s] = [hb |-> clock, sticky |-> new]]
      /\ intents' = IF changed THEN [intents EXCEPT ![s] = new] ELSE intents
  BY DEF Heartbeat
<1>4. /\ peers' \in [Sessions -> PeerRecord \cup {None}]
      /\ intents' \in [Sessions -> StickyIntent]
  <2> HIDE DEF new
  <2> QED BY <1>1, <1>2, <1>3 DEF TypeInv, TypeOK, PeerRecord
<1>5. CASE changed
  <2>1. Continue(c, m, "signal") /\ now' = now
    BY <1>5 DEF Heartbeat
  <2> HIDE DEF new
  <2> QED BY <1>1, <1>4, <2>1 
          DEF TypeInv, TypeOK, HandlerOK, Heartbeat, ReadLine, Continue,
              persistVars, historyVars
<1>6. CASE ~changed
  <2>1. Answer(c)
    BY <1>6 DEF Heartbeat
  <2> HIDE DEF new
  <2> QED BY <1>4, <2>1 
          DEF TypeInv, TypeOK, HandlerOK, Heartbeat, ReadLine, Answer, Finish,
              persistVars, historyVars
<1> QED BY <1>5, <1>6

\* An acquire inserts a well-formed claim, and announces the one it evicts.
LEMMA AcquireTyped ==
  ASSUME TypeInv, NEW c \in Conns, Acquire(c)
  PROVE  TypeInv'
<1> DEFINE p == req[c].path
           s == session[c]
           table == PruneExpired(claims, now[c])
           foreign == table[p] # None /\ table[p].sid # s
<1>1. /\ req[c] \in ClientMessage
      /\ req[c].op = "claim_acquire"
      /\ p \in Paths
      /\ req[c].ttl \in Nat
      /\ s \in Sessions
      /\ now[c] \in Nat
  BY MessageFields DEF Acquire, Locked, TypeInv, TypeOK, HandlerOK
<1>2. table \in [Paths -> ClaimRecord \cup {None}]
  BY <1>1, PruneTyped DEF TypeInv, TypeOK
<1>3. CASE foreign /\ ~req[c].force
  <2>1. Refuse(c) /\ claims' = table /\ peers' = peers /\ log' = log /\ freed' = freed
    BY <1>3 DEF Acquire
  <2> HIDE DEF table
  <2> QED BY <1>2, <2>1
       DEF TypeInv, TypeOK, HandlerOK, Acquire, Refuse, Finish, persistVars
<1>4. CASE ~(foreign /\ ~req[c].force)
  <2>1. /\ Continue(c, req[c], "signal")
        /\ now' = now
        /\ claims' = [table EXCEPT ![p] = [sid |-> s, ttl |-> req[c].ttl]]
        /\ peers' = Touch(peers, s, now[c])
    BY <1>4 DEF Acquire
  <2> HIDE DEF table
  <2>2. claims' \in [Paths -> ClaimRecord \cup {None}]
    BY <1>1, <1>2, <2>1 DEF ClaimRecord
  <2>3. peers' \in [Sessions -> PeerRecord \cup {None}]
    BY <1>1, <2>1, TouchTyped DEF TypeInv, TypeOK
  <2>4. log' \in Seq(BroadcastMsg) /\ freed' \in [Paths -> Nat]
    <3>1. CASE foreign
      <4>1. /\ log' = Append(log, [topic |-> ClaimRelease, path |-> p, sid |-> table[p].sid])
            /\ freed' = [freed EXCEPT ![p] = @ + 1]
        BY <1>4, <3>1 DEF Acquire, Broadcast, table
      <4>2. [topic |-> ClaimRelease, path |-> p, sid |-> table[p].sid] \in BroadcastMsg
        BY <1>1, <1>2, <3>1 DEF BroadcastMsg, ClaimRecord
      <4> QED BY <1>1, <4>1, <4>2 DEF TypeInv, TypeOK
    <3>2. CASE ~foreign
      <4>1. log' = log /\ freed' = freed
        BY <1>4, <3>2 DEF Acquire, table
      <4> QED BY <4>1 DEF TypeInv, TypeOK
    <3> QED BY <3>1, <3>2
  <2> QED BY <1>1, <2>1, <2>2, <2>3, <2>4
       DEF TypeInv, TypeOK, HandlerOK, Acquire, Continue, persistVars
<1> QED BY <1>3, <1>4

\* A release removes one claim from the pruned table.
LEMMA ReleaseTyped ==
  ASSUME TypeInv, NEW c \in Conns, Release(c)
  PROVE  TypeInv'
<1> DEFINE p == req[c].path
           table == PruneExpired(claims, now[c])
           released == table[p] # None /\ table[p].sid = session[c]
<1>1. /\ req[c] \in ClientMessage
      /\ req[c].op = "claim_release"
      /\ p \in Paths
      /\ session[c] \in Sessions
      /\ now[c] \in Nat
  BY MessageFields DEF Release, Locked, TypeInv, TypeOK, HandlerOK
<1>2. table \in [Paths -> ClaimRecord \cup {None}]
  BY <1>1, PruneTyped DEF TypeInv, TypeOK
<1>3. peers' \in [Sessions -> PeerRecord \cup {None}]
  BY <1>1, TouchTyped DEF Release, TypeInv, TypeOK
<1>4. CASE released
  <2>1. /\ Continue(c, req[c], "signal")
        /\ now' = now
        /\ claims' = [table EXCEPT ![p] = None]
        /\ freed' = [freed EXCEPT ![p] = @ + 1]
    BY <1>4 DEF Release
  <2> HIDE DEF table
  <2>2. claims' \in [Paths -> ClaimRecord \cup {None}] /\ freed' \in [Paths -> Nat]
    BY <1>1, <1>2, <2>1 DEF TypeInv, TypeOK
  <2> QED BY <1>1, <1>3, <2>1, <2>2
       DEF TypeInv, TypeOK, HandlerOK, Release, Continue, persistVars
<1>5. CASE ~released
  <2>1. Answer(c) /\ claims' = table /\ freed' = freed
    BY <1>5 DEF Release
  <2> HIDE DEF table
  <2> QED BY <1>2, <1>3, <2>1
       DEF TypeInv, TypeOK, HandlerOK, Release, Answer, Finish, persistVars
<1> QED BY <1>4, <1>5

\* A signal fits in the channel; only claims go on to the broadcast.
LEMMA SignalTyped ==
  ASSUME TypeInv, NEW c \in Conns, Signal(c)
  PROVE  TypeInv'
<1>1. signals' \in 0..PersistCapacity
  BY NumbersAssumption DEF Signal, TrySend, TypeInv, TypeOK
<1>2. req[c] \in ClientMessage /\ session[c] \in Sessions
  BY DEF Signal, TypeInv, HandlerOK
<1>3. CASE req[c].op = "heartbeat"
  <2>1. Answer(c)
    BY <1>3 DEF Signal
  <2> QED BY <1>1, <2>1
       DEF TypeInv, TypeOK, HandlerOK, Signal, Answer, Finish, stateVars,
           historyVars
<1>4. CASE req[c].op # "heartbeat"
  <2>1. req[c].op \in {"claim_acquire", "claim_release"}
    BY <1>4 DEF Signal, TypeInv, HandlerOK
  <2>2. pc' = [pc EXCEPT ![c] = "send"] /\ req' = [req EXCEPT ![c] = req[c]] /\ now' = now
    BY <1>4 DEF Signal, Continue
  <2>3. TypeOK'
    BY <1>1, <1>2, <2>2 DEF TypeInv, TypeOK, Signal, stateVars, historyVars
  <2>4. HandlerOK'
    BY <1>2, <2>1, <2>2 DEF TypeInv, TypeOK, HandlerOK, Signal
  <2> QED BY <2>3, <2>4 DEF TypeInv
<1> QED BY <1>3, <1>4

\* Every step of the daemon keeps the strengthened type invariant.
THEOREM TypeStep == TypeInv /\ [Next]_vars => TypeInv'
<1> SUFFICES ASSUME TypeInv, [Next]_vars PROVE TypeInv'
  OBVIOUS
<1>1. ASSUME NEW c \in Conns, Accept(c) PROVE TypeInv'
  BY <1>1 DEF TypeInv, TypeOK, HandlerOK, Accept, stateVars, persistVars, historyVars
<1>2. ASSUME NEW c \in Conns, Hangup(c) PROVE TypeInv'
  BY <1>2 DEF TypeInv, TypeOK, HandlerOK, Hangup, stateVars, persistVars, historyVars
<1>3. ASSUME NEW c \in Conns, Eof(c) PROVE TypeInv'
  BY <1>3 DEF TypeInv, TypeOK, HandlerOK, Eof, stateVars, persistVars, historyVars
<1>4. ASSUME NEW c \in Conns, Cleanup(c) PROVE TypeInv'
  <2>1. /\ peers' \in [Sessions -> PeerRecord \cup {None}]
        /\ peer_owners' \in [Sessions -> Conns \cup {None}]
    BY <1>4 DEF Cleanup, TypeInv, TypeOK
  <2> QED BY <1>4, <2>1
       DEF TypeInv, TypeOK, HandlerOK, Cleanup, persistVars, historyVars
<1>5. ASSUME NEW c \in Conns, Lagged(c) PROVE TypeInv'
  BY <1>5, NumbersAssumption DEF TypeInv, TypeOK, HandlerOK, Lagged, stateVars,
     persistVars
<1>6. ASSUME NEW c \in Conns, Deliver(c) PROVE TypeInv'
  BY <1>6, DeliverTyped
<1>7. ASSUME NEW c \in Conns, Drain(c) PROVE TypeInv'
  BY <1>7 DEF TypeInv, TypeOK, HandlerOK, Drain, stateVars, persistVars, historyVars
<1>8. ASSUME NEW c \in Conns, Abort(c) PROVE TypeInv'
  BY <1>8 DEF TypeInv, TypeOK, HandlerOK, Abort, stateVars, persistVars, historyVars
<1>9. ASSUME NEW c \in Conns, NEW m \in Messages, Reject(c, m) PROVE TypeInv'
  BY <1>9 DEF TypeInv, TypeOK, HandlerOK, Reject, ReadLine, stateVars, persistVars,
     historyVars
<1>37. ASSUME NEW c \in Conns, NEW m \in Messages, ReadError(c, m) PROVE TypeInv'
  BY <1>37 DEF TypeInv, TypeOK, HandlerOK, ReadError, ReadLine, stateVars, persistVars,
     historyVars
<1>10. ASSUME NEW c \in Conns, NEW m \in Messages, UplinkStatus(c, m) PROVE TypeInv'
  BY <1>10 DEF TypeInv, TypeOK, HandlerOK, UplinkStatus, ReadLine, Answer, stateVars,
     persistVars, historyVars, Finish
<1>11. ASSUME NEW c \in Conns, NEW m \in Messages, AlreadyAnnounced(c, m) PROVE TypeInv'
  BY <1>11 DEF TypeInv, TypeOK, HandlerOK, AlreadyAnnounced, ReadLine, Refuse,
     stateVars, persistVars, historyVars, Finish
<1>12. ASSUME NEW c \in Conns, NEW m \in Messages, TooManyPaths(c, m) PROVE TypeInv'
  BY <1>12 DEF TypeInv, TypeOK, HandlerOK, TooManyPaths, ReadLine, Refuse, stateVars,
     persistVars, historyVars, Finish
<1>13. ASSUME NEW c \in Conns, NEW m \in Messages, Announce(c, m) PROVE TypeInv'
  BY <1>13, AnnounceTyped
<1>14. ASSUME NEW c \in Conns, NEW m \in Messages, Update(c, m) PROVE TypeInv'
  <2>1. peers' \in [Sessions -> PeerRecord \cup {None}]
    BY <1>14, TouchTyped DEF Update, TypeInv, TypeOK
  <2> QED BY <1>14, <2>1
       DEF TypeInv, TypeOK, HandlerOK, Update, ReadLine, Answer, Finish,
           persistVars, historyVars
<1>15. ASSUME NEW c \in Conns, NEW m \in Messages, Heartbeat(c, m) PROVE TypeInv'
  BY <1>15, HeartbeatTyped
<1>16. ASSUME NEW c \in Conns, NEW m \in Messages, Subscribe(c, m) PROVE TypeInv'
  BY <1>16, MessagesAssumption, MessageFields DEF TypeInv, TypeOK, HandlerOK, Subscribe,
     ReadLine, Answer, stateVars, persistVars, Finish
<1>17. ASSUME NEW c \in Conns, NEW m \in Messages, Publish(c, m) PROVE TypeInv'
  BY <1>17, MessagesAssumption, MessageFields DEF TypeInv, TypeOK, HandlerOK, Publish,
     ReadLine, Continue, Broadcast, stateVars, persistVars, historyVars, BroadcastMsg
<1>18. ASSUME NEW c \in Conns, NEW m \in Messages, ReadClock(c, m) PROVE TypeInv'
  BY <1>18, MessagesAssumption DEF TypeInv, TypeOK, HandlerOK, ReadClock, ReadLine,
     Continue, stateVars, persistVars, historyVars
<1>19. ASSUME NEW c \in Conns, PublishTouch(c) PROVE TypeInv'
  <2>1. peers' \in [Sessions -> PeerRecord \cup {None}]
    BY <1>19, TouchTyped DEF PublishTouch, Locked, TypeInv, TypeOK, HandlerOK
  <2> QED BY <1>19, <2>1
       DEF TypeInv, TypeOK, HandlerOK, PublishTouch, Answer, Finish, persistVars,
           historyVars
<1>20. ASSUME NEW c \in Conns, PeersList(c) PROVE TypeInv'
  BY <1>20, StaleTyped DEF TypeInv, TypeOK, HandlerOK, PeersList, Locked, Answer,
     persistVars, historyVars, Finish
<1>21. ASSUME NEW c \in Conns, Acquire(c) PROVE TypeInv'
  BY <1>21, AcquireTyped
<1>22. ASSUME NEW c \in Conns, Release(c) PROVE TypeInv'
  BY <1>22, ReleaseTyped
<1>23. ASSUME NEW c \in Conns, List(c) PROVE TypeInv'
  BY <1>23, PruneTyped DEF TypeInv, TypeOK, HandlerOK, List, Locked, Answer,
     persistVars, historyVars, Finish
<1>24. ASSUME NEW c \in Conns, Signal(c) PROVE TypeInv'
  BY <1>24, SignalTyped
<1>25. ASSUME NEW c \in Conns, Send(c) PROVE TypeInv'
  BY <1>25, MessageFields DEF TypeInv, TypeOK, HandlerOK, Send, Broadcast, ClaimAcquire,
     ClaimRelease, Answer, stateVars, persistVars, historyVars, Finish, BroadcastMsg
<1>26. ASSUME NEW c \in Conns, Reply(c) PROVE TypeInv'
  BY <1>26 DEF TypeInv, TypeOK, HandlerOK, Reply, stateVars, persistVars, historyVars
<1>27. ASSUME NEW c \in Conns, Bail(c) PROVE TypeInv'
  BY <1>27 DEF TypeInv, TypeOK, HandlerOK, Bail, stateVars, persistVars, historyVars
<1>28. CASE PersistRecv
  BY <1>28, NumbersAssumption DEF TypeInv, TypeOK, HandlerOK, PersistRecv, persistElse,
     connVars, stateVars, historyVars
<1>29. CASE PersistDrain
  BY <1>29, NumbersAssumption DEF TypeInv, TypeOK, HandlerOK, PersistDrain, persistElse,
     connVars, stateVars, historyVars
<1>30. CASE PersistSnapshot
  BY <1>30 DEF TypeInv, TypeOK, HandlerOK, PersistSnapshot, persistElse, ToDurable,
     connVars, stateVars, historyVars, DurableState
<1>38. CASE PersistSave
  BY <1>38 DEF TypeInv, TypeOK, HandlerOK, PersistSave, persistElse, connVars, stateVars,
     historyVars
<1>31. CASE Shutdown
  BY <1>31 DEF TypeInv, TypeOK, HandlerOK, Shutdown, daemonElse, connVars, stateVars,
     historyVars
<1>32. CASE AbortAll
  BY <1>32 DEF TypeInv, TypeOK, HandlerOK, AbortAll, daemonElse, connVars, stateVars,
     historyVars
<1>33. CASE FinalSnapshot
  BY <1>33 DEF TypeInv, TypeOK, HandlerOK, FinalSnapshot, ToDurable, daemonElse, connVars,
     stateVars, historyVars, DurableState
<1>39. CASE FinalSave
  BY <1>39 DEF TypeInv, TypeOK, HandlerOK, FinalSave, daemonElse, connVars, stateVars,
     historyVars
<1>34. CASE Exit
  BY <1>34 DEF TypeInv, TypeOK, HandlerOK, Exit, daemonElse, connVars, stateVars,
     historyVars
<1>35. CASE Tick
  BY <1>35 DEF TypeInv, TypeOK, HandlerOK, Tick, connVars, stateVars, persistVars,
     historyVars
<1>36. CASE Stopped \/ UNCHANGED vars
  BY <1>36 DEF Stopped, TypeInv, TypeOK, HandlerOK, vars, connVars, stateVars,
     persistVars, historyVars
<1> QED BY <1>1, <1>2, <1>3, <1>4, <1>5, <1>6, <1>7, <1>8, <1>9, <1>10, <1>11, <1>12,
         <1>13, <1>14, <1>15, <1>16, <1>17, <1>18, <1>19, <1>20, <1>21, <1>22, <1>23,
         <1>24, <1>25, <1>26, <1>27, <1>28, <1>29, <1>30, <1>31, <1>32, <1>33, <1>34,
         <1>35, <1>36, <1>37, <1>38, <1>39
      DEF Next, HandleLine, Proceed, PersistTask, Main

\* Every state the daemon reaches is well typed; in particular the signal channel
\* never holds more than its capacity.
THEOREM TypeCorrect == Spec => []TypeOK
<1>1. TypeInv => TypeOK
  BY DEF TypeInv
<1> QED BY TypeInit, TypeStep, <1>1, PTL DEF Spec
=============================================================================
