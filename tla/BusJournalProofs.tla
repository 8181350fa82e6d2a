------------------------- MODULE BusJournalProofs -------------------------
(***************************************************************************)
(* Proofs about the durable slice in Bus, for every value of the           *)
(* constants: the sticky intents of a record are the journaled ones, the   *)
(* final flush takes the last snapshot, every change is handed to a save   *)
(* or has a snapshot coming, and the claims behave as AdvisoryClaims says. *)
(***************************************************************************)
EXTENDS BusProofs

(* Sticky intents *)

\* A heartbeat that changes nothing leaves record and map alone; one that changes a
\* field writes the same value to both.
LEMMA HeartbeatSticky ==
  ASSUME TypeInv, StickyJournaled, NEW c \in Conns, NEW m \in Messages, Heartbeat(c, m)
  PROVE  StickyJournaled'
<1> DEFINE s == session[c]
           old == peers[s].sticky
           new == [f \in Fields |-> IF m.set[f] = Absent THEN old[f] ELSE m.set[f]]
<1>1. /\ peers' = IF peers[s] = None THEN peers
                  ELSE [peers EXCEPT ![s] = [hb |-> clock, sticky |-> new]]
      /\ intents' = IF peers[s] # None /\ new # old THEN [intents EXCEPT ![s] = new]
                    ELSE intents
      /\ s \in Sessions
  BY DEF Heartbeat, TypeInv, TypeOK
<1> HIDE DEF new
<1>2. CASE peers[s] = None
  BY <1>1, <1>2 DEF StickyJournaled
<1>3. CASE peers[s] # None /\ new # old
  BY <1>1, <1>3 DEF StickyJournaled, TypeInv, TypeOK
<1>4. CASE peers[s] # None /\ new = old
  BY <1>1, <1>4 DEF StickyJournaled, TypeInv, TypeOK
<1> QED BY <1>2, <1>3, <1>4

\* No other step changes a sticky field that is set, in the record or in the map.
THEOREM StickyStep == TypeInv /\ StickyJournaled /\ [Next]_vars => StickyJournaled'
<1> SUFFICES ASSUME TypeInv, StickyJournaled, [Next]_vars PROVE StickyJournaled'
  OBVIOUS
<1> DEFINE Quiet == /\ intents' = intents
                    /\ \A s \in Sessions : peers'[s] # None =>
                         \/ peers'[s].sticky = NoIntent
                         \/ peers[s] # None /\ peers'[s].sticky = peers[s].sticky
<1>1. Quiet => StickyJournaled'
  BY DEF StickyJournaled
<1>2. ASSUME NEW c \in Conns, NEW m \in Messages, Heartbeat(c, m) PROVE StickyJournaled'
  BY <1>2, HeartbeatSticky
<1>3. ASSUME NEW s \in Sessions, NEW t \in Nat, peers' = Touch(peers, s, t),
             intents' = intents
      PROVE  Quiet
  <2>1. peers[s] # None => [peers[s] EXCEPT !.hb = t].sticky = peers[s].sticky
    BY DEF PeerRecord, TypeInv, TypeOK
  <2> QED BY <1>3, <2>1 DEF Touch, TypeInv, TypeOK
<1>4. ASSUME peers' = peers, intents' = intents PROVE Quiet
  BY <1>4
<1>5. ASSUME NEW c \in Conns, Cleanup(c) \/ PeersList(c) PROVE Quiet
  BY <1>5 DEF Cleanup, PeersList, PruneStale, TypeInv, TypeOK
<1>6. ASSUME NEW c \in Conns, NEW m \in Messages, Announce(c, m) PROVE Quiet
  <2>1. m.sid \in Sessions /\ intents' = intents
    BY <1>6, MessagesAssumption, MessageFields DEF Announce
  <2>2. \/ peers' = peers
        \/ peers' = [peers EXCEPT ![m.sid] = [hb |-> clock, sticky |-> NoIntent]]
    BY <1>6 DEF Announce
  <2>3. CASE peers' = peers
    BY <1>4, <2>1, <2>3
  <2>4. CASE peers' = [peers EXCEPT ![m.sid] = [hb |-> clock, sticky |-> NoIntent]]
    <3>1. peers'[m.sid].sticky = NoIntent
      BY <2>1, <2>4 DEF TypeInv, TypeOK
    <3>2. \A s \in Sessions : s # m.sid => peers'[s] = peers[s]
      BY <2>4 DEF TypeInv, TypeOK
    <3> QED BY <2>1, <3>1, <3>2
  <2> QED BY <2>2, <2>3, <2>4
<1>7. ASSUME NEW c \in Conns, NEW m \in Messages, Update(c, m) PROVE Quiet
  BY <1>3, <1>7 DEF Update, TypeInv, TypeOK
<1>8. ASSUME NEW c \in Conns, PublishTouch(c) \/ Acquire(c) \/ Release(c) PROVE Quiet
  <2>1. /\ intents' = intents /\ session[c] \in Sessions /\ now[c] \in Nat /\ clock \in Nat
        /\ \/ peers' = peers \/ peers' = Touch(peers, session[c], now[c])
           \/ peers' = Touch(peers, session[c], clock)
    BY <1>8 DEF PublishTouch, Acquire, Release, Locked, TypeInv, TypeOK, HandlerOK
  <2> QED BY <1>3, <1>4, <2>1
<1>9. ASSUME NEW c \in Conns,
             Accept(c) \/ Hangup(c) \/ Eof(c) \/ Lagged(c) \/ Deliver(c) \/ Drain(c)
               \/ Abort(c) \/ Reply(c) \/ Bail(c) \/ List(c) \/ Signal(c) \/ Send(c)
      PROVE  Quiet
  BY <1>4, <1>9 DEF Accept, Hangup, Eof, Lagged, Deliver, Drain, Abort, Reply, Bail,
       List, Signal, Send, stateVars
<1>10. ASSUME NEW c \in Conns, NEW m \in Messages,
             \/ ReadError(c, m) \/ Reject(c, m) \/ UplinkStatus(c, m) \/ AlreadyAnnounced(c, m)
             \/ TooManyPaths(c, m) \/ Subscribe(c, m) \/ Publish(c, m) \/ ReadClock(c, m)
      PROVE  Quiet
  BY <1>4, <1>10 DEF ReadError, Reject, UplinkStatus, AlreadyAnnounced, TooManyPaths, Subscribe,
       Publish, ReadClock, stateVars
<1>11. ASSUME PersistTask \/ Main \/ Stopped \/ Tick \/ UNCHANGED vars PROVE Quiet
  BY <1>4, <1>11 DEF PersistTask, PersistRecv, PersistDrain, PersistSnapshot, PersistSave, persistElse, Main, Shutdown,
       AbortAll, FinalSnapshot, FinalSave, Exit, daemonElse, Stopped, Tick, vars, stateVars
<1> HIDE DEF Quiet
<1> QED BY <1>1, <1>2, <1>5, <1>6, <1>7, <1>8, <1>9, <1>10, <1>11
         DEF Next, HandleLine, Proceed

\* Whatever owners and guests do, a sticky field a peer list shows is the one a
\* restart would read back.
THEOREM StickyInvariant == Spec => []StickyJournaled
<1>1. Init => StickyJournaled
  BY DEF Init, StickyJournaled
<1> QED BY <1>1, TypeInvariant, StickyStep, PTL DEF Spec

-----------------------------------------------------------------------------
(* The final flush *)

\* LastWord is kept because no connection task is left.
FlushInv ==
  daemon \in {"flushing", "flushed", "stopped"} =>
    handed = ToDurable /\ \A c \in Conns : pc[c] \in Terminal

\* A task that takes a step is not at a terminal label, and only a running daemon
\* accepts; the persist task can only save the same state again.
THEOREM FlushStep == TypeInv /\ FlushInv /\ [Next]_vars => FlushInv'
<1> SUFFICES ASSUME TypeInv, FlushInv, [Next]_vars PROVE FlushInv'
  OBVIOUS
<1> DEFINE Open == daemon \notin {"flushing", "flushed", "stopped"} /\ daemon' = daemon
<1>1. Open => FlushInv'
  BY DEF FlushInv
<1>2. ASSUME NEW c \in Conns,
             Accept(c) \/ Hangup(c) \/ Eof(c) \/ Cleanup(c) \/ Lagged(c) \/ Deliver(c)
               \/ Drain(c) \/ Abort(c) \/ Reply(c) \/ Bail(c)
      PROVE  Open
  BY <1>2 DEF Accept, Hangup, Eof, Cleanup, Lagged, Deliver, Drain, Abort, Reply, Bail,
       FlushInv, Terminal
<1>3. ASSUME NEW c \in Conns, HandleLine(c) PROVE Open
  <2>1. pc[c] = "idle" /\ daemon' = daemon
    BY <1>3 DEF HandleLine, ReadError, Reject, UplinkStatus, AlreadyAnnounced, TooManyPaths, Announce,
         Update, Heartbeat, Subscribe, Publish, ReadClock, ReadLine
  <2> QED BY <2>1 DEF FlushInv, Terminal
<1>4. ASSUME NEW c \in Conns,
             PublishTouch(c) \/ PeersList(c) \/ Acquire(c) \/ Release(c) \/ List(c)
               \/ Signal(c) \/ Send(c)
      PROVE  Open
  <2>1. pc[c] \in {"lock", "signal", "send"} /\ daemon' = daemon
    BY <1>4 DEF PublishTouch, PeersList, Acquire, Release, List, Signal, Send, Locked
  <2> QED BY <2>1 DEF FlushInv, Terminal
<1>5. CASE PersistTask
  BY <1>5 DEF PersistTask, PersistRecv, PersistDrain, PersistSnapshot, PersistSave, persistElse, FlushInv, ToDurable,
       connVars, stateVars
<1>6. CASE Main
  BY <1>6 DEF Main, Shutdown, AbortAll, FinalSnapshot, FinalSave, Exit, daemonElse, FlushInv, ToDurable,
       connVars, stateVars
<1>7. CASE Stopped \/ Tick \/ UNCHANGED vars
  BY <1>7 DEF Stopped, Tick, vars, FlushInv, ToDurable, connVars, stateVars, persistVars
<1> HIDE DEF Open
<1> QED BY <1>1, <1>2, <1>3, <1>4, <1>5, <1>6, <1>7 DEF Next, Proceed

\* From the final flush's snapshot on, nothing the daemon hands to a save is older than
\* the state it ends with.
THEOREM FinalSnapshotIsLast == Spec => []LastWord
<1>1. Init => FlushInv
  BY DEF Init, FlushInv
<1>2. FlushInv => LastWord
  BY DEF FlushInv, LastWord
<1> QED BY <1>1, <1>2, TypeInvariant, FlushStep, PTL DEF Spec

-----------------------------------------------------------------------------
(* From the change to the save *)

\* Pruning at one time and again at a later one is pruning at the later one.
LEMMA PruneTwice ==
  ASSUME NEW cl \in [Paths -> ClaimRecord \cup {None}],
         NEW t \in Nat, NEW u \in Nat, t <= u
  PROVE  PruneExpired(PruneExpired(cl, t), u) = PruneExpired(cl, u)
<1>1. ASSUME NEW p \in Paths
      PROVE  Live(cl[p], u) => Live(cl[p], t)
  BY DEF Live, ClaimRecord
<1> QED BY <1>1 DEF PruneExpired, Live

\* Two tables that agree on the claims in force go on agreeing.
LEMMA AgreeLater ==
  ASSUME NEW a \in [Paths -> ClaimRecord \cup {None}],
         NEW b \in [Paths -> ClaimRecord \cup {None}],
         NEW t \in Nat, NEW u \in Nat, t <= u,
         PruneExpired(a, t) = PruneExpired(b, t)
  PROVE  PruneExpired(a, u) = PruneExpired(b, u)
<1>1. PruneExpired(a, u) = PruneExpired(PruneExpired(a, t), u)
  BY PruneTwice
<1>2. PruneExpired(b, u) = PruneExpired(PruneExpired(b, t), u)
  BY PruneTwice
<1> QED BY <1>1, <1>2

\* A change of the durable slice leaves its task at "signal"; that signal fits in the
\* channel or finds it full; the persist task takes its snapshot after it has
\* emptied the channel;
\* and pruning with a clock that is not ahead changes no claim in force.
THEOREM HandedOverStep ==
  TypeInv /\ NotAhead /\ HandedOver /\ [Next]_vars => HandedOver'
<1> SUFFICES ASSUME TypeInv, NotAhead, HandedOver, [Next]_vars PROVE HandedOver'
  OBVIOUS
<1> DEFINE Steady == /\ clock' = clock /\ handed' = handed /\ intents' = intents
                    /\ signals' = signals /\ persister' = persister
                    /\ \A d \in Conns : pc[d] = "signal" => pc'[d] = "signal"
<1>1. ASSUME Steady, claims' = claims PROVE HandedOver'
  BY <1>1 DEF HandedOver, Current, SnapshotComing
<1>2. ASSUME Steady, NEW t \in Nat, t <= clock, claims' = PruneExpired(claims, t)
      PROVE  HandedOver'
  <2>1. PruneExpired(claims', clock) = PruneExpired(claims, clock)
    BY <1>2, PruneTwice DEF TypeInv, TypeOK
  <2> QED BY <1>2, <2>1 DEF HandedOver, Current, SnapshotComing
<1>3. ASSUME NEW c \in Conns, pc'[c] = "signal" PROVE HandedOver'
  BY <1>3 DEF HandedOver, SnapshotComing
<1>4. ASSUME NEW c \in Conns,
             Accept(c) \/ Hangup(c) \/ Eof(c) \/ Cleanup(c) \/ Lagged(c) \/ Deliver(c)
               \/ Drain(c) \/ Abort(c) \/ Reply(c) \/ Bail(c)
      PROVE  Steady /\ claims' = claims
  BY <1>4 DEF Accept, Hangup, Eof, Cleanup, Lagged, Deliver, Drain, Abort, Reply, Bail,
       stateVars, persistVars, TypeInv, TypeOK
<1>5. ASSUME NEW c \in Conns, NEW m \in Messages,
             \/ ReadError(c, m) \/ Reject(c, m) \/ UplinkStatus(c, m) \/ AlreadyAnnounced(c, m)
             \/ TooManyPaths(c, m) \/ Announce(c, m) \/ Update(c, m) \/ Subscribe(c, m)
             \/ Publish(c, m) \/ ReadClock(c, m)
      PROVE  Steady /\ claims' = claims
  BY <1>5 DEF ReadError, Reject, UplinkStatus, AlreadyAnnounced, TooManyPaths, Announce, Update,
       Subscribe, Publish, ReadClock, ReadLine, Continue, Answer, Refuse, Finish,
       stateVars, persistVars, TypeInv, TypeOK
<1>6. ASSUME NEW c \in Conns, NEW m \in Messages, Heartbeat(c, m) PROVE HandedOver'
  <2>1. Continue(c, m, "signal") \/ (Answer(c) /\ intents' = intents)
    BY <1>6 DEF Heartbeat
  <2>2. CASE Continue(c, m, "signal")
    BY <1>3, <2>2 DEF Continue, TypeInv, TypeOK
  <2>3. CASE Answer(c) /\ intents' = intents
    <3>1. Steady /\ claims' = claims
      BY <1>6, <2>3 DEF Heartbeat, ReadLine, Answer, Finish, persistVars, TypeInv, TypeOK
    <3> QED BY <1>1, <3>1
  <2> QED BY <2>1, <2>2, <2>3
<1>7. ASSUME NEW c \in Conns, PublishTouch(c) \/ PeersList(c) \/ Send(c)
      PROVE  Steady /\ claims' = claims
  BY <1>7 DEF PublishTouch, PeersList, Send, Locked, Answer, Finish, stateVars,
       persistVars, TypeInv, TypeOK
<1>8. ASSUME NEW c \in Conns, Acquire(c) \/ Release(c) \/ List(c) PROVE HandedOver'
  <2>1. \/ Continue(c, req[c], "signal")
        \/ (Answer(c) \/ Refuse(c)) /\ claims' = PruneExpired(claims, now[c])
    BY <1>8 DEF Acquire, Release, List
  <2>2. CASE Continue(c, req[c], "signal")
    BY <1>3, <2>2 DEF Continue, TypeInv, TypeOK
  <2>3. CASE (Answer(c) \/ Refuse(c)) /\ claims' = PruneExpired(claims, now[c])
    <3>1. now[c] \in Nat /\ now[c] <= clock
      BY DEF NotAhead, TypeInv, TypeOK
    <3>2. pc[c] = "lock" /\ UNCHANGED <<clock, intents, persistVars>>
      BY <1>8 DEF Acquire, Release, List, Locked
    <3>3. Steady
      BY <2>3, <3>2 DEF Answer, Refuse, Finish, persistVars, TypeInv, TypeOK
    <3> QED BY <1>2, <2>3, <3>1, <3>3
  <2> QED BY <2>1, <2>2, <2>3
<1>9. ASSUME NEW c \in Conns, Signal(c) PROVE HandedOver'
  <2>1. signals' > 0
    BY <1>9, NumbersAssumption DEF Signal, TrySend, TypeInv, TypeOK
  <2> QED BY <2>1 DEF HandedOver, SnapshotComing
<1>10. CASE PersistTask
  <2>1. CASE PersistRecv \/ PersistDrain
    BY <2>1 DEF PersistRecv, PersistDrain, HandedOver, SnapshotComing
  <2>2. CASE PersistSnapshot
    BY <2>2 DEF PersistSnapshot, persistElse, HandedOver, Current, ToDurable, stateVars
  <2>3. CASE PersistSave
    BY <1>1, <2>3 DEF PersistSave, persistElse, connVars, stateVars, HandedOver, Current,
       SnapshotComing
  <2> QED BY <1>10, <2>1, <2>2, <2>3 DEF PersistTask
<1>11. CASE Main
  <2>1. CASE Shutdown \/ AbortAll \/ FinalSave \/ Exit
    BY <1>1, <2>1 DEF Shutdown, AbortAll, FinalSave, Exit, daemonElse, connVars, stateVars
  <2>2. CASE FinalSnapshot
    BY <2>2 DEF FinalSnapshot, daemonElse, HandedOver, Current, ToDurable, stateVars
  <2> QED BY <1>11, <2>1, <2>2 DEF Main
<1>12. CASE Tick
  <2>1. /\ clock \in Nat /\ clock' \in Nat /\ clock <= clock'
        /\ handed.claims \in [Paths -> ClaimRecord \cup {None}]
        /\ claims \in [Paths -> ClaimRecord \cup {None}]
    BY <1>12 DEF Tick, TypeInv, TypeOK, DurableState
  <2>2. Current => Current'
    BY <1>12, <2>1, AgreeLater DEF Tick, Current, stateVars, persistVars
  <2>3. SnapshotComing => SnapshotComing'
    BY <1>12 DEF Tick, SnapshotComing, connVars, persistVars
  <2> QED BY <2>2, <2>3 DEF HandedOver
<1>13. CASE Stopped \/ UNCHANGED vars
  BY <1>1, <1>13 DEF Stopped, vars, connVars, stateVars, persistVars
<1> HIDE DEF Steady
<1> QED BY <1>1, <1>4, <1>5, <1>6, <1>7, <1>8, <1>9, <1>10, <1>11, <1>12, <1>13
         DEF Next, HandleLine, Proceed

\* No change is forgotten between the lock, the bounded signal channel and the debounce:
\* the newest snapshot handed to a save holds it, or another one is certain to be taken.
THEOREM AlwaysHandedOver == Spec => []HandedOver
<1>1. Init => HandedOver
  <2> SUFFICES ASSUME Init PROVE Current
    BY DEF HandedOver
  <2>1. handed.claims \in [Paths -> ClaimRecord \cup {None}] /\ StartTime \in Nat
    BY JournaledAssumption, NumbersAssumption DEF Init, DurableState
  <2>2. PruneExpired(PruneExpired(handed.claims, StartTime), StartTime)
          = PruneExpired(handed.claims, StartTime)
    BY <2>1, PruneTwice
  <2> QED BY <2>2 DEF Init, Current
<1> QED BY <1>1, TypeInvariant, NotAheadInvariant, HandedOverStep, PTL DEF Spec

-----------------------------------------------------------------------------
(* Bus implements AdvisoryClaims *)

\* The claims in force, which is what the abstract specification sees of the table.
Held == PruneExpired(claims, clock)

\* What a task that waits for the lock with a claim request asks.
Asks(c) == pc[c] = "lock" /\ req[c].op \in {"claim_acquire", "claim_release"}
RequestOf(c) ==
  IF req[c].op = "claim_acquire"
  THEN [kind |-> "acquire", sid |-> session[c], path |-> req[c].path, ttl |-> req[c].ttl,
        force |-> req[c].force]
  ELSE [kind |-> "release", sid |-> session[c], path |-> req[c].path]

\* The requests outstanding are those of the tasks that wait with one.
LEMMA AskedNow == \A x : x \in Asking <=> \E c \in Conns : Asks(c) /\ x = RequestOf(c)
BY DEF Asking, Asks, RequestOf, Locked

\* ... and they will be after a step.
LEMMA AskedNext == \A x : x \in Asking' <=> \E c \in Conns : Asks(c)' /\ x = RequestOf(c)'
BY DEF Asking, Asks, RequestOf, Locked

\* They are requests of the abstract specification.
LEMMA RequestTyped ==
  ASSUME TypeInv, NEW c \in Conns, Asks(c)
  PROVE  RequestOf(c) \in AC!Request
<1>1. /\ req[c] \in ClientMessage /\ session[c] \in Sessions
      /\ req[c].op \in {"claim_acquire", "claim_release"}
  BY DEF Asks, TypeInv, HandlerOK
<1>2. CASE req[c].op = "claim_acquire"
  BY <1>1, <1>2, MessageFields DEF RequestOf, AC!Request
<1>3. CASE req[c].op = "claim_release"
  BY <1>1, <1>3, MessageFields DEF RequestOf, AC!Request
<1> QED BY <1>1, <1>2, <1>3

\* Nobody starts or stops asking.
SameAsked(c) ==
  /\ Asks(c)' <=> Asks(c)
  /\ Asks(c) => RequestOf(c)' = RequestOf(c)

\* Then the requests outstanding are the same.
LEMMA NobodyAsks ==
  ASSUME \A c \in Conns : SameAsked(c)
  PROVE  Asking' = Asking
<1>1. \A x : x \in Asking' <=> x \in Asking
  BY AskedNow, AskedNext DEF SameAsked
<1> QED BY <1>1 DEF Asking

\* One task begins to ask.
LEMMA OneAsks ==
  ASSUME TypeInv', NEW c \in Conns, ~Asks(c), Asks(c)',
         \A d \in Conns \ {c} : SameAsked(d)
  PROVE  Asking' = Asking \cup {RequestOf(c)'} /\ RequestOf(c)' \in AC!Request
<1>1. \A x : x \in Asking' <=> x \in Asking \/ x = RequestOf(c)'
  BY AskedNow, AskedNext DEF SameAsked
<1>2. Asking' = Asking \cup {RequestOf(c)'}
  BY <1>1 DEF Asking
<1>3. (Asks(c) => RequestOf(c) \in AC!Request)'
  BY RequestTyped, PTL
<1> QED BY <1>2, <1>3

\* One task has its answer; another may still ask the same.
LEMMA OneDecided ==
  ASSUME NEW c \in Conns, Asks(c), ~Asks(c)',
         \A d \in Conns \ {c} : SameAsked(d)
  PROVE  RequestOf(c) \in Asking /\ AC!Decided(RequestOf(c))
<1>1. RequestOf(c) \in Asking
  BY AskedNow
<1>2. \A x : x \in Asking' => x \in Asking
  BY AskedNow, AskedNext DEF SameAsked
<1>3. \A x : x \in Asking => x \in Asking' \/ x = RequestOf(c)
  BY AskedNow, AskedNext DEF SameAsked
<1>4. Asking' = Asking \/ Asking' = Asking \ {RequestOf(c)}
  <2> HIDE DEF Asking
  <2> QED BY <1>2, <1>3
<1> QED BY <1>1, <1>4 DEF AC!Decided

\* A request that changes nothing is withdrawn, or one like it is still there.
LEMMA DecidedInVain ==
  ASSUME NEW r \in Asking, AC!Decided(r), UNCHANGED <<clock, Held>>
  PROVE  [AC!Next]_AC!vars
BY DEF AC!Decided, AC!Next, AC!Withdraw, AC!vars, Held

\* What the abstract specification says when nobody touches the claims.
LEMMA NothingAsked ==
  ASSUME \A c \in Conns : SameAsked(c), UNCHANGED <<clock, Held>>
  PROVE  [AC!Next]_AC!vars
BY NobodyAsks DEF AC!vars, Held

\* Pruning with the clock read before the lock leaves what is in force now, and what
\* the task then sees of a path is in force, or has just expired.
LEMMA LatePruning ==
  ASSUME TypeInv, NotAhead, NEW c \in Conns
  PROVE  LET table == PruneExpired(claims, now[c]) IN
         /\ table \in [Paths -> ClaimRecord \cup {None}]
         /\ PruneExpired(table, clock) = Held
         /\ \A p \in Paths : Held[p] = IF Live(table[p], clock) THEN table[p] ELSE None
<1> DEFINE table == PruneExpired(claims, now[c])
<1>1. /\ claims \in [Paths -> ClaimRecord \cup {None}]
      /\ now[c] \in Nat /\ clock \in Nat /\ now[c] <= clock
  BY DEF NotAhead, TypeInv, TypeOK
<1>2. table \in [Paths -> ClaimRecord \cup {None}]
  BY <1>1, PruneTyped
<1>3. PruneExpired(table, clock) = Held
  BY <1>1, PruneTwice DEF Held
<1>4. \A p \in Paths : Held[p] = IF Live(table[p], clock) THEN table[p] ELSE None
  <2> HIDE DEF table
  <2> QED BY <1>3 DEF PruneExpired
<1> QED BY <1>2, <1>3, <1>4

\* An acquire is refused, or grants the path at the moment of the critical section.
LEMMA AcquireImplements ==
  ASSUME TypeInv, NotAhead, NEW c \in Conns, Acquire(c),
         \A d \in Conns \ {c} : SameAsked(d), Asks(c), ~Asks(c)'
  PROVE  [AC!Next]_AC!vars
<1> DEFINE m == req[c]
           p == req[c].path
           r == RequestOf(c)
           table == PruneExpired(claims, now[c])
           foreign == table[p] # None /\ table[p].sid # session[c]
           rec == [sid |-> session[c], ttl |-> req[c].ttl]
<1>1. /\ p \in Paths /\ m.op = "claim_acquire" /\ m.ttl \in Nat /\ session[c] \in Sessions
  BY MessageFields DEF Acquire, Locked, TypeInv, TypeOK, HandlerOK
<1>2. /\ r.kind = "acquire" /\ r.path = p /\ r.sid = session[c] /\ r.ttl = m.ttl
      /\ r.force = m.force
  BY <1>1 DEF RequestOf
<1>3. r \in Asking /\ AC!Decided(r)
  BY OneDecided
<1>4. clock' = clock /\ clock \in Nat
  BY DEF Acquire, TypeInv, TypeOK
<1>5. /\ table \in [Paths -> ClaimRecord \cup {None}]
      /\ PruneExpired(table, clock) = Held
      /\ Held[p] = IF Live(table[p], clock) THEN table[p] ELSE None
  BY <1>1, LatePruning
<1>6. CASE foreign /\ ~req[c].force
  <2>1. claims' = table
    BY <1>6 DEF Acquire
  <2>2. Held' = Held
    BY <1>4, <1>5, <2>1 DEF Held
  <2> QED BY <1>3, <1>4, <2>2, DecidedInVain
<1>7. CASE ~(foreign /\ ~req[c].force)
  <2>1. claims' = [table EXCEPT ![p] = rec]
    BY <1>7 DEF Acquire
  <2> HIDE DEF table, r
  <2>2. Held' = [Held EXCEPT ![p] = IF Live(rec, clock) THEN rec ELSE None]
    <3>1. PruneExpired([table EXCEPT ![p] = rec], clock)
            = [PruneExpired(table, clock) EXCEPT ![p] = IF Live(rec, clock) THEN rec ELSE None]
      BY <1>1, <1>4, <1>5 DEF PruneExpired
    <3>2. Held' = PruneExpired([table EXCEPT ![p] = rec], clock)
      BY <1>4, <2>1 DEF Held
    <3> QED BY <1>5, <3>1, <3>2
  <2>3. Live(rec, clock) <=> m.ttl > clock
    BY <1>1, AbsenceAssumption DEF Live, ClaimRecord
  <2>4. Held[p] = None \/ Held[p].sid = session[c] \/ m.force
    BY <1>5, <1>7
  <2>5. AC!Acquire(r)
    BY <1>2, <1>3, <1>4, <2>2, <2>3, <2>4 DEF AC!Acquire, Held
  <2> QED BY <1>3, <2>5 DEF AC!Next
<1> QED BY <1>6, <1>7

\* A release frees the path of its own session, or finds nothing of it in force.
LEMMA ReleaseImplements ==
  ASSUME TypeInv, NotAhead, NEW c \in Conns, Release(c),
         \A d \in Conns \ {c} : SameAsked(d), Asks(c), ~Asks(c)'
  PROVE  [AC!Next]_AC!vars
<1> DEFINE p == req[c].path
           r == RequestOf(c)
           table == PruneExpired(claims, now[c])
           released == table[p] # None /\ table[p].sid = session[c]
<1>1. /\ p \in Paths /\ req[c].op = "claim_release"
  BY MessageFields DEF Release, Locked, TypeInv, TypeOK, HandlerOK
<1>2. r.kind = "release" /\ r.path = p /\ r.sid = session[c]
  BY <1>1 DEF RequestOf
<1>3. r \in Asking /\ AC!Decided(r)
  BY OneDecided
<1>4. clock' = clock /\ clock \in Nat
  BY DEF Release, TypeInv, TypeOK
<1>5. /\ table \in [Paths -> ClaimRecord \cup {None}]
      /\ PruneExpired(table, clock) = Held
      /\ Held[p] = IF Live(table[p], clock) THEN table[p] ELSE None
  BY <1>1, LatePruning
<1>6. CASE ~released
  <2>1. claims' = table
    BY <1>6 DEF Release
  <2>2. Held' = Held
    BY <1>4, <1>5, <2>1 DEF Held
  <2> QED BY <1>3, <1>4, <2>2, DecidedInVain
<1>7. CASE released
  <2>1. claims' = [table EXCEPT ![p] = None]
    BY <1>7 DEF Release
  <2> HIDE DEF table, r
  <2>2. Held' = [Held EXCEPT ![p] = None]
    <3>1. PruneExpired([table EXCEPT ![p] = None], clock)
            = [PruneExpired(table, clock) EXCEPT ![p] = IF Live(None, clock) THEN None ELSE None]
      BY <1>1, <1>4, <1>5 DEF PruneExpired
    <3>2. Held' = PruneExpired([table EXCEPT ![p] = None], clock)
      BY <1>4, <2>1 DEF Held
    <3> QED BY <1>5, <3>1, <3>2 DEF Live
  <2>3. CASE Held[p] # None
    <3>1. Held[p].sid = session[c]
      BY <1>5, <1>7, <2>3
    <3>2. AC!Release(r)
      BY <1>2, <1>3, <1>4, <2>2, <2>3, <3>1 DEF AC!Release, Held
    <3> QED BY <1>3, <3>2 DEF AC!Next
  <2>4. CASE Held[p] = None
    <3>1. Held' = Held
      BY <1>1, <2>2, <2>4 DEF Held, PruneExpired
    <3> QED BY <1>3, <1>4, <3>1, DecidedInVain
  <2> QED BY <2>3, <2>4
<1> QED BY <1>6, <1>7

\* Every step of the daemon is a step of the abstract specification, or changes
\* nothing that it sees.
THEOREM ClaimsStep == TypeInv /\ NotAhead /\ [Next]_vars => [AC!Next]_AC!vars
<1> SUFFICES ASSUME TypeInv, NotAhead, [Next]_vars PROVE [AC!Next]_AC!vars
  OBVIOUS
<1> DEFINE Others(c) == \A d \in Conns \ {c} : SameAsked(d)
<1>0. TypeInv'
  BY TypeStep
<1>1. ASSUME NEW c \in Conns, Others(c), UNCHANGED <<clock, Held>>, ~Asks(c)'
      PROVE  [AC!Next]_AC!vars
  <2>1. CASE Asks(c)
    BY <1>1, <2>1, OneDecided, DecidedInVain
  <2>2. CASE ~Asks(c)
    <3>1. \A d \in Conns : SameAsked(d)
      BY <1>1, <2>2 DEF SameAsked
    <3> QED BY <1>1, <3>1, NothingAsked
  <2> QED BY <2>1, <2>2
<1>2. ASSUME UNCHANGED <<claims, clock>> PROVE UNCHANGED <<clock, Held>>
  BY <1>2 DEF Held
<1>3. ASSUME NEW c \in Conns,
             \/ Accept(c) \/ Hangup(c) \/ Eof(c) \/ Lagged(c) \/ Deliver(c) \/ Drain(c)
             \/ Cleanup(c) \/ Abort(c) \/ Reply(c) \/ Bail(c)
      PROVE  [AC!Next]_AC!vars
  <2>1. UNCHANGED <<claims, clock, session, req>>
    BY <1>3 DEF Accept, Hangup, Eof, Lagged, Deliver, Drain, Cleanup, Abort, Reply, Bail,
         stateVars
  <2>2. pc' = pc \/ pc'[c] # "lock"
    BY <1>3 DEF Accept, Hangup, Eof, Lagged, Deliver, Drain, Cleanup, Abort, Reply, Bail,
         TypeInv, TypeOK
  <2>3. \A d \in Conns \ {c} : pc'[d] = pc[d]
    BY <1>3 DEF Accept, Hangup, Eof, Lagged, Deliver, Drain, Cleanup, Abort, Reply, Bail,
         TypeInv, TypeOK
  <2>4. Others(c)
    BY <2>1, <2>3 DEF SameAsked, Asks, RequestOf
  <2>5. CASE pc' = pc
    <3>1. \A d \in Conns : SameAsked(d)
      BY <2>1, <2>5 DEF SameAsked, Asks, RequestOf
    <3> QED BY <1>2, <2>1, <3>1, NothingAsked
  <2>6. CASE pc'[c] # "lock"
    BY <1>1, <1>2, <2>1, <2>4, <2>6 DEF Asks
  <2> QED BY <2>2, <2>5, <2>6
<1>4. ASSUME NEW c \in Conns, NEW m \in Messages,
             \/ ReadError(c, m) \/ Reject(c, m) \/ UplinkStatus(c, m) \/ AlreadyAnnounced(c, m)
             \/ TooManyPaths(c, m) \/ Announce(c, m) \/ Update(c, m) \/ Heartbeat(c, m)
             \/ Subscribe(c, m) \/ Publish(c, m) \/ ReadClock(c, m)
      PROVE  [AC!Next]_AC!vars
  <2>1. UNCHANGED <<claims, clock>> /\ pc[c] = "idle"
    BY <1>4 DEF ReadError, Reject, UplinkStatus, AlreadyAnnounced, TooManyPaths, Announce, Update,
         Heartbeat, Subscribe, Publish, ReadClock, ReadLine, stateVars
  <2>2. \A d \in Conns \ {c} : pc'[d] = pc[d] /\ req'[d] = req[d] /\ session'[d] = session[d]
    BY <1>4 DEF ReadError, Reject, UplinkStatus, AlreadyAnnounced, TooManyPaths, Announce, Update,
         Heartbeat, Subscribe, Publish, ReadClock, Continue, Answer, Refuse, Finish,
         TypeInv, TypeOK
  <2>3. Others(c)
    BY <2>2 DEF SameAsked, Asks, RequestOf
  <2>4. CASE Asks(c)'
    <3>1. Asking' = Asking \cup {RequestOf(c)'} /\ RequestOf(c)' \in AC!Request
      BY <1>0, <2>1, <2>3, <2>4, OneAsks DEF Asks
    <3>2. Held' = Held
      BY <1>2, <2>1
    <3> QED BY <2>1, <3>1, <3>2 DEF AC!Next, AC!Ask, Held
  <2>5. CASE ~Asks(c)'
    BY <1>1, <1>2, <2>1, <2>3, <2>5
  <2> QED BY <2>4, <2>5
<1>5. ASSUME NEW c \in Conns,
             \/ PublishTouch(c) \/ PeersList(c) \/ List(c) \/ Acquire(c) \/ Release(c)
             \/ Signal(c) \/ Send(c)
      PROVE  Others(c) /\ ~Asks(c)' /\ clock' = clock
  <2>1. session' = session /\ clock' = clock
    BY <1>5 DEF PublishTouch, PeersList, List, Acquire, Release, Signal, Send
  <2>2. \E l \in {"reply", "error", "signal", "send"} : pc' = [pc EXCEPT ![c] = l]
    BY <1>5 DEF PublishTouch, PeersList, List, Acquire, Release, Signal, Send,
         Continue, Answer, Refuse, Finish
  <2>3. \A d \in Conns \ {c} : req'[d] = req[d]
    BY <1>5 DEF PublishTouch, PeersList, List, Acquire, Release, Signal, Send,
         Continue, Answer, Refuse, Finish, TypeInv, TypeOK
  <2> QED BY <2>1, <2>2, <2>3 DEF SameAsked, Asks, RequestOf, TypeInv, TypeOK
<1>6. ASSUME NEW c \in Conns, PublishTouch(c) \/ PeersList(c) \/ Signal(c) \/ Send(c)
      PROVE  [AC!Next]_AC!vars
  <2>1. claims' = claims
    BY <1>6 DEF PublishTouch, PeersList, Signal, Send, stateVars
  <2> QED BY <1>1, <1>2, <1>5, <1>6, <2>1
<1>7. ASSUME NEW c \in Conns, List(c) PROVE [AC!Next]_AC!vars
  <2>1. claims' = PruneExpired(claims, now[c]) /\ clock' = clock
    BY <1>7 DEF List
  <2>2. Held' = Held
    BY <2>1, LatePruning DEF Held
  <2> QED BY <1>1, <1>5, <1>7, <2>1, <2>2
<1>8. ASSUME NEW c \in Conns, Acquire(c) PROVE [AC!Next]_AC!vars
  <2>1. Asks(c)
    BY <1>8 DEF Acquire, Locked, Asks
  <2> QED BY <1>5, <1>8, <2>1, AcquireImplements
<1>9. ASSUME NEW c \in Conns, Release(c) PROVE [AC!Next]_AC!vars
  <2>1. Asks(c)
    BY <1>9 DEF Release, Locked, Asks
  <2> QED BY <1>5, <1>9, <2>1, ReleaseImplements
<1>10. ASSUME PersistTask \/ Main \/ Stopped \/ Tick \/ UNCHANGED vars
       PROVE  [AC!Next]_AC!vars
  <2>1. UNCHANGED <<pc, req, session, claims>>
    BY <1>10 DEF PersistTask, PersistRecv, PersistDrain, PersistSnapshot, PersistSave, persistElse, Main, Shutdown,
         AbortAll, FinalSnapshot, FinalSave, Exit, daemonElse, Stopped, Tick, vars, connVars, stateVars
  <2>2. \A d \in Conns : SameAsked(d)
    BY <2>1 DEF SameAsked, Asks, RequestOf
  <2>3. CASE clock' = clock
    BY <1>2, <2>1, <2>2, <2>3, NothingAsked
  <2>4. CASE clock' # clock
    <3>1. clock' = clock + 1 /\ clock \in Nat
      BY <1>10, <2>4 DEF PersistTask, PersistRecv, PersistDrain, PersistSnapshot, PersistSave, persistElse, Main, Shutdown,
         AbortAll, FinalSnapshot, FinalSave, Exit, daemonElse, Stopped, Tick, vars, TypeInv, TypeOK
    <3>2. Held' = PruneExpired(Held, clock')
      <4>1. clock' \in Nat /\ clock <= clock'
        BY <3>1
      <4> QED BY <2>1, <3>1, <4>1, PruneTwice DEF Held, TypeInv, TypeOK
    <3>3. Held' = [p \in Paths |-> IF AC!InForce(Held[p], clock') THEN Held[p] ELSE None]
      BY <3>2 DEF PruneExpired, Live, AC!InForce
    <3>4. AC!Tick
      BY <2>2, <3>1, <3>3, NobodyAsks DEF AC!Tick, Held
    <3> QED BY <3>4 DEF AC!Next
  <2> QED BY <2>3, <2>4
<1> QED BY <1>3, <1>4, <1>6, <1>7, <1>8, <1>9, <1>10 DEF Next, HandleLine, Proceed

\* The claims of the daemon behave as AdvisoryClaims says, for any number of
\* connections, sessions and paths: requests take effect at one instant between
\* being read and being answered, and pruning with a clock read too early shows
\* nobody anything.
THEOREM ClaimsRefinement == Spec => ImplementsAdvisoryClaims
<1>1. Init => AC!Init
  <2> SUFFICES ASSUME Init PROVE AC!Init
    OBVIOUS
  <2>1. TypeInv /\ claims = PruneExpired(handed.claims, clock)
    BY TypeInit DEF Init
  <2>2. Asking = {}
    BY DEF Init, Asking, Locked
  <2>3. /\ clock \in Nat /\ claims \in [Paths -> ClaimRecord \cup {None}]
        /\ handed.claims \in [Paths -> ClaimRecord \cup {None}]
    BY <2>1 DEF TypeInv, TypeOK, DurableState
  <2>4. PruneExpired(claims, clock) \in [Paths -> ClaimRecord \cup {None}]
    BY <2>3, PruneTyped
  <2>5. \A p \in Paths : LET h == PruneExpired(claims, clock)[p] IN
          h = None \/ AC!InForce(h, clock)
    BY DEF PruneExpired, Live, AC!InForce
  <2> QED BY <2>2, <2>3, <2>4, <2>5 DEF AC!Init, AC!Holding, ClaimRecord
<1>2. TypeInv /\ NotAhead /\ [Next]_vars => [AC!Next]_AC!vars
  BY ClaimsStep
<1> QED BY <1>1, <1>2, TypeInvariant, NotAheadInvariant, PTL
        DEF Spec, ImplementsAdvisoryClaims, AC!Spec
=============================================================================
