-------------------------------- MODULE Bus --------------------------------
(***************************************************************************)
(* The agorabus daemon for one lifetime of its process: the connection     *)
(* tasks (handle_connection, handle_line), the state they share behind one *)
(* mutex (BusState), the broadcast channel, the persist task, and the      *)
(* drain and shutdown sequence of run_daemon.                              *)
(*                                                                         *)
(* Granularity.  The runtime is multi-threaded, so the tasks interleave    *)
(* anywhere outside the mutex.  A step is: one critical section; one       *)
(* broadcast send; one persist signal; one reply or event write.  Parsing  *)
(* a line touches nothing shared, so it is joined to the step that follows *)
(* it, except where handle_line reads the clock before it waits for the    *)
(* lock (peers, claim_acquire, claim_release, claim_list): the connection  *)
(* then keeps that reading in now[c] while others may run.                 *)
(*                                                                         *)
(* Data left out: pid, cwd, node, free-form intent, last tool, reasons and *)
(* payloads, and the contents of replies.  Blank lines are ignored by the  *)
(* code and do not appear.                                                 *)
(***************************************************************************)
EXTENDS Integers, Sequences, FiniteSets

SeqExt == INSTANCE SequencesExt

CONSTANTS
  Conns,             \* connection ids; run_daemon never reuses one
  Sessions,          \* session ids
  Paths,             \* canonical paths that can be claimed
  Topics,            \* topics clients publish, each a sequence of parts
  Prefixes,          \* prefixes clients subscribe to, sequences of parts
  StickyValues,      \* non-empty values of the sticky intent fields
  Messages,          \* the lines clients may send
  Journaled,         \* durable states the state file may hold at start
  HeartbeatTimeout,  \* --heartbeat-timeout, in seconds
  BroadcastCapacity, \* slots of the broadcast channel
  PersistCapacity,   \* slots of the persist-signal channel
  StartTime,         \* the second in which the daemon starts
  MaxTime,           \* bound: the last second of the model
  MaxRequests,       \* bound: lines the daemon reads in all
  Quitters,          \* bound: connections whose client may hang up
  None, Absent, Empty

Fields == {"skill", "prd_slug", "working_paths"}
Sticky == StickyValues \cup {Empty}
StickyIntent == [Fields -> Sticky]
NoIntent == [f \in Fields |-> Empty]

\* The ops of the line protocol.  "malformed" stands for a line that is not a
\* ClientMessage, "unreadable" for one next_line fails on, "oversized" for more than
\* MAX_WORKING_PATHS working paths.
ClientMessage ==
  [op: {"announce"}, sid: Sessions]
    \cup [op: {"update", "peers", "claim_list", "uplink_status", "malformed",
        "unreadable"}]
    \cup [op: {"heartbeat"}, set: [Fields -> Sticky \cup {Absent}], oversized: BOOLEAN]
    \cup [op: {"publish"}, topic: Topics]
    \cup [op: {"subscribe"}, prefix: Prefixes]
    \cup [op: {"claim_acquire"}, path: Paths, ttl: Nat, force: BOOLEAN]
    \cup [op: {"claim_release"}, path: Paths]

ClaimRecord == [sid: Sessions, ttl: Nat]
PeerRecord == [hb: Nat, sticky: StickyIntent]
DurableState ==
  [claims: [Paths -> ClaimRecord \cup {None}], intents: [Sessions -> StickyIntent]]

ClaimAcquire == <<"claim", "acquire">>
ClaimRelease == <<"claim", "release">>
BroadcastMsg ==
  [topic: Topics \cup {ClaimAcquire, ClaimRelease}, path: Paths \cup {None},
   sid: Sessions]

ASSUME MessagesAssumption == Messages \subseteq ClientMessage
ASSUME JournaledAssumption == Journaled \subseteq DurableState
ASSUME NumbersAssumption ==
  /\ HeartbeatTimeout \in Nat
  /\ BroadcastCapacity \in Nat \ {0}
  /\ PersistCapacity \in Nat \ {0}
  /\ StartTime \in Nat
  /\ MaxTime \in Nat
  /\ MaxRequests \in Nat
  /\ Quitters \subseteq Conns
ASSUME AbsenceAssumption ==
  /\ None \notin Sessions \cup Conns \cup Paths \cup PeerRecord \cup ClaimRecord
  /\ Absent \notin Sticky
  /\ Empty \notin StickyValues

VARIABLES
  clock,        \* SystemTime::now in whole seconds
  daemon,       \* where run_daemon is
  requests,     \* lines read so far (bounds the model)
  pc,           \* where connection c's task is
  gone,         \* the client has closed its end of c
  session,      \* session_id of c's task, None before the announce
  req,          \* the message c's task is handling, None between messages
  now,          \* the clock c's task read before it asked for the lock
  prefixes,     \* subscribed_prefixes of c's task
  rx,           \* next broadcast position c reads; 0 while c has no receiver
  peers,        \* BusState.peers
  peer_owners,  \* BusState.peer_owners
  claims,       \* BusState.claims
  intents,      \* BusState.intents; NoIntent where the map has no entry
  log,          \* every broadcast, the channel keeps the last BroadcastCapacity
  signals,      \* queued persist signals
  persister,    \* where the persist task is
  handed,       \* the durable state last handed to persist::save; at start, the one loaded
  since,        \* history: since[c][p] = first position c's subscription to p covers
  out,          \* history: broadcast positions written to c's client, in order
  missed,       \* history: broadcast positions c skipped because it lagged
  freed         \* history: claims on p removed by a release or an eviction

connVars == <<pc, gone, session, req, now, prefixes, rx>>
stateVars == <<peers, peer_owners, claims, intents>>
persistVars == <<signals, persister, handed>>
historyVars == <<since, out, missed, freed>>
vars == <<clock, daemon, requests, connVars, stateVars, log, persistVars, historyVars>>

-----------------------------------------------------------------------------
(* BusState *)

Live(c, t) == c # None /\ c.ttl > t

\* BusState::prune_expired_claims applied to a claims table.
PruneExpired(cl, t) == [p \in Paths |-> IF Live(cl[p], t) THEN cl[p] ELSE None]

ToDurable == [claims |-> claims, intents |-> intents]

\* "Heartbeat-touch": only a listed peer has a record to refresh.
Touch(pr, s, t) == IF pr[s] = None THEN pr ELSE [pr EXCEPT ![s].hb = t]

\* Prune of the peers op; a record from a later second counts as age zero.
PruneStale(pr, t) ==
  [s \in Sessions |->
     IF pr[s] # None /\ t - pr[s].hb <= HeartbeatTimeout THEN pr[s] ELSE None]

(* The channels *)

\* broadcast::Sender::send
Broadcast(topic, path, sid) ==
  log' = Append(log, [topic |-> topic, path |-> path, sid |-> sid])

\* Mutant: the signal channel has no limit.
TrySendUnbounded == signals' = signals + 1

\* mpsc::Sender::try_send: a full channel drops the signal.
TrySend == signals' = IF signals < PersistCapacity THEN signals + 1 ELSE signals

\* topic.starts_with(prefix), and the empty prefix matches every topic.
TopicMatches(ps, topic) == ps = {} \/ \E p \in ps : SeqExt!IsPrefix(p, topic)

-----------------------------------------------------------------------------
(* A connection's task outside handle_line *)

Terminal == {"new", "closed", "failed", "aborted"}

\* The accept arm of run_daemon; every connection gets an id of its own.
Accept(c) ==
  /\ daemon = "running"
  /\ pc[c] = "new"
  /\ pc' = [pc EXCEPT ![c] = "idle"]
  /\ UNCHANGED <<clock, daemon, requests, gone, session, req, now, prefixes, rx,
                 stateVars, log, persistVars, historyVars>>

\* The client closes its end, at any moment that still matters to the task.
Hangup(c) ==
  /\ c \in Quitters
  /\ pc[c] \notin Terminal \cup {"bail", "cleanup"}
  /\ ~gone[c]
  /\ gone' = [gone EXCEPT ![c] = TRUE]
  /\ UNCHANGED <<clock, daemon, requests, pc, session, req, now, prefixes, rx,
                 stateVars, log, persistVars, historyVars>>

\* next_line returns None: leave the loop.
Eof(c) ==
  /\ pc[c] = "idle"
  /\ gone[c]
  /\ pc' = [pc EXCEPT ![c] = "cleanup"]
  /\ UNCHANGED <<clock, daemon, requests, gone, session, req, now, prefixes, rx,
                 stateVars, log, persistVars, historyVars>>

\* Mutant: the record goes, its entry in peer_owners stays.
CleanupKeepsOwner(c) ==
  /\ pc[c] = "cleanup"
  /\ pc' = [pc EXCEPT ![c] = "closed"]
  /\ LET s == session[c] IN
       peers' = IF s # None /\ peer_owners[s] = c
                THEN [peers EXCEPT ![s] = None] ELSE peers
  /\ UNCHANGED <<clock, daemon, requests, gone, session, req, now, prefixes, rx,
                 peer_owners, claims, intents, log, persistVars, historyVars>>

\* Mutant: a guest's disconnect removes the record too.
CleanupByAnyone(c) ==
  /\ pc[c] = "cleanup"
  /\ pc' = [pc EXCEPT ![c] = "closed"]
  /\ LET s == session[c] IN
       IF s # None
       THEN /\ peers' = [peers EXCEPT ![s] = None]
            /\ peer_owners' = [peer_owners EXCEPT ![s] = None]
       ELSE UNCHANGED <<peers, peer_owners>>
  /\ UNCHANGED <<clock, daemon, requests, gone, session, req, now, prefixes, rx,
                 claims, intents, log, persistVars, historyVars>>

\* The section after the loop; reached only by a task that left it by break.
Cleanup(c) ==
  /\ pc[c] = "cleanup"
  /\ pc' = [pc EXCEPT ![c] = "closed"]
  /\ LET s == session[c] IN
       IF s # None /\ peer_owners[s] = c
       THEN /\ peers' = [peers EXCEPT ![s] = None]
            /\ peer_owners' = [peer_owners EXCEPT ![s] = None]
       ELSE UNCHANGED <<peers, peer_owners>>
  /\ UNCHANGED <<clock, daemon, requests, gone, session, req, now, prefixes, rx,
                 claims, intents, log, persistVars, historyVars>>

\* rx.recv fell behind the channel: it skips to the oldest message still there.
Lagged(c) ==
  /\ pc[c] = "idle"
  /\ rx[c] # 0
  /\ LET oldest == Len(log) - BroadcastCapacity + 1 IN
       /\ rx[c] < oldest
       /\ rx' = [rx EXCEPT ![c] = oldest]
       /\ missed' = [missed EXCEPT ![c] = @ \cup rx[c]..(oldest - 1)]
  /\ UNCHANGED <<clock, daemon, requests, pc, gone, session, req, now, prefixes,
                 stateVars, log, persistVars, since, out, freed>>

\* rx.recv returns a message.  Writing an event to a client that is gone fails,
\* and the task returns from handle_connection without its cleanup.
Deliver(c) ==
  /\ pc[c] = "idle"
  /\ rx[c] # 0
  /\ rx[c] \in (Len(log) - BroadcastCapacity + 1)..Len(log)
  /\ rx' = [rx EXCEPT ![c] = @ + 1]
  /\ LET wanted == TopicMatches(prefixes[c], log[rx[c]].topic) IN
       /\ out' = IF wanted /\ ~gone[c] THEN [out EXCEPT ![c] = Append(@, rx[c])] ELSE out
       /\ pc' = IF wanted /\ gone[c] THEN [pc EXCEPT ![c] = "failed"] ELSE pc
  /\ UNCHANGED <<clock, daemon, requests, gone, session, req, now, prefixes,
                 stateVars, log, persistVars, since, missed, freed>>

\* drain_rx.recv: a subscriber is told, best effort, and the task leaves the loop.
Drain(c) ==
  /\ daemon \in {"draining", "aborting"}
  /\ pc[c] = "idle"
  /\ pc' = [pc EXCEPT ![c] = "cleanup"]
  /\ UNCHANGED <<clock, daemon, requests, gone, session, req, now, prefixes, rx,
                 stateVars, log, persistVars, historyVars>>

\* Mutant: a task waiting for its client to take a reply is not interrupted.
AbortUnlessWriting(c) ==
  /\ daemon = "aborting"
  /\ pc[c] \in {"idle", "lock", "cleanup"}
  /\ pc' = [pc EXCEPT ![c] = "aborted"]
  /\ UNCHANGED <<clock, daemon, requests, gone, session, req, now, prefixes, rx,
                 stateVars, log, persistVars, historyVars>>

\* A task dropped by abort_all.  Only an await can be interrupted: never the
\* stretch from the end of a critical section to the reply.
Abort(c) ==
  /\ daemon = "aborting"
  /\ pc[c] \in {"idle", "lock", "reply", "error", "bail", "cleanup"}
  /\ pc' = [pc EXCEPT ![c] = "aborted"]
  /\ UNCHANGED <<clock, daemon, requests, gone, session, req, now, prefixes, rx,
                 stateVars, log, persistVars, historyVars>>

-----------------------------------------------------------------------------
(* handle_line *)

\* c's task reads a line.
ReadLine(c) ==
  /\ pc[c] = "idle"
  /\ ~gone[c]
  /\ requests < MaxRequests
  /\ requests' = requests + 1

\* next_line fails, on a line that is not UTF-8 say: the task leaves the loop as at
\* the end of the stream, though its client is still there.
ReadError(c, m) ==
  /\ m.op = "unreadable"
  /\ ReadLine(c)
  /\ pc' = [pc EXCEPT ![c] = "cleanup"]
  /\ UNCHANGED <<clock, daemon, gone, session, req, now, prefixes, rx,
                 stateVars, log, persistVars, historyVars>>

\* It goes on with message m at the given label.
Continue(c, m, label) ==
  /\ pc' = [pc EXCEPT ![c] = label]
  /\ req' = [req EXCEPT ![c] = m]

\* All that is left to do is to write a reply with ok, or one with an error.
Finish(c, label) ==
  /\ pc' = [pc EXCEPT ![c] = label]
  /\ req' = [req EXCEPT ![c] = None]
  /\ now' = [now EXCEPT ![c] = 0]
Answer(c) == Finish(c, "reply")
Refuse(c) == Finish(c, "error")

\* A line that closes the connection: not JSON, or anything before the announce.
Reject(c, m) ==
  /\ \/ m.op = "malformed"
     \/ session[c] = None /\ m.op \notin {"announce", "unreadable"}
  /\ ReadLine(c)
  /\ pc' = [pc EXCEPT ![c] = "bail"]
  /\ UNCHANGED <<clock, daemon, gone, session, req, now, prefixes, rx,
                 stateVars, log, persistVars, historyVars>>

\* A line answered without touching BusState: uplink_status, and two mistakes
\* that leave the connection open.
UplinkStatus(c, m) ==
  /\ m.op = "uplink_status"
  /\ session[c] # None
  /\ ReadLine(c)
  /\ Answer(c)
  /\ UNCHANGED <<clock, daemon, gone, session, prefixes, rx,
                 stateVars, log, persistVars, historyVars>>

AlreadyAnnounced(c, m) ==
  /\ m.op = "announce"
  /\ session[c] # None
  /\ ReadLine(c)
  /\ Refuse(c)
  /\ UNCHANGED <<clock, daemon, gone, session, prefixes, rx,
                 stateVars, log, persistVars, historyVars>>

TooManyPaths(c, m) ==
  /\ m.op = "heartbeat"
  /\ m.oversized
  /\ session[c] # None
  /\ ReadLine(c)
  /\ Refuse(c)
  /\ UNCHANGED <<clock, daemon, gone, session, prefixes, rx,
                 stateVars, log, persistVars, historyVars>>

\* Mutant: the newest connection takes the session over.
AnnounceTakesOver(c, m) ==
  /\ m.op = "announce"
  /\ session[c] = None
  /\ ReadLine(c)
  /\ Answer(c)
  /\ session' = [session EXCEPT ![c] = m.sid]
  /\ peers' = [peers EXCEPT ![m.sid] = [hb |-> clock, sticky |-> NoIntent]]
  /\ peer_owners' = [peer_owners EXCEPT ![m.sid] = c]
  /\ UNCHANGED <<clock, daemon, gone, prefixes, rx,
                 claims, intents, log, persistVars, historyVars>>

\* The first connection to announce a session owns its record; a later one is a
\* guest.  A new record starts with no sticky intent.
Announce(c, m) ==
  /\ m.op = "announce"
  /\ session[c] = None
  /\ ReadLine(c)
  /\ Answer(c)
  /\ session' = [session EXCEPT ![c] = m.sid]
  /\ IF peer_owners[m.sid] = None
     THEN /\ peers' = [peers EXCEPT ![m.sid] = [hb |-> clock, sticky |-> NoIntent]]
          /\ peer_owners' = [peer_owners EXCEPT ![m.sid] = c]
     ELSE UNCHANGED <<peers, peer_owners>>
  /\ UNCHANGED <<clock, daemon, gone, prefixes, rx,
                 claims, intents, log, persistVars, historyVars>>

Update(c, m) ==
  /\ m.op = "update"
  /\ session[c] # None
  /\ ReadLine(c)
  /\ Answer(c)
  /\ peers' = Touch(peers, session[c], clock)
  /\ UNCHANGED <<clock, daemon, gone, session, prefixes, rx, peer_owners,
                 claims, intents, log, persistVars, historyVars>>

\* Mutant: only a change of the skill counts as a change.
HeartbeatSkillOnly(c, m) ==
  /\ m.op = "heartbeat"
  /\ ~m.oversized
  /\ session[c] # None
  /\ ReadLine(c)
  /\ LET s == session[c]
         old == peers[s].sticky
         new == [f \in Fields |-> IF m.set[f] = Absent THEN old[f] ELSE m.set[f]]
         changed == peers[s] # None /\ new["skill"] # old["skill"]
     IN /\ IF changed THEN Continue(c, m, "signal") /\ UNCHANGED now ELSE Answer(c)
        /\ peers' = IF peers[s] = None THEN peers
                    ELSE [peers EXCEPT ![s] = [hb |-> clock, sticky |-> new]]
        /\ intents' = IF changed THEN [intents EXCEPT ![s] = new] ELSE intents
  /\ UNCHANGED <<clock, daemon, gone, session, prefixes, rx, peer_owners,
                 claims, log, persistVars, historyVars>>

\* The sticky fields a heartbeat carries replace those of the record; intents
\* follows only when that changed the record.
Heartbeat(c, m) ==
  /\ m.op = "heartbeat"
  /\ ~m.oversized
  /\ session[c] # None
  /\ ReadLine(c)
  /\ LET s == session[c]
         old == peers[s].sticky
         new == [f \in Fields |-> IF m.set[f] = Absent THEN old[f] ELSE m.set[f]]
         changed == peers[s] # None /\ new # old
     IN /\ IF changed THEN Continue(c, m, "signal") /\ UNCHANGED now ELSE Answer(c)
        /\ peers' = IF peers[s] = None THEN peers
                    ELSE [peers EXCEPT ![s] = [hb |-> clock, sticky |-> new]]
        /\ intents' = IF changed THEN [intents EXCEPT ![s] = new] ELSE intents
  /\ UNCHANGED <<clock, daemon, gone, session, prefixes, rx, peer_owners,
                 claims, log, persistVars, historyVars>>

\* Mutant: every subscribe replaces the receiver.
SubscribeAfresh(c, m) ==
  /\ m.op = "subscribe"
  /\ session[c] # None
  /\ ReadLine(c)
  /\ Answer(c)
  /\ prefixes' = [prefixes EXCEPT ![c] = @ \cup {m.prefix}]
  /\ rx' = [rx EXCEPT ![c] = Len(log) + 1]
  /\ since' = IF m.prefix \in prefixes[c] THEN since
              ELSE [since EXCEPT ![c][m.prefix] = Len(log) + 1]
  /\ UNCHANGED <<clock, daemon, gone, session,
                 stateVars, log, persistVars, out, missed, freed>>

\* Only the first subscribe creates the receiver, at the tail of the channel.
Subscribe(c, m) ==
  /\ m.op = "subscribe"
  /\ session[c] # None
  /\ ReadLine(c)
  /\ Answer(c)
  /\ prefixes' = [prefixes EXCEPT ![c] = @ \cup {m.prefix}]
  /\ rx' = IF rx[c] = 0 THEN [rx EXCEPT ![c] = Len(log) + 1] ELSE rx
  /\ since' = IF m.prefix \in prefixes[c] THEN since
              ELSE [since EXCEPT ![c][m.prefix] = Len(log) + 1]
  /\ UNCHANGED <<clock, daemon, gone, session,
                 stateVars, log, persistVars, out, missed, freed>>

\* Publish sends first; the heartbeat is refreshed under the lock afterwards.
Publish(c, m) ==
  /\ m.op = "publish"
  /\ session[c] # None
  /\ ReadLine(c)
  /\ Continue(c, m, "lock")
  /\ Broadcast(m.topic, None, session[c])
  /\ UNCHANGED <<clock, daemon, gone, session, now, prefixes, rx,
                 stateVars, persistVars, historyVars>>

\* The ops that read the clock before they wait for the lock.
ReadClock(c, m) ==
  /\ m.op \in {"peers", "claim_acquire", "claim_release", "claim_list"}
  /\ session[c] # None
  /\ ReadLine(c)
  /\ Continue(c, m, "lock")
  /\ now' = [now EXCEPT ![c] = clock]
  /\ UNCHANGED <<clock, daemon, gone, session, prefixes, rx,
                 stateVars, log, persistVars, historyVars>>

Locked(c, op) == pc[c] = "lock" /\ req[c].op = op

PublishTouch(c) ==
  /\ Locked(c, "publish")
  /\ Answer(c)
  /\ peers' = Touch(peers, session[c], clock)
  /\ UNCHANGED <<clock, daemon, requests, gone, session, prefixes, rx,
                 peer_owners, claims, intents, log, persistVars, historyVars>>

\* Stale records are dropped; peer_owners keeps their owners.
PeersList(c) ==
  /\ Locked(c, "peers")
  /\ Answer(c)
  /\ peers' = PruneStale(peers, now[c])
  /\ UNCHANGED <<clock, daemon, requests, gone, session, prefixes, rx,
                 peer_owners, claims, intents, log, persistVars, historyVars>>

\* Mutant: a forced acquire evicts without a claim.release.
AcquireSilently(c) ==
  /\ Locked(c, "claim_acquire")
  /\ LET p == req[c].path
         s == session[c]
         table == PruneExpired(claims, now[c])
         foreign == table[p] # None /\ table[p].sid # s
     IN IF foreign /\ ~req[c].force
        THEN /\ Refuse(c)
             /\ claims' = table
             /\ UNCHANGED <<peers, freed>>
        ELSE /\ Continue(c, req[c], "signal") /\ UNCHANGED now
             /\ claims' = [table EXCEPT ![p] = [sid |-> s, ttl |-> req[c].ttl]]
             /\ peers' = Touch(peers, s, now[c])
             /\ freed' = IF foreign THEN [freed EXCEPT ![p] = @ + 1] ELSE freed
  /\ UNCHANGED <<clock, daemon, requests, gone, session, prefixes, rx, log,
                 peer_owners, intents, persistVars, since, out, missed>>

\* A conflict leaves everything but the pruned table alone.  A forced acquire
\* announces the release of the session it evicts before it lets the lock go.
Acquire(c) ==
  /\ Locked(c, "claim_acquire")
  /\ LET p == req[c].path
         s == session[c]
         table == PruneExpired(claims, now[c])
         foreign == table[p] # None /\ table[p].sid # s
     IN IF foreign /\ ~req[c].force
        THEN /\ Refuse(c)
             /\ claims' = table
             /\ UNCHANGED <<peers, log, freed>>
        ELSE /\ Continue(c, req[c], "signal") /\ UNCHANGED now
             /\ claims' = [table EXCEPT ![p] = [sid |-> s, ttl |-> req[c].ttl]]
             /\ peers' = Touch(peers, s, now[c])
             /\ IF foreign
                THEN /\ Broadcast(ClaimRelease, p, table[p].sid)
                     /\ freed' = [freed EXCEPT ![p] = @ + 1]
                ELSE UNCHANGED <<log, freed>>
  /\ UNCHANGED <<clock, daemon, requests, gone, session, prefixes, rx,
                 peer_owners, intents, persistVars, since, out, missed>>

\* Mutant: anyone's release frees the path.
ReleaseAnyHolder(c) ==
  /\ Locked(c, "claim_release")
  /\ LET p == req[c].path
         table == PruneExpired(claims, now[c])
         released == table[p] # None
     IN /\ IF released THEN Continue(c, req[c], "signal") /\ UNCHANGED now ELSE Answer(c)
        /\ claims' = IF released THEN [table EXCEPT ![p] = None] ELSE table
        /\ freed' = IF released THEN [freed EXCEPT ![p] = @ + 1] ELSE freed
  /\ peers' = Touch(peers, session[c], now[c])
  /\ UNCHANGED <<clock, daemon, requests, gone, session, prefixes, rx,
                 peer_owners, intents, log, persistVars, since, out, missed>>

\* Mutant: the persist task is not woken.
ReleaseUnsignalled(c) ==
  /\ Locked(c, "claim_release")
  /\ LET p == req[c].path
         table == PruneExpired(claims, now[c])
         released == table[p] # None /\ table[p].sid = session[c]
     IN /\ IF released THEN Continue(c, req[c], "send") /\ UNCHANGED now ELSE Answer(c)
        /\ claims' = IF released THEN [table EXCEPT ![p] = None] ELSE table
        /\ freed' = IF released THEN [freed EXCEPT ![p] = @ + 1] ELSE freed
  /\ peers' = Touch(peers, session[c], now[c])
  /\ UNCHANGED <<clock, daemon, requests, gone, session, prefixes, rx,
                 peer_owners, intents, log, persistVars, since, out, missed>>

Release(c) ==
  /\ Locked(c, "claim_release")
  /\ LET p == req[c].path
         table == PruneExpired(claims, now[c])
         released == table[p] # None /\ table[p].sid = session[c]
     IN /\ IF released THEN Continue(c, req[c], "signal") /\ UNCHANGED now ELSE Answer(c)
        /\ claims' = IF released THEN [table EXCEPT ![p] = None] ELSE table
        /\ freed' = IF released THEN [freed EXCEPT ![p] = @ + 1] ELSE freed
  /\ peers' = Touch(peers, session[c], now[c])
  /\ UNCHANGED <<clock, daemon, requests, gone, session, prefixes, rx,
                 peer_owners, intents, log, persistVars, since, out, missed>>

List(c) ==
  /\ Locked(c, "claim_list")
  /\ Answer(c)
  /\ claims' = PruneExpired(claims, now[c])
  /\ UNCHANGED <<clock, daemon, requests, gone, session, prefixes, rx,
                 peers, peer_owners, intents, log, persistVars, historyVars>>

\* After the lock: wake the persist task, then tell the bus, then the client.
Signal(c) ==
  /\ pc[c] = "signal"
  /\ TrySend
  /\ IF req[c].op = "heartbeat" THEN Answer(c)
     ELSE Continue(c, req[c], "send") /\ UNCHANGED now
  /\ UNCHANGED <<clock, daemon, requests, gone, session, prefixes, rx,
                 stateVars, log, persister, handed, historyVars>>

Send(c) ==
  /\ pc[c] = "send"
  /\ Broadcast(IF req[c].op = "claim_acquire" THEN ClaimAcquire ELSE ClaimRelease,
               req[c].path, session[c])
  /\ Answer(c)
  /\ UNCHANGED <<clock, daemon, requests, gone, session, prefixes, rx,
                 stateVars, persistVars, historyVars>>

\* write_json_line of the reply: when the client is gone the `?` ends the task
\* without its cleanup.
Reply(c) ==
  /\ pc[c] \in {"reply", "error"}
  /\ pc' = [pc EXCEPT ![c] = IF gone[c] THEN "failed" ELSE "idle"]
  /\ UNCHANGED <<clock, daemon, requests, gone, session, req, now, prefixes, rx,
                 stateVars, log, persistVars, historyVars>>

\* An error reply followed by bail!: again no cleanup.
Bail(c) ==
  /\ pc[c] = "bail"
  /\ pc' = [pc EXCEPT ![c] = "failed"]
  /\ UNCHANGED <<clock, daemon, requests, gone, session, req, now, prefixes, rx,
                 stateVars, log, persistVars, historyVars>>

-----------------------------------------------------------------------------
(* The persist task: recv, debounce, drain the channel, take a snapshot under
   the lock and save it.  What a save does to the state file, failures and
   two saves at once included, is module Journal's subject: a save that
   fails is logged and forgotten, and changes nothing here. *)

persistElse == <<clock, daemon, requests, connVars, stateVars, log, historyVars>>

PersistRecv ==
  /\ persister = "recv"
  /\ signals > 0
  /\ signals' = signals - 1
  /\ persister' = "debounce"
  /\ UNCHANGED <<persistElse, handed>>

PersistDrain ==
  /\ persister = "debounce"
  /\ signals' = 0
  /\ persister' = "snapshot"
  /\ UNCHANGED <<persistElse, handed>>

PersistSnapshot ==
  /\ persister = "snapshot"
  /\ handed' = ToDurable
  /\ persister' = "save"
  /\ UNCHANGED <<persistElse, signals>>

\* save returns, with or without success.
PersistSave ==
  /\ persister = "save"
  /\ persister' = "recv"
  /\ UNCHANGED <<persistElse, signals, handed>>

-----------------------------------------------------------------------------
(* run_daemon *)

daemonElse == <<clock, requests, connVars, stateVars, log, signals, persister, historyVars>>

\* The shutdown future resolves: the socket goes, the drain notice is sent.
Shutdown ==
  /\ daemon = "running"
  /\ daemon' = "draining"
  /\ UNCHANGED <<daemonElse, handed>>

\* The grace window ends: abort_all.
AbortAll ==
  /\ daemon = "draining"
  /\ daemon' = "aborting"
  /\ UNCHANGED <<daemonElse, handed>>

\* Mutant: the connection tasks are not joined before the final flush.
FinalSnapshotAtOnce ==
  /\ daemon = "aborting"
  /\ daemon' = "flushing"
  /\ handed' = ToDurable
  /\ UNCHANGED daemonElse

\* Every connection task has been joined: the final flush takes its snapshot, while
\* the persist task may be anywhere, in the middle of a save included ...
FinalSnapshot ==
  /\ daemon = "aborting"
  /\ \A c \in Conns : pc[c] \in Terminal
  /\ daemon' = "flushing"
  /\ handed' = ToDurable
  /\ UNCHANGED daemonElse

\* ... and saves it, with or without success.
FinalSave ==
  /\ daemon = "flushing"
  /\ daemon' = "flushed"
  /\ UNCHANGED <<daemonElse, handed>>

\* With the last sender dropped the persist task empties the channel and ends.
Exit ==
  /\ daemon = "flushed"
  /\ persister = "recv"
  /\ signals = 0
  /\ daemon' = "stopped"
  /\ UNCHANGED <<daemonElse, handed>>

\* Nothing happens after the process has exited.
Stopped == daemon = "stopped" /\ UNCHANGED vars

Tick ==
  /\ clock < MaxTime
  /\ clock' = clock + 1
  /\ UNCHANGED <<daemon, requests, connVars, stateVars, log, persistVars, historyVars>>

-----------------------------------------------------------------------------

\* A start: the journal is loaded and pruned, there are no peers yet.
Init ==
  /\ clock = StartTime
  /\ daemon = "running"
  /\ requests = 0
  /\ pc = [c \in Conns |-> "new"]
  /\ gone = [c \in Conns |-> FALSE]
  /\ session = [c \in Conns |-> None]
  /\ req = [c \in Conns |-> None]
  /\ now = [c \in Conns |-> 0]
  /\ prefixes = [c \in Conns |-> {}]
  /\ rx = [c \in Conns |-> 0]
  /\ peers = [s \in Sessions |-> None]
  /\ peer_owners = [s \in Sessions |-> None]
  /\ handed \in Journaled
  /\ claims = PruneExpired(handed.claims, StartTime)
  /\ intents = handed.intents
  /\ log = <<>>
  /\ signals = 0
  /\ persister = "recv"
  /\ since = [c \in Conns |-> [p \in Prefixes |-> 0]]
  /\ out = [c \in Conns |-> <<>>]
  /\ missed = [c \in Conns |-> {}]
  /\ freed = [p \in Paths |-> 0]

HandleLine(c) ==
  \E m \in Messages :
    \/ ReadError(c, m) \/ Reject(c, m) \/ UplinkStatus(c, m) \/ AlreadyAnnounced(c, m)
    \/ TooManyPaths(c, m)
    \/ Announce(c, m) \/ Update(c, m) \/ Heartbeat(c, m) \/ Subscribe(c, m)
    \/ Publish(c, m) \/ ReadClock(c, m)

\* What c's task does by itself once it is handling a message or leaving.
Proceed(c) ==
  \/ PublishTouch(c) \/ PeersList(c) \/ Acquire(c) \/ Release(c) \/ List(c)
  \/ Signal(c) \/ Send(c) \/ Cleanup(c) \/ Abort(c)

PersistTask == PersistRecv \/ PersistDrain \/ PersistSnapshot \/ PersistSave

Main == Shutdown \/ AbortAll \/ FinalSnapshot \/ FinalSave \/ Exit

Next ==
  \/ \E c \in Conns :
       \/ Accept(c) \/ Hangup(c) \/ Eof(c) \/ Lagged(c) \/ Deliver(c) \/ Drain(c)
       \/ HandleLine(c) \/ Proceed(c) \/ Reply(c) \/ Bail(c)
  \/ PersistTask
  \/ Main
  \/ Stopped
  \/ Tick

Spec == Init /\ [][Next]_vars

\* The scheduling the code can count on: a task that is ready runs, the mutex is
\* fair, and a shutdown that has begun goes on.  Nothing is assumed of a client:
\* it may never send, read a reply or hang up.
Fairness ==
  /\ \A c \in Conns : WF_vars(Proceed(c))
  /\ WF_vars(PersistTask)
  /\ WF_vars(AbortAll \/ FinalSnapshot \/ FinalSave \/ Exit)

FairSpec == Spec /\ Fairness

-----------------------------------------------------------------------------
(* Properties *)

TypeOK ==
  /\ clock \in Nat
  /\ daemon \in {"running", "draining", "aborting", "flushing", "flushed", "stopped"}
  /\ requests \in Nat
  /\ pc \in [Conns -> {"new", "idle", "lock", "signal", "send", "reply", "error", "bail",
                       "cleanup", "closed", "failed", "aborted"}]
  /\ gone \in [Conns -> BOOLEAN]
  /\ session \in [Conns -> Sessions \cup {None}]
  /\ req \in [Conns -> ClientMessage \cup {None}]
  /\ now \in [Conns -> Nat]
  /\ prefixes \in [Conns -> SUBSET Prefixes]
  /\ rx \in [Conns -> Nat]
  /\ peers \in [Sessions -> PeerRecord \cup {None}]
  /\ peer_owners \in [Sessions -> Conns \cup {None}]
  /\ claims \in [Paths -> ClaimRecord \cup {None}]
  /\ intents \in [Sessions -> StickyIntent]
  /\ log \in Seq(BroadcastMsg)
  /\ signals \in 0..PersistCapacity
  /\ persister \in {"recv", "debounce", "snapshot", "save"}
  /\ handed \in DurableState
  /\ since \in [Conns -> [Prefixes -> Nat]]
  /\ out \in [Conns -> Seq(Nat)]
  /\ missed \in [Conns -> SUBSET Nat]
  /\ freed \in [Paths -> Nat]

\* A listed session has an owner, and an owner is a connection that announced
\* that very session and has not run its cleanup: a record can never be left
\* with nobody in charge of removing it by an orderly disconnect.
Ownership ==
  \A s \in Sessions :
    /\ peers[s] # None => peer_owners[s] # None
    /\ \A c \in Conns : peer_owners[s] = c =>
         session[c] = s /\ pc[c] \notin {"new", "closed"}

\* A record disappears only because its owner is disconnecting, or because its
\* heartbeat stamp is older than the timeout by the clock of that moment: a guest that
\* comes and goes, or a peers request that read its clock and then waited for the lock,
\* never removes a record with a recent stamp.  The stamp is not the peer's last
\* message: subscribe, peers, claim_list, uplink_status, refused acquires and a guest's
\* announce leave it alone, and a claim request sets it to a clock read earlier.
DelistedByOwnerOrStamp ==
  [][\A s \in Sessions :
       (peers[s] # None /\ peers'[s] = None) =>
         \/ clock - peers[s].hb > HeartbeatTimeout
         \/ \E c \in Conns : peer_owners[s] = c /\ pc[c] = "cleanup"]_vars

\* Nobody inherits a session.  A record and an owner come only with an announce
\* that finds the session without an owner: the guest that stays when the owner
\* leaves is not promoted, and nothing that a guest, or an owner whose record was
\* pruned, sends lists the session again.
NobodyInherits ==
  [][\A s \in Sessions :
       (\/ peers[s] = None /\ peers'[s] # None
        \/ peer_owners'[s] \notin {peer_owners[s], None})
       => /\ peer_owners[s] = None
          /\ \E c \in Conns :
               session[c] = None /\ session'[c] = s /\ peer_owners'[s] = c]_vars

\* Sticky fields a record shows are the ones in the durable map, whatever mix of
\* owner and guest heartbeats, disconnects and re-announces led there.
StickyJournaled ==
  \A s \in Sessions :
    (peers[s] # None /\ peers[s].sticky # NoIntent) => intents[s] = peers[s].sticky

\* Every claim removed by a release or by a forced acquire is announced with
\* exactly one claim.release, sent or about to be sent; expiry is never announced.
\* Shutdown cannot come between the removal and the event.
ReleasesAnnounced ==
  \A p \in Paths :
    freed[p] =
      Cardinality({i \in 1..Len(log) : log[i].topic = ClaimRelease /\ log[i].path = p})
      + Cardinality({c \in Conns : /\ pc[c] \in {"signal", "send"}
                                   /\ req[c].op = "claim_release"
                                   /\ req[c].path = p})

\* No change of claims or intents is forgotten on its way to a save: what was last
\* handed to one, loaded now, would give the claims in force and the intents of the
\* daemon, unless another snapshot is certain to be taken.  (Whether the save succeeds
\* is left open; Journal says what follows when it does not.)
Current ==
  /\ PruneExpired(handed.claims, clock) = PruneExpired(claims, clock)
  /\ handed.intents = intents
SnapshotComing ==
  signals > 0 \/ persister \in {"debounce", "snapshot"} \/ \E c \in Conns : pc[c] = "signal"
HandedOver == Current \/ SnapshotComing

\* From the snapshot of the final flush on nothing changes the durable state: whatever
\* connection tasks were doing when they were aborted, it and every snapshot the persist
\* task still takes are the daemon's last word.
LastWord == daemon \in {"flushing", "flushed", "stopped"} => handed = ToDurable

\* A subscriber gets, in order and once each, every message published after it
\* subscribed to a matching prefix and that its receiver has passed, except those
\* the channel dropped because it lagged; a later subscribe loses nothing.
Delivery ==
  \A c \in Conns :
    /\ \A i, j \in 1..Len(out[c]) : i < j => out[c][i] < out[c][j]
    /\ \A p \in prefixes[c] : \A i \in since[c][p]..(rx[c] - 1) :
         SeqExt!IsPrefix(p, log[i].topic) =>
           i \in SeqExt!ToSet(out[c]) \cup missed[c] \/ pc[c] = "failed"

\* The claims of the running daemon behave as AdvisoryClaims says: pruning is
\* invisible, and the clock read before the lock never costs a holder its claim.
Asking ==
  {[kind |-> "acquire", sid |-> session[c], path |-> req[c].path, ttl |-> req[c].ttl,
    force |-> req[c].force] : c \in {d \in Conns : Locked(d, "claim_acquire")}}
  \cup
  {[kind |-> "release", sid |-> session[c], path |-> req[c].path] :
     c \in {d \in Conns : Locked(d, "claim_release")}}
AC == INSTANCE AdvisoryClaims WITH
        time <- clock, held <- PruneExpired(claims, clock), asking <- Asking,
        serving <- TRUE
ImplementsAdvisoryClaims == AC!Spec

\* Shutdown always completes, whatever the clients do (a stalled one included).
ShutdownCompletes == daemon = "draining" ~> daemon = "stopped"

\* An announce that is answered with ok leaves the session listed.
AnnounceIsRecorded ==
  [][\A c \in Conns : session'[c] # session[c] => peers'[session'[c]] # None]_vars

\* A heartbeat that sets a sticky field of a listed session to the empty value
\* clears the field in the durable map too.
ClearingIsDurable ==
  [][\A c \in Conns, m \in Messages, f \in Fields :
       (Heartbeat(c, m) /\ m.set[f] = Empty /\ peers[session[c]] # None)
         => intents'[session[c]][f] = Empty]_vars
=============================================================================
