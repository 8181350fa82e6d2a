----------------------------- MODULE ClaimGuard -----------------------------
(***************************************************************************)
(* ClaimGuard handles (claim_guard.rs) and the part of the daemon they     *)
(* talk to.  A guard acquires a path, renews its lease from a background   *)
(* task, reconnects when the bus is lost, and releases the path when it is *)
(* released or dropped.  Module ClaimWait adds the command line's clients  *)
(* and the specification.                                                  *)
(*                                                                         *)
(* There is one path: the daemon treats paths independently (module Bus).  *)
(* A connection is a pair of queues, requests the daemon has not handled   *)
(* and replies the client has not read: cancelling the renewal task leaves *)
(* a request unanswered on a connection that is used again.  A handler of  *)
(* the daemon is one step, as AdvisoryClaims allows.                       *)
(*                                                                         *)
(* Time is counted in ticks, TicksPerSecond to the second: leases are      *)
(* whole seconds, the renewal interval is not.                             *)
(***************************************************************************)
EXTENDS Integers, Sequences, FiniteSets

CONSTANTS
  Sessions,        \* session ids
  Guards,          \* ClaimGuard values, each created at most once
  Waiters,         \* `claim acquire` commands, see ClaimWait
  SessionOf,       \* the session each of them belongs to
  TicksPerSecond,
  Ttl,             \* ttl given to hold, in ticks
  MaxTime,         \* bound: the last tick of the model
  MaxRestarts,     \* bound: how often the daemon is restarted
  None

Clients == Guards \cup Waiters

ASSUME ClientSessions ==
  /\ SessionOf \in [Clients -> Sessions]
  /\ Guards \cap Waiters = {}
  /\ None \notin Clients
ASSUME GuardNumbers ==
  /\ TicksPerSecond \in Nat \ {0}
  /\ Ttl \in Nat \ {0}
  /\ MaxTime \in Nat
  /\ MaxRestarts \in Nat
ASSUME GuardAbsence == None \notin [sid: Sessions, ttl: Nat] /\ None \notin Nat

VARIABLES
  clock,     \* ticks
  bus,       \* whether a daemon is listening
  restarts,  \* how often it was restarted (bounds the model)
  saved,     \* the claim on the path in the daemon's state file, or None
  claim,     \* the daemon's claim on the path, or None
  events,    \* claim.release events each subscribed waiter has not read
  pc,        \* where each guard, with its renewal task, is
  ttl,       \* ttl_unix_secs of the acquire under way
  wake,      \* the tick at which the renewal task's sleep ends
  client,    \* the connection in the guard's Arc<Mutex<Client>>
  spare,     \* the connection try_reconnect_renew is setting up
  orphans,   \* requests left behind on connections that were closed
  lease,     \* history: end of the lease the guard was last told of, 0 if over
  granted,   \* history: end of the lease the daemon last granted each client, 0 if over
  undercut,  \* history: clients whose lease their session, a force or a lost save cut short
  maker,     \* history: the client whose acquire made the claim, None if an old save did
  confirmed, \* history: guards whose release() returned Ok
  crossed    \* history: guards cancelled with a request under way

tableVars == <<claim, events>>
guardVars == <<pc, ttl, wake, client, spare, lease, confirmed, crossed>>
historyVars == <<granted, undercut, maker>>
daemonVars == <<tableVars, historyVars>>
worldVars == <<clock, bus, restarts, saved>>
claimGuardVars == <<worldVars, daemonVars, guardVars, orphans>>

-----------------------------------------------------------------------------
(* Time *)

\* SystemTime::now in whole seconds.
Now == clock \div TicksPerSecond

\* ttl_unix_secs of an acquire made now: at least one second, the rest is cut.
LeaseEnd == Now + (IF Ttl < TicksPerSecond THEN 1 ELSE Ttl \div TicksPerSecond)

\* renew_interval.
RenewInterval == (2 * Ttl) \div 3

-----------------------------------------------------------------------------
(* The daemon's side *)

Request == [op: {"acquire"}, ttl: Nat, force: BOOLEAN] \cup [op: {"release"}]
AcquireUntil(t) == [op |-> "acquire", ttl |-> t, force |-> FALSE]
ReleaseRequest == [op |-> "release"]

InForce == claim # None /\ claim.ttl > Now
HeldBy(s) == InForce /\ claim.sid = s

\* Whether an acquire by session s succeeds.
\* Mutant: a claim in its last second is given away.
GrantsEarly(s, force) == HeldBy(s) \/ force \/ claim = None \/ claim.ttl <= Now + 1
Grants(s, force) == HeldBy(s) \/ force \/ ~InForce

\* The lease until t that the daemon granted client c is still in the table.
Backed(c, t) == claim # None /\ claim.sid = SessionOf[c] /\ claim.ttl >= t

\* The clients whose lease a change of the claim cuts short.
Undone == {d \in Clients : granted[d] > Now /\ ~Backed(d, granted[d])'}

\* Those among them whose lease a change made by client c may cut short.
CutShort(c, force) == {d \in Undone \ {c} : force \/ SessionOf[d] = SessionOf[c]}

\* The claim.release event reaches every subscribed waiter.
\* Mutant: it is not sent.
AnnounceUnsent == UNCHANGED events
Subscribed == {w \in Waiters : events[w] # None}
Announce == events' = [w \in Waiters |-> IF w \in Subscribed THEN events[w] + 1 ELSE None]

\* claim_acquire by client c; a conflict changes nothing.
TakeClaim(c, t, force) ==
  IF Grants(SessionOf[c], force)
  THEN /\ claim' = [sid |-> SessionOf[c], ttl |-> t]
       /\ granted' = [granted EXCEPT ![c] = t]
       /\ undercut' = (undercut \ {c}) \cup CutShort(c, force)
       /\ maker' = c
  ELSE UNCHANGED <<claim, historyVars>>

\* Forcing a conflict evicts the holder, which is announced.
HandleAcquire(c, t, force) ==
  /\ TakeClaim(c, t, force)
  /\ IF force /\ ~Grants(SessionOf[c], FALSE) THEN Announce ELSE UNCHANGED events

\* Mutant: whoever asks releases the claim.
HandleReleaseByAnyone(c) ==
  /\ IF InForce THEN claim' = None /\ Announce ELSE UNCHANGED tableVars
  /\ granted' = [granted EXCEPT ![c] = 0]
  /\ undercut' = undercut \cup CutShort(c, FALSE)
  /\ maker' = IF InForce THEN None ELSE maker

\* claim_release by client c: nothing unless its session holds the claim.
HandleRelease(c) ==
  /\ IF HeldBy(SessionOf[c]) THEN claim' = None /\ Announce ELSE UNCHANGED tableVars
  /\ granted' = [granted EXCEPT ![c] = 0]
  /\ undercut' = undercut \cup CutShort(c, FALSE)
  /\ maker' = IF HeldBy(SessionOf[c]) THEN None ELSE maker

HandleRequest(c, r) ==
  \/ r.op = "acquire" /\ HandleAcquire(c, r.ttl, r.force)
  \/ r.op = "release" /\ HandleRelease(c)

-----------------------------------------------------------------------------
(* Connections *)

Link == [alive: BOOLEAN, reqs: Seq(Request), reps: Seq(BOOLEAN)]
Closed == [alive |-> FALSE, reqs |-> <<>>, reps |-> <<>>]
Opened(r) == [alive |-> TRUE, reqs |-> <<r>>, reps |-> <<>>]

\* Client::send_line; it fails at once when the daemon has closed its end.
Sent(l, r) == IF l.alive THEN [l EXCEPT !.reqs = Append(@, r)] ELSE l

\* Client::read_reply: the next line, or an error once the daemon is gone.
Readable(l) == l.reps # <<>>
Broken(l) == l.reps = <<>> /\ ~l.alive
Read(l) == [l EXCEPT !.reps = Tail(@)]

\* The outcomes of claim_acquire: ok, or a conflict or transport error.
Succeeded(l) == Readable(l) /\ Head(l.reps)
Failed(l) == Broken(l) \/ (Readable(l) /\ ~Head(l.reps))

\* The daemon handles the first request of l, a connection of guard g, and answers.
Answered(g, l) ==
  LET r == Head(l.reqs)
      ok == r.op = "acquire" => Grants(SessionOf[g], r.force)
  IN [l EXCEPT !.reqs = Tail(@), !.reps = Append(@, ok)]

\* Closing a connection with requests on it: the daemon still handles the first,
\* fails to answer it and drops the rest.
Orphaned(g, l) ==
  IF l.alive /\ l.reqs # <<>> THEN {[c |-> g, req |-> Head(l.reqs)]} ELSE {}

\* What the end of the daemon leaves of a connection.
CutOff(l) == [Closed EXCEPT !.reps = l.reps]

Serve(g, l) ==
  /\ l.reqs # <<>>
  /\ HandleRequest(g, Head(l.reqs))

HandleClient(g) ==
  /\ Serve(g, client[g])
  /\ client' = [client EXCEPT ![g] = Answered(g, @)]
  /\ UNCHANGED <<worldVars, pc, ttl, wake, spare, lease, confirmed, crossed, orphans>>

HandleSpare(g) ==
  /\ Serve(g, spare[g])
  /\ spare' = [spare EXCEPT ![g] = Answered(g, @)]
  /\ UNCHANGED <<worldVars, pc, ttl, wake, client, lease, confirmed, crossed, orphans>>

HandleOrphan(o) ==
  /\ o \in orphans
  /\ HandleRequest(o.c, o.req)
  /\ orphans' = orphans \ {o}
  /\ UNCHANGED <<worldVars, guardVars>>

-----------------------------------------------------------------------------
(* The guard *)

Goto(g, label) == pc' = [pc EXCEPT ![g] = label]

\* The locals of an iteration of renew_loop; 0 outside their scope.
Sleep(g) ==
  /\ Goto(g, "asleep")
  /\ wake' = [wake EXCEPT ![g] = clock + RenewInterval]
  /\ ttl' = [ttl EXCEPT ![g] = 0]
Attempt(g) ==
  /\ wake' = [wake EXCEPT ![g] = 0]
  /\ ttl' = [ttl EXCEPT ![g] = LeaseEnd]

\* The lease the guard now counts on.
Told(g) == lease' = [lease EXCEPT ![g] = ttl[g]]

\* ClaimGuard::hold on a connected and announced client.
Hold(g) ==
  /\ pc[g] = "new"
  /\ bus
  /\ Attempt(g)
  /\ client' = [client EXCEPT ![g] = Opened(AcquireUntil(LeaseEnd))]
  /\ Goto(g, "holding")
  /\ UNCHANGED <<worldVars, daemonVars, spare, lease, confirmed, crossed, orphans>>

HoldReply(g) ==
  /\ pc[g] = "holding"
  /\ \/ /\ Succeeded(client[g])
        /\ client' = [client EXCEPT ![g] = Read(@)]
        /\ Told(g)
        /\ Sleep(g)
     \/ /\ Failed(client[g])
        /\ client' = [client EXCEPT ![g] = Closed]
        /\ Goto(g, "gone")
        /\ UNCHANGED <<ttl, wake, lease>>
  /\ UNCHANGED <<worldVars, daemonVars, spare, confirmed, crossed, orphans>>

\* renew_loop: the sleep is over, the acquire is sent on the shared connection.
Wake(g) ==
  /\ pc[g] = "asleep"
  /\ clock >= wake[g]
  /\ Attempt(g)
  /\ client' = [client EXCEPT ![g] = Sent(@, AcquireUntil(LeaseEnd))]
  /\ Goto(g, "renewing")
  /\ UNCHANGED <<worldVars, daemonVars, spare, lease, confirmed, crossed, orphans>>

\* ... and answered; a conflict and a lost bus both lead to a new connection.
RenewReply(g) ==
  /\ pc[g] = "renewing"
  /\ \/ /\ Readable(client[g])
        /\ client' = [client EXCEPT ![g] = Read(@)]
        /\ IF Head(client[g].reps) THEN Told(g) /\ Sleep(g)
           ELSE Goto(g, "reconnecting") /\ UNCHANGED <<ttl, wake, lease>>
     \/ /\ Broken(client[g])
        /\ Goto(g, "reconnecting")
        /\ UNCHANGED <<client, ttl, wake, lease>>
  /\ UNCHANGED <<worldVars, daemonVars, spare, confirmed, crossed, orphans>>

\* try_reconnect_renew: connect, announce, and acquire until the same ttl.
Reconnect(g) ==
  /\ pc[g] = "reconnecting"
  /\ \/ /\ bus
        /\ spare' = [spare EXCEPT ![g] = Opened(AcquireUntil(ttl[g]))]
        /\ Goto(g, "rejoining")
        /\ UNCHANGED <<ttl, wake>>
     \/ /\ ~bus
        /\ Sleep(g)
        /\ UNCHANGED spare
  /\ UNCHANGED <<worldVars, daemonVars, client, lease, confirmed, crossed, orphans>>

\* The new connection replaces the old one only when its acquire succeeded.
RejoinReply(g) ==
  /\ pc[g] = "rejoining"
  /\ \/ /\ Succeeded(spare[g])
        /\ client' = [client EXCEPT ![g] = Read(spare[g])]
        /\ orphans' = orphans \cup Orphaned(g, client[g])
        /\ Told(g)
     \/ /\ Failed(spare[g])
        /\ UNCHANGED <<client, lease, orphans>>
  /\ spare' = [spare EXCEPT ![g] = Closed]
  /\ Sleep(g)
  /\ UNCHANGED <<worldVars, daemonVars, confirmed, crossed>>

\* What an aborted task leaves to the daemon.
\* Mutant: the task is not aborted, and renews once more.
LeftBehindRunning(g) == {[c |-> g, req |-> AcquireUntil(LeaseEnd)]}
LeftBehind(g) == Orphaned(g, spare[g])

\* cancel_renew: the task is aborted at whatever await it has reached, and what it
\* owned is dropped.
Cancel(g) ==
  /\ pc[g] \in {"asleep", "renewing", "reconnecting", "rejoining"}
  /\ spare' = [spare EXCEPT ![g] = Closed]
  /\ orphans' = orphans \cup LeftBehind(g)
  /\ lease' = [lease EXCEPT ![g] = 0]
  /\ ttl' = [ttl EXCEPT ![g] = 0]
  /\ wake' = [wake EXCEPT ![g] = 0]
  /\ crossed' = IF pc[g] \in {"renewing", "rejoining"} THEN crossed \cup {g} ELSE crossed

\* ClaimGuard::release: cancel, then a release on the shared connection.
Release(g) ==
  /\ Cancel(g)
  /\ client' = [client EXCEPT ![g] = Sent(@, ReleaseRequest)]
  /\ Goto(g, "releasing")
  /\ UNCHANGED <<worldVars, daemonVars, confirmed>>

\* release() returns: Ok for the next line on the connection, whatever it answers.
ReleaseReply(g) ==
  /\ pc[g] = "releasing"
  /\ \/ /\ Readable(client[g])
        /\ client' = [client EXCEPT ![g] = Read(@)]
        /\ confirmed' = confirmed \cup {g}
     \/ Broken(client[g]) /\ UNCHANGED <<client, confirmed>>
  /\ Goto(g, "dropping")
  /\ UNCHANGED <<worldVars, daemonVars, ttl, wake, spare, lease, crossed, orphans>>

\* Drop without release; after release() there is no task left to cancel.
Drop(g) ==
  /\ Cancel(g)
  /\ Goto(g, "dropping")
  /\ UNCHANGED <<worldVars, daemonVars, client, confirmed>>

\* The task that Drop spawns sends a release ...
DropRelease(g) ==
  /\ pc[g] = "dropping"
  /\ client' = [client EXCEPT ![g] = Sent(@, ReleaseRequest)]
  /\ Goto(g, "dropped")
  /\ UNCHANGED <<worldVars, daemonVars, ttl, wake, spare, lease, confirmed, crossed, orphans>>

\* ... and closes the connection once it is answered; the process may end before.
Close(g) ==
  /\ pc[g] \in {"dropping", "dropped"}
  /\ orphans' = orphans \cup Orphaned(g, client[g])
  /\ client' = [client EXCEPT ![g] = Closed]
  /\ Goto(g, "gone")
  /\ UNCHANGED <<worldVars, daemonVars, ttl, wake, spare, lease, confirmed, crossed>>

Guard(g) ==
  \/ HandleClient(g) \/ HandleSpare(g)
  \/ Hold(g) \/ HoldReply(g) \/ Wake(g) \/ RenewReply(g) \/ Reconnect(g) \/ RejoinReply(g)
  \/ Release(g) \/ ReleaseReply(g) \/ Drop(g) \/ DropRelease(g) \/ Close(g)

-----------------------------------------------------------------------------
(* What the variables hold *)

WorldTypes ==
  /\ clock \in 0..MaxTime /\ bus \in BOOLEAN /\ restarts \in 0..MaxRestarts
  /\ saved \in [sid: Sessions, ttl: Nat] \cup {None}

DaemonTypes ==
  /\ claim \in [sid: Sessions, ttl: Nat] \cup {None}
  /\ events \in [Waiters -> Nat \cup {None}]
  /\ granted \in [Clients -> Nat]
  /\ undercut \subseteq Clients /\ maker \in Clients \cup {None}

GuardTypes ==
  /\ pc \in [Guards -> {"new", "holding", "asleep", "renewing", "reconnecting", "rejoining",
                        "releasing", "dropping", "dropped", "gone"}]
  /\ ttl \in [Guards -> Nat] /\ wake \in [Guards -> Nat] /\ lease \in [Guards -> Nat]
  /\ client \in [Guards -> Link] /\ spare \in [Guards -> Link]
  /\ orphans \subseteq [c: Guards, req: Request]
  /\ confirmed \subseteq Guards /\ crossed \subseteq Guards
=============================================================================
