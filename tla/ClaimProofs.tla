---------------------------- MODULE ClaimProofs ----------------------------
(***************************************************************************)
(* Proofs about ClaimWait, for every number of guards, commands, sessions, *)
(* restarts and ticks: the type invariant, that a guard's belief in its    *)
(* lease is backed by the daemon, that two guards never both count on the  *)
(* path, what a confirmed release is worth, that no wake-up is lost, and   *)
(* that guards, commands and daemon together implement AdvisoryClaims.     *)
(***************************************************************************)
EXTENDS ClaimWait, SequenceTheorems, TLAPS

-----------------------------------------------------------------------------
(* Lemmas about time and connections *)

\* The daemon's clock and the end of a lease are whole seconds.
LEMMA Seconds ==
  ASSUME clock \in Nat
  PROVE  Now \in Nat /\ LeaseEnd \in Nat /\ Now <= LeaseEnd
BY GuardNumbers DEF Now, LeaseEnd

\* Whole seconds do not go back.
LEMMA SecondsGrow ==
  ASSUME NEW a \in Nat
  PROVE  a \div TicksPerSecond <= (a + 1) \div TicksPerSecond
BY GuardNumbers

\* The locals of an iteration are numbers.
LEMMA Intervals == RenewInterval \in Nat /\ WaitSeconds * TicksPerSecond \in Nat
BY GuardNumbers, WaiterNumbers DEF RenewInterval

\* Clients send acquires and releases.
LEMMA Requests ==
  /\ \A t \in Nat : AcquireUntil(t) \in Request
  /\ \A t \in Nat, force \in BOOLEAN :
       AttemptUntil(t, force) \in Request /\ AttemptUntil(t, force).op = "acquire"
  /\ ReleaseRequest \in Request
BY DEF AcquireUntil, AttemptUntil, ReleaseRequest, Request

\* A new connection, and one that is gone.
LEMMA LinkMade == Closed \in Link /\ \A r \in Request : Opened(r) \in Link
BY DEF Closed, Opened, Link

\* What a client does to its connection.
LEMMA LinkUsed ==
  ASSUME NEW l \in Link
  PROVE  /\ \A r \in Request : Sent(l, r) \in Link
         /\ Readable(l) => Read(l) \in Link
<1>1. \A r \in Request : Sent(l, r) \in Link
  BY DEF Sent, Link
<1>2. Readable(l) => Read(l) \in Link
  BY DEF Read, Readable, Link
<1> QED BY <1>1, <1>2

\* What the daemon does to a connection.
LEMMA LinkServed ==
  ASSUME NEW l \in Link, NEW g, l.reqs # <<>>
  PROVE  Answered(g, l) \in Link /\ Head(l.reqs) \in Request
<1> DEFINE ok == Head(l.reqs).op = "acquire" => Grants(SessionOf[g], Head(l.reqs).force)
<1>1. ok \in BOOLEAN
  OBVIOUS
<1>2. Answered(g, l) = [l EXCEPT !.reqs = Tail(l.reqs), !.reps = Append(l.reps, ok)]
  BY DEF Answered
<1> HIDE DEF ok
<1>3. /\ Append(l.reps, ok) \in Seq(BOOLEAN) /\ Tail(l.reqs) \in Seq(Request)
      /\ Head(l.reqs) \in Request
  BY <1>1 DEF Link
<1> QED BY <1>2, <1>3 DEF Link

\* What the end of a connection leaves.
LEMMA LinkEnded ==
  ASSUME NEW l \in Link, NEW g \in Guards
  PROVE  CutOff(l) \in Link /\ Orphaned(g, l) \subseteq [c: Guards, req: Request]
<1>1. CutOff(l) \in Link
  BY LinkMade DEF CutOff, Link
<1>2. Orphaned(g, l) \subseteq [c: Guards, req: Request]
  BY DEF Orphaned, Link
<1> QED BY <1>1, <1>2

-----------------------------------------------------------------------------
(* Type correctness *)

\* An event reaches subscribers.
LEMMA AnnounceTyped ==
  ASSUME DaemonTypes, Announce
  PROVE  events' \in [Waiters -> Nat \cup {None}]
BY DEF DaemonTypes, Announce, Subscribed

\* The daemon's table after an acquire.
LEMMA TakeTyped ==
  ASSUME DaemonTypes, NEW c \in Clients, NEW t \in Nat, NEW force \in BOOLEAN,
         TakeClaim(c, t, force)
  PROVE  /\ claim' \in [sid: Sessions, ttl: Nat] \cup {None}
         /\ granted' \in [Clients -> Nat]
         /\ undercut' \subseteq Clients /\ maker' \in Clients \cup {None}
<1>1. SessionOf[c] \in Sessions
  BY ClientSessions
<1> QED BY <1>1 DEF DaemonTypes, TakeClaim, CutShort, Undone, historyVars

\* The daemon's variables after a request.
LEMMA RequestTyped ==
  ASSUME DaemonTypes, NEW c \in Clients
  PROVE  /\ \A t \in Nat, force \in BOOLEAN : HandleAcquire(c, t, force) => DaemonTypes'
         /\ HandleRelease(c) => DaemonTypes'
         /\ \A r \in Request : HandleRequest(c, r) => DaemonTypes'
<1>1. ASSUME NEW t \in Nat, NEW force \in BOOLEAN, HandleAcquire(c, t, force)
      PROVE  DaemonTypes'
  <2>1. events' \in [Waiters -> Nat \cup {None}]
    BY <1>1, AnnounceTyped DEF HandleAcquire, DaemonTypes
  <2> QED BY <1>1, <2>1, TakeTyped DEF HandleAcquire, DaemonTypes
<1>2. ASSUME HandleRelease(c) PROVE DaemonTypes'
  <2>1. events' \in [Waiters -> Nat \cup {None}]
    BY <1>2, AnnounceTyped DEF HandleRelease, DaemonTypes, tableVars
  <2> QED BY <1>2, <2>1 DEF HandleRelease, DaemonTypes, tableVars, CutShort, Undone
<1>3. ASSUME NEW r \in Request, HandleRequest(c, r) PROVE DaemonTypes'
  <2>1. r.op = "acquire" => r.ttl \in Nat /\ r.force \in BOOLEAN
    BY DEF Request
  <2> QED BY <1>1, <1>2, <1>3, <2>1 DEF HandleRequest
<1> QED BY <1>1, <1>2, <1>3

\* No request makes a subscribed command's count of events anything but a number.
LEMMA CountsKept ==
  ASSUME DaemonTypes
  PROVE  /\ Announce \/ UNCHANGED events
              => \A v \in Waiters : events[v] \in Nat => events'[v] \in Nat
         /\ \A c, t, force : HandleAcquire(c, t, force) => Announce \/ UNCHANGED events
         /\ \A c : HandleRelease(c) => Announce \/ UNCHANGED events
         /\ \A c, r : HandleRequest(c, r) => Announce \/ UNCHANGED events
<1>1. ASSUME Announce \/ UNCHANGED events, NEW v \in Waiters, events[v] \in Nat
      PROVE  events'[v] \in Nat
  BY <1>1, GuardAbsence DEF Announce, Subscribed
<1>2. \A c, t, force : HandleAcquire(c, t, force) => Announce \/ UNCHANGED events
  BY DEF HandleAcquire
<1>3. \A c : HandleRelease(c) => Announce \/ UNCHANGED events
  BY DEF HandleRelease, tableVars
<1> QED BY <1>1, <1>2, <1>3 DEF HandleRequest

\* Events are counted only for subscribed commands, and a command that waits for an
\* answer has asked for something.
WaiterTypes(w) ==
  /\ wpc[w] \in {"waiting", "retrying"} => events[w] \in Nat
  /\ Awaiting(w) => asked[w] \in Request
  /\ wpc[w] \in {"asking", "retrying"} => asked[w].op = "acquire"

TypeInv == TypeOK /\ \A w \in Waiters : WaiterTypes(w)

\* The first state is well typed.
LEMMA TypeInit == Init => TypeInv
<1> SUFFICES ASSUME Init PROVE TypeInv
  OBVIOUS
<1>1. WorldTypes /\ DaemonTypes /\ CommandTypes
  BY GuardNumbers DEF Init, WorldTypes, DaemonTypes, CommandTypes
<1>2. GuardTypes
  BY LinkMade DEF Init, GuardTypes
<1> QED BY <1>1, <1>2 DEF Init, TypeInv, TypeOK, WaiterTypes, Awaiting

\* Steps of the guards and of the daemon for them.
LEMMA GuardTyped ==
  ASSUME TypeOK, NEW g \in Guards, Guard(g)
  PROVE  GuardTypes' /\ DaemonTypes' /\ UNCHANGED worldVars
<1>0. /\ GuardTypes /\ DaemonTypes /\ clock \in Nat /\ g \in Clients
      /\ client[g] \in Link /\ spare[g] \in Link /\ ttl[g] \in Nat
  BY GuardNumbers DEF TypeOK, WorldTypes, GuardTypes, Clients
<1>1. LeaseEnd \in Nat /\ clock + RenewInterval \in Nat
  BY <1>0, Seconds, Intervals
<1> USE DEF Goto, Sleep, Attempt, Told, Cancel, LeftBehind
<1>2. CASE HandleClient(g)
  <2>0. Answered(g, client[g]) \in Link /\ Head(client[g].reqs) \in Request
    BY <1>0, <1>2, LinkServed DEF HandleClient, Serve
  <2>1. client' \in [Guards -> Link]
    BY <1>0, <1>2, <2>0 DEF HandleClient, GuardTypes
  <2>2. DaemonTypes'
    BY <1>0, <1>2, <2>0, RequestTyped DEF HandleClient, Serve
  <2> QED BY <1>0, <1>2, <2>1, <2>2 DEF HandleClient, GuardTypes
<1>3. CASE HandleSpare(g)
  <2>0. Answered(g, spare[g]) \in Link /\ Head(spare[g].reqs) \in Request
    BY <1>0, <1>3, LinkServed DEF HandleSpare, Serve
  <2>1. spare' \in [Guards -> Link]
    BY <1>0, <1>3, <2>0 DEF HandleSpare, GuardTypes
  <2>2. DaemonTypes'
    BY <1>0, <1>3, <2>0, RequestTyped DEF HandleSpare, Serve
  <2> QED BY <1>0, <1>3, <2>1, <2>2 DEF HandleSpare, GuardTypes
<1>4. ASSUME Hold(g) \/ HoldReply(g) \/ Wake(g) \/ RenewReply(g) \/ Reconnect(g) \/ RejoinReply(g)
             \/ Release(g) \/ ReleaseReply(g) \/ Drop(g) \/ DropRelease(g) \/ Close(g)
      PROVE  DaemonTypes' /\ UNCHANGED worldVars
  BY <1>0, <1>4 DEF Hold, HoldReply, Wake, RenewReply, Reconnect, RejoinReply, Release,
     ReleaseReply, Drop, DropRelease, Close, DaemonTypes, daemonVars, tableVars, historyVars
<1>5. CASE Hold(g)
  <2>1. client' \in [Guards -> Link]
    BY <1>0, <1>1, <1>5, LinkMade, Requests DEF Hold, GuardTypes
  <2> QED BY <1>0, <1>1, <1>4, <1>5, <2>1 DEF Hold, GuardTypes
<1>6. CASE HoldReply(g)
  <2>1. client' \in [Guards -> Link]
    <3>1. Closed \in Link /\ (Readable(client[g]) => Read(client[g]) \in Link)
      BY <1>0, LinkMade, LinkUsed
    <3>2. \/ client' = [client EXCEPT ![g] = Closed]
          \/ Readable(client[g]) /\ client' = [client EXCEPT ![g] = Read(client[g])]
      BY <1>6 DEF HoldReply, Succeeded
    <3> QED BY <1>0, <3>1, <3>2 DEF GuardTypes
  <2> QED BY <1>0, <1>1, <1>4, <1>6, <2>1 DEF HoldReply, GuardTypes
<1>7. CASE Wake(g)
  <2>1. client' \in [Guards -> Link]
    BY <1>0, <1>1, <1>7, LinkUsed, Requests DEF Wake, GuardTypes
  <2> QED BY <1>0, <1>1, <1>4, <1>7, <2>1 DEF Wake, GuardTypes
<1>8. CASE RenewReply(g)
  <2>1. client' \in [Guards -> Link]
    BY <1>0, <1>8, LinkUsed DEF RenewReply, GuardTypes
  <2>2. /\ pc' \in [Guards -> {"new", "holding", "asleep", "renewing", "reconnecting", "rejoining",
                              "releasing", "dropping", "dropped", "gone"}]
        /\ ttl' \in [Guards -> Nat] /\ wake' \in [Guards -> Nat] /\ lease' \in [Guards -> Nat]
    <3>1. CASE Readable(client[g]) /\ Head(client[g].reps) /\ Told(g) /\ Sleep(g)
      BY <1>0, <1>1, <3>1 DEF GuardTypes
    <3>2. CASE Goto(g, "reconnecting") /\ UNCHANGED <<ttl, wake, lease>>
      BY <1>0, <3>2 DEF GuardTypes
    <3> QED BY <1>8, <3>1, <3>2 DEF RenewReply
  <2> QED BY <1>0, <1>4, <1>8, <2>1, <2>2 DEF RenewReply, GuardTypes
<1>9. CASE Reconnect(g)
  <2>1. spare' \in [Guards -> Link]
    BY <1>0, <1>9, LinkMade, Requests DEF Reconnect, GuardTypes
  <2> QED BY <1>0, <1>1, <1>4, <1>9, <2>1 DEF Reconnect, GuardTypes
<1>10. CASE RejoinReply(g)
  <2>1. client' \in [Guards -> Link] /\ spare' \in [Guards -> Link]
    BY <1>0, <1>10, LinkUsed, LinkMade DEF RejoinReply, Succeeded, GuardTypes
  <2>2. orphans' \subseteq [c: Guards, req: Request]
    BY <1>0, <1>10, LinkEnded DEF RejoinReply, GuardTypes
  <2> QED BY <1>0, <1>1, <1>4, <1>10, <2>1, <2>2 DEF RejoinReply, GuardTypes
<1>11. CASE Release(g)
  <2>1. client' \in [Guards -> Link] /\ spare' \in [Guards -> Link]
    BY <1>0, <1>11, LinkUsed, LinkMade, Requests DEF Release, GuardTypes
  <2>2. orphans' \subseteq [c: Guards, req: Request]
    BY <1>0, <1>11, LinkEnded DEF Release, GuardTypes
  <2> QED BY <1>0, <1>4, <1>11, <2>1, <2>2 DEF Release, GuardTypes
<1>12. CASE ReleaseReply(g)
  <2>1. client' \in [Guards -> Link]
    BY <1>0, <1>12, LinkUsed DEF ReleaseReply, GuardTypes
  <2> QED BY <1>0, <1>4, <1>12, <2>1 DEF ReleaseReply, GuardTypes
<1>13. CASE Drop(g)
  <2>1. spare' \in [Guards -> Link]
    BY <1>0, <1>13, LinkMade DEF Drop, GuardTypes
  <2>2. orphans' \subseteq [c: Guards, req: Request]
    BY <1>0, <1>13, LinkEnded DEF Drop, GuardTypes
  <2> QED BY <1>0, <1>4, <1>13, <2>1, <2>2 DEF Drop, GuardTypes
<1>14. CASE DropRelease(g)
  <2>1. client' \in [Guards -> Link]
    BY <1>0, <1>14, LinkUsed, Requests DEF DropRelease, GuardTypes
  <2> QED BY <1>0, <1>4, <1>14, <2>1 DEF DropRelease, GuardTypes
<1>15. CASE Close(g)
  <2>1. client' \in [Guards -> Link] /\ orphans' \subseteq [c: Guards, req: Request]
    BY <1>0, <1>15, LinkMade, LinkEnded DEF Close, GuardTypes
  <2> QED BY <1>0, <1>4, <1>15, <2>1 DEF Close, GuardTypes
<1> QED BY <1>2, <1>3, <1>5, <1>6, <1>7, <1>8, <1>9, <1>10, <1>11, <1>12, <1>13, <1>14, <1>15
        DEF Guard

\* A command that takes no part in a step stays well typed.
LEMMA WaiterTyped ==
  ASSUME NEW w \in Waiters, WaiterTypes(w), UNCHANGED <<wpc[w], asked[w]>>,
         events[w] \in Nat => events'[w] \in Nat
  PROVE  WaiterTypes(w)'
BY DEF WaiterTypes, Awaiting

\* Steps of the commands.
LEMMA CommandTyped ==
  ASSUME TypeInv, NEW w \in Waiters, Command(w), Missed
  PROVE  TypeInv'
<1>0. /\ w \in Clients /\ clock \in Nat /\ Now \in Nat /\ Now + CliTtl \in Nat
      /\ clock + WaitSeconds * TicksPerSecond \in Nat
      /\ DaemonTypes /\ CommandTypes /\ WaiterTypes(w)
  BY Seconds, Intervals, WaiterNumbers, GuardNumbers DEF TypeInv, TypeOK, WorldTypes, Clients
<1>1. WorldTypes' /\ GuardTypes'
  BY DEF TypeInv, TypeOK, WorldTypes, GuardTypes, worldVars, guardVars, Command, TryOnce,
         FirstReply, Subscribe, Retry, RetryReply, Timeout, GiveBack, GiveBackReply
<1>2. missed' \subseteq Waiters
  BY DEF Missed
<1>3. ASSUME DaemonTypes', CommandTypes', WaiterTypes(w)',
             \A v \in Waiters \ {w} : /\ UNCHANGED <<wpc[v], asked[v]>>
                                      /\ events[v] \in Nat => events'[v] \in Nat
      PROVE  TypeInv'
  BY <1>1, <1>3, WaiterTyped DEF TypeInv, TypeOK
<1>4. ASSUME HandleRequest(w, asked[w]), asked[w] \in Request
      PROVE  DaemonTypes' /\ \A v \in Waiters : events[v] \in Nat => events'[v] \in Nat
  BY <1>0, <1>4, RequestTyped, CountsKept
<1> USE DEF WGoto, Ask, Answer
<1>5. ASSUME NEW force \in BOOLEAN, TryOnce(w, force) PROVE TypeInv'
  <2>1. AttemptUntil(Now + CliTtl, force) \in Request
        /\ AttemptUntil(Now + CliTtl, force).op = "acquire"
    BY <1>0, Requests
  <2>2. DaemonTypes' /\ UNCHANGED events
    BY <1>0, <1>5 DEF TryOnce, DaemonTypes, daemonVars, tableVars, historyVars
  <2>3. CommandTypes' /\ WaiterTypes(w)'
    BY <1>0, <1>2, <1>5, <2>1 DEF TryOnce, CommandTypes, WaiterTypes
  <2> QED BY <1>0, <1>3, <1>5, <2>2, <2>3 DEF TryOnce, CommandTypes
<1>6. CASE FirstReply(w)
  <2>1. DaemonTypes' /\ \A v \in Waiters : events[v] \in Nat => events'[v] \in Nat
    BY <1>0, <1>4, <1>6 DEF FirstReply, WaiterTypes, Awaiting
  <2>2. CommandTypes' /\ WaiterTypes(w)'
    BY <1>0, <1>2, <1>6 DEF FirstReply, CommandTypes, WaiterTypes, Awaiting
  <2> QED BY <1>0, <1>3, <1>6, <2>1, <2>2 DEF FirstReply, CommandTypes
<1>7. CASE Subscribe(w)
  <2>1. DaemonTypes' /\ CommandTypes' /\ WaiterTypes(w)'
    BY <1>0, <1>2, <1>7
       DEF Subscribe, DaemonTypes, CommandTypes, WaiterTypes, Awaiting, historyVars
  <2> QED BY <1>0, <1>3, <1>7, <2>1 DEF Subscribe, DaemonTypes, CommandTypes
<1>8. CASE Retry(w)
  <2>1. events[w] \in Nat \ {0}
    BY <1>0, <1>8 DEF Retry, Heard, WaiterTypes
  <2>2. \/ events' = [events EXCEPT ![w] = None]
        \/ events' = [events EXCEPT ![w] = events[w] - 1]
    BY <1>8 DEF Retry
  <2>3. DaemonTypes' /\ \A v \in Waiters \ {w} : events'[v] = events[v]
    BY <1>0, <1>8, <2>1, <2>2 DEF Retry, DaemonTypes, historyVars
  <2>4. AttemptUntil(Now + CliTtl, FALSE) \in Request
        /\ AttemptUntil(Now + CliTtl, FALSE).op = "acquire"
    BY <1>0, Requests
  <2>5. CommandTypes' /\ \A v \in Waiters \ {w} : UNCHANGED <<wpc[v], asked[v]>>
    BY <1>0, <1>2, <1>8, <2>4 DEF Retry, CommandTypes
  <2>6. WaiterTypes(w)'
    <3>1. CASE WGoto(w, "failed")
      BY <1>0, <3>1 DEF CommandTypes, WaiterTypes, Awaiting
    <3>2. CASE /\ WGoto(w, "retrying") /\ events' = [events EXCEPT ![w] = events[w] - 1]
               /\ Ask(w, AttemptUntil(Now + CliTtl, FALSE))
      <4>1. events'[w] \in Nat
        BY <1>0, <2>1, <3>2 DEF DaemonTypes
      <4>2. wpc'[w] = "retrying" /\ asked'[w] = AttemptUntil(Now + CliTtl, FALSE)
        BY <1>0, <3>2 DEF CommandTypes
      <4> QED BY <2>4, <4>1, <4>2 DEF WaiterTypes, Awaiting
    <3> QED BY <1>8, <3>1, <3>2 DEF Retry
  <2> QED BY <1>3, <2>3, <2>5, <2>6
<1>9. CASE RetryReply(w)
  <2>1. asked[w].ttl \in Nat /\ events[w] \in Nat
    BY <1>0, <1>9 DEF RetryReply, WaiterTypes, Awaiting, Request
  <2>2. /\ events' = events \/ events' = [events EXCEPT ![w] = None]
        /\ TakeClaim(w, asked[w].ttl, FALSE)
    BY <1>9 DEF RetryReply
  <2>3. DaemonTypes'
    BY <1>0, <2>1, <2>2, TakeTyped DEF DaemonTypes
  <2>4. CommandTypes' /\ \A v \in Waiters \ {w} : UNCHANGED <<wpc[v], asked[v], events[v]>>
    BY <1>0, <1>2, <1>9, <2>2 DEF RetryReply, CommandTypes, DaemonTypes
  <2>5. WaiterTypes(w)'
    BY <1>0, <1>9, <2>1 DEF RetryReply, CommandTypes, WaiterTypes, Awaiting
  <2> QED BY <1>3, <2>3, <2>4, <2>5
<1>10. CASE Timeout(w)
  <2>1. DaemonTypes' /\ CommandTypes' /\ WaiterTypes(w)'
    BY <1>0, <1>2, <1>10
       DEF Timeout, DaemonTypes, CommandTypes, WaiterTypes, Awaiting, historyVars
  <2> QED BY <1>0, <1>3, <1>10, <2>1 DEF Timeout, DaemonTypes, CommandTypes
<1>11. CASE GiveBack(w)
  <2>1. DaemonTypes' /\ UNCHANGED events
    BY <1>0, <1>11 DEF GiveBack, DaemonTypes, daemonVars, tableVars, historyVars
  <2>2. CommandTypes' /\ WaiterTypes(w)'
    BY <1>0, <1>2, <1>11, Requests DEF GiveBack, CommandTypes, WaiterTypes, Awaiting
  <2> QED BY <1>0, <1>3, <1>11, <2>1, <2>2 DEF GiveBack, CommandTypes
<1>12. CASE GiveBackReply(w)
  <2>1. DaemonTypes' /\ \A v \in Waiters : events[v] \in Nat => events'[v] \in Nat
    BY <1>0, <1>4, <1>12 DEF GiveBackReply, WaiterTypes, Awaiting
  <2>2. CommandTypes' /\ WaiterTypes(w)'
    BY <1>0, <1>2, <1>12 DEF GiveBackReply, CommandTypes, WaiterTypes, Awaiting
  <2> QED BY <1>0, <1>3, <1>12, <2>1, <2>2 DEF GiveBackReply, CommandTypes
<1> QED BY <1>5, <1>6, <1>7, <1>8, <1>9, <1>10, <1>11, <1>12 DEF Command

\* Every step keeps the types.
LEMMA TypeStep ==
  ASSUME TypeInv, [Next]_vars
  PROVE  TypeInv'
<1> USE DEF TypeInv, TypeOK
<1>1. ASSUME NEW g \in Guards, Guard(g), UNCHANGED commandVars, Missed PROVE TypeInv'
  <2>1. GuardTypes' /\ DaemonTypes' /\ WorldTypes'
    BY <1>1, GuardTyped DEF worldVars, WorldTypes
  <2>2. \A w \in Waiters : events[w] \in Nat => events'[w] \in Nat
    <3>1. CASE HandleClient(g) \/ HandleSpare(g)
      BY <3>1, CountsKept DEF HandleClient, HandleSpare, Serve
    <3>2. CASE UNCHANGED daemonVars
      BY <3>2 DEF daemonVars, tableVars
    <3> QED BY <1>1, <3>1, <3>2 DEF Guard, Hold, HoldReply, Wake, RenewReply, Reconnect,
            RejoinReply, Release, ReleaseReply, Drop, DropRelease, Close
  <2>3. \A w \in Waiters : WaiterTypes(w)'
    BY <1>1, <2>2, WaiterTyped DEF commandVars
  <2> QED BY <1>1, <2>1, <2>3 DEF commandVars, CommandTypes, Missed
<1>2. ASSUME NEW o \in orphans, HandleOrphan(o), UNCHANGED commandVars, Missed PROVE TypeInv'
  <2>1. o.c \in Clients /\ o.req \in Request
    BY DEF GuardTypes, Clients
  <2>2. DaemonTypes'
    BY <1>2, <2>1, RequestTyped DEF HandleOrphan
  <2>3. WorldTypes' /\ GuardTypes'
    BY <1>2 DEF HandleOrphan, WorldTypes, GuardTypes, worldVars, guardVars
  <2>4. \A w \in Waiters : events[w] \in Nat => events'[w] \in Nat
    BY <1>2, CountsKept DEF HandleOrphan
  <2>5. \A w \in Waiters : WaiterTypes(w)'
    BY <1>2, <2>4, WaiterTyped DEF commandVars
  <2> QED BY <1>2, <2>2, <2>3, <2>5 DEF commandVars, CommandTypes, Missed
<1>3. CASE BusDown /\ Missed
  <2>1. GuardTypes'
    <3>1. client' \in [Guards -> Link] /\ spare' \in [Guards -> Link]
      BY <1>3, LinkEnded DEF BusDown, GuardTypes
    <3> QED BY <1>3, <3>1 DEF BusDown, GuardTypes
  <2>2. WorldTypes' /\ DaemonTypes'
    <3>1. WorldTypes'
      <4>1. restarts' \in 0..MaxRestarts
        BY <1>3, GuardNumbers DEF BusDown, WorldTypes
      <4>2. saved' \in [sid: Sessions, ttl: Nat] \cup {None}
        BY <1>3 DEF BusDown, WorldTypes, DaemonTypes
      <4> QED BY <1>3, <4>1, <4>2 DEF BusDown, WorldTypes
    <3>2. DaemonTypes'
      BY <1>3 DEF BusDown, DaemonTypes, WorldTypes, Undone
    <3> QED BY <3>1, <3>2
  <2>3. CommandTypes' /\ \A w \in Waiters : WaiterTypes(w)'
    BY <1>3 DEF BusDown, CommandTypes, Missed, WaiterTypes, Awaiting
  <2> QED BY <2>1, <2>2, <2>3
<1>4. CASE BusUp /\ Missed
  BY <1>4 DEF BusUp, Missed, WorldTypes, DaemonTypes, GuardTypes, CommandTypes, daemonVars, guardVars,
              tableVars, historyVars, commandVars, WaiterTypes, Awaiting
<1>5. CASE Tick /\ Missed
  <2>1. WorldTypes'
    BY <1>5, GuardNumbers DEF Tick, WorldTypes
  <2>2. DaemonTypes' /\ GuardTypes'
    BY <1>5 DEF Tick, DaemonTypes, GuardTypes, tableVars
  <2>3. CommandTypes' /\ \A w \in Waiters : WaiterTypes(w)'
    BY <1>5, WaiterTyped DEF Tick, CommandTypes, Missed, commandVars, tableVars
  <2> QED BY <2>1, <2>2, <2>3
<1>6. CASE UNCHANGED vars
  BY <1>6 DEF vars, claimGuardVars, worldVars, daemonVars, tableVars, historyVars, guardVars,
              commandVars, WorldTypes, DaemonTypes, GuardTypes, CommandTypes, WaiterTypes, Awaiting
<1>7. CASE Save /\ Missed
  BY <1>7 DEF Save, Missed, WorldTypes, DaemonTypes, GuardTypes, CommandTypes, daemonVars, guardVars,
              tableVars, historyVars, commandVars, WaiterTypes, Awaiting
<1>8. ASSUME NEW w \in Waiters, Lag(w) PROVE TypeInv'
  <2>1. events[w] \in Nat /\ events[w] - 1 \in Nat
    BY <1>8 DEF Lag, Heard, Subscribed, DaemonTypes
  <2>2. /\ events' \in [Waiters -> Nat \cup {None}]
        /\ \A v \in Waiters : events[v] \in Nat => events'[v] \in Nat
    BY <1>8, <2>1 DEF Lag, DaemonTypes
  <2>3. DaemonTypes' /\ WorldTypes' /\ GuardTypes'
    BY <1>8, <2>2 DEF Lag, DaemonTypes, WorldTypes, GuardTypes, worldVars, historyVars, guardVars
  <2>4. CommandTypes' /\ \A v \in Waiters : WaiterTypes(v)'
    BY <1>8, <2>2, WaiterTyped DEF Lag, CommandTypes, commandVars
  <2> QED BY <2>3, <2>4
<1> QED BY <1>1, <1>2, <1>3, <1>4, <1>5, <1>6, <1>7, <1>8, CommandTyped DEF Next

\* Every reachable state satisfies the strengthened type invariant.
THEOREM TypeInvariant == Spec => []TypeInv
BY TypeInit, TypeStep, PTL DEF Spec

\* Every reachable state is well typed: whatever is cancelled or cut off, a connection
\* carries only requests and replies, and counters of events stay numbers.
THEOREM TypeCorrect == Spec => []TypeOK
<1>1. TypeInv => TypeOK
  BY DEF TypeInv
<1> QED BY TypeInvariant, <1>1, PTL

-----------------------------------------------------------------------------
(* What a guard may believe *)

\* The lease until t is one the daemon granted guard g and still has, if not undercut.
Good(g, t) == t > Now => t <= granted[g] /\ (Backed(g, t) \/ g \in undercut)

\* Nothing is under way on a connection; at most an acquire until ttl[g] is.
Quiet(l) == l.reqs = <<>> /\ l.reps = <<>>
Asked(g, l) ==
  \/ Quiet(l)
  \/ l.alive /\ l.reqs = <<AcquireUntil(ttl[g])>> /\ l.reps = <<>>
  \/ l.reqs = <<>> /\ l.reps = <<FALSE>>
  \/ l.reqs = <<>> /\ l.reps = <<TRUE>> /\ Good(g, ttl[g])

Leaving == {"releasing", "dropping", "dropped", "gone"}

\* A guard that still renews has at most one request under way, for a lease no shorter
\* than the one it counts on; one that is leaving counts on none.
GuardInv(g) ==
  /\ pc[g] \in {"holding", "renewing"} => Asked(g, client[g])
  /\ pc[g] = "rejoining" => Asked(g, spare[g])
  /\ pc[g] # "rejoining" => spare[g] = Closed
  /\ pc[g] \in {"new", "asleep", "reconnecting", "rejoining"} => Quiet(client[g])
  /\ Good(g, lease[g])
  /\ lease[g] <= LeaseEnd
  /\ pc[g] \in {"renewing", "reconnecting", "rejoining"} => lease[g] <= ttl[g]
  /\ pc[g] \in {"holding", "renewing", "reconnecting", "rejoining"} => ttl[g] <= LeaseEnd
  /\ pc[g] \in Leaving \cup {"new", "holding"} => lease[g] = 0

\* Only guards that are leaving have left requests behind.
OrphanInv == \A o \in orphans : pc[o.c] \in Leaving

LeaseInv == OrphanInv /\ \A g \in Guards : GuardInv(g)

\* A guard that has been told nothing believes nothing.
LEMMA GoodZero ==
  ASSUME NEW g \in Guards, clock \in Nat
  PROVE  Good(g, 0)
BY Seconds DEF Good

\* An acquire that another client makes takes the lease away only as it may.
LEMMA GoodTaken ==
  ASSUME DaemonTypes, clock \in Nat, UNCHANGED clock, NEW g \in Guards, NEW c \in Clients, c # g,
         NEW u \in Nat, NEW force \in BOOLEAN, TakeClaim(c, u, force), NEW t \in Nat, Good(g, t)
  PROVE  Good(g, t)'
<1>0. Now \in Nat /\ Now' = Now /\ g \in Clients /\ granted[g] \in Nat
  BY Seconds DEF Now, Clients, DaemonTypes
<1>1. CASE ~Grants(SessionOf[c], force) \/ t <= Now
  BY <1>0, <1>1 DEF TakeClaim, Good, Backed, historyVars
<1>2. CASE Grants(SessionOf[c], force) /\ t > Now
  <2>1. /\ claim' = [sid |-> SessionOf[c], ttl |-> u]
        /\ granted' = [granted EXCEPT ![c] = u]
        /\ undercut' = (undercut \ {c}) \cup CutShort(c, force)
    BY <1>2 DEF TakeClaim
  <2>2. granted'[g] = granted[g] /\ t <= granted[g]
    BY <1>0, <1>2, <2>1 DEF DaemonTypes, Good
  <2>3. CASE g \in undercut
    BY <2>1, <2>2, <2>3 DEF Good
  <2>4. CASE Backed(g, t) /\ ~Backed(g, t)'
    <3>1. ~Backed(g, granted[g])'
      BY <1>0, <2>1, <2>2, <2>4, GuardAbsence DEF Backed
    <3>2. force \/ SessionOf[g] = SessionOf[c]
      BY <1>0, <1>2, <2>4 DEF Grants, HeldBy, InForce, Backed, DaemonTypes
    <3>3. g \in CutShort(c, force)
      BY <1>0, <1>2, <2>2, <3>1, <3>2 DEF CutShort, Undone
    <3> QED BY <2>1, <2>2, <3>3 DEF Good
  <2> QED BY <1>2, <2>2, <2>3, <2>4 DEF Good
<1> QED BY <1>0, <1>1, <1>2

\* So does a release by another client.
LEMMA GoodReleased ==
  ASSUME DaemonTypes, clock \in Nat, UNCHANGED clock, NEW g \in Guards, NEW c \in Clients, c # g,
         HandleRelease(c), NEW t \in Nat, Good(g, t)
  PROVE  Good(g, t)'
<1>0. Now \in Nat /\ Now' = Now /\ g \in Clients /\ granted[g] \in Nat
  BY Seconds DEF Now, Clients, DaemonTypes
<1>1. /\ granted' = [granted EXCEPT ![c] = 0]
      /\ undercut' = undercut \cup CutShort(c, FALSE)
      /\ HeldBy(SessionOf[c]) => claim' = None
      /\ ~HeldBy(SessionOf[c]) => claim' = claim
  BY DEF HandleRelease, tableVars
<1>2. CASE t <= Now
  BY <1>0, <1>2 DEF Good
<1>3. CASE t > Now
  <2>2. granted'[g] = granted[g] /\ t <= granted[g]
    BY <1>0, <1>1, <1>3 DEF DaemonTypes, Good
  <2>3. CASE g \in undercut
    BY <1>1, <2>2, <2>3 DEF Good
  <2>4. CASE Backed(g, t) /\ ~Backed(g, t)'
    <3>1. claim' = None /\ HeldBy(SessionOf[c])
      BY <1>1, <2>4 DEF Backed
    <3>2. ~Backed(g, granted[g])' /\ SessionOf[g] = SessionOf[c]
      BY <2>4, <3>1 DEF Backed, HeldBy
    <3>3. g \in CutShort(c, FALSE)
      BY <1>0, <1>3, <2>2, <3>2 DEF CutShort, Undone
    <3> QED BY <1>1, <2>2, <3>3 DEF Good
  <2> QED BY <1>3, <2>2, <2>3, <2>4 DEF Good
<1> QED BY <1>0, <1>2, <1>3

\* A guard's own acquire makes good every lease that is no longer, or changes nothing.
LEMMA GoodGranted ==
  ASSUME DaemonTypes, clock \in Nat, UNCHANGED clock, NEW g \in Guards, NEW u \in Nat,
         TakeClaim(g, u, FALSE), NEW t \in Nat
  PROVE  /\ Grants(SessionOf[g], FALSE) /\ t <= u => Good(g, t)'
         /\ ~Grants(SessionOf[g], FALSE) /\ Good(g, t) => Good(g, t)'
<1>0. g \in Clients
  BY DEF Clients
<1>1. ASSUME Grants(SessionOf[g], FALSE), t <= u PROVE Good(g, t)'
  <2>1. claim' = [sid |-> SessionOf[g], ttl |-> u] /\ granted' = [granted EXCEPT ![g] = u]
    BY <1>1 DEF TakeClaim
  <2>2. claim' # None
    BY <1>0, <2>1, GuardAbsence, ClientSessions
  <2>3. granted'[g] = u
    BY <1>0, <2>1 DEF DaemonTypes
  <2> QED BY <1>1, <2>1, <2>2, <2>3 DEF Good, Backed
<1>2. ASSUME ~Grants(SessionOf[g], FALSE), Good(g, t) PROVE Good(g, t)'
  BY <1>2 DEF TakeClaim, Good, Backed, Now, historyVars
<1> QED BY <1>1, <1>2

\* What the daemon does for client c leaves every other guard's belief as good as it was.
LEMMA GoodServed ==
  ASSUME DaemonTypes, clock \in Nat, UNCHANGED clock, NEW g \in Guards, NEW c \in Clients, c # g,
         \/ \E r \in Request : HandleRequest(c, r)
         \/ \E u \in Nat : TakeClaim(c, u, FALSE)
  PROVE  \A t \in Nat : Good(g, t) => Good(g, t)'
<1> SUFFICES ASSUME NEW t \in Nat, Good(g, t) PROVE Good(g, t)'
  OBVIOUS
<1>1. ASSUME NEW u \in Nat, NEW force \in BOOLEAN, HandleAcquire(c, u, force) PROVE Good(g, t)'
  BY <1>1, GoodTaken DEF HandleAcquire
<1>2. ASSUME NEW r \in Request, HandleRequest(c, r) PROVE Good(g, t)'
  <2>1. r.op = "acquire" => r.ttl \in Nat /\ r.force \in BOOLEAN
    BY DEF Request
  <2> QED BY <1>1, <1>2, <2>1, GoodReleased DEF HandleRequest
<1> QED BY <1>2, GoodTaken

\* A guard that takes no part in a step keeps its invariant if its beliefs stay good.
LEMMA OtherGuard ==
  ASSUME TypeInv, NEW g \in Guards, GuardInv(g), UNCHANGED clock,
         UNCHANGED <<pc[g], ttl[g], client[g], spare[g], lease[g]>>,
         \A t \in Nat : Good(g, t) => Good(g, t)'
  PROVE  GuardInv(g)'
<1>1. Good(g, ttl[g]) => Good(g, ttl[g])'
  BY DEF TypeInv, TypeOK, GuardTypes
<1>2. Good(g, lease[g])'
  BY DEF GuardInv, TypeInv, TypeOK, GuardTypes
<1>3. LeaseEnd' = LeaseEnd
  BY DEF LeaseEnd, Now
<1>4. \A l \in Link : Asked(g, l) => Asked(g, l)'
  BY <1>1 DEF Asked, Quiet
<1> QED BY <1>2, <1>3, <1>4 DEF GuardInv, TypeInv, TypeOK, GuardTypes, Quiet

\* The answer to the one request of a connection.
LEMMA AnsweredOne ==
  ASSUME NEW g, NEW l \in Link, NEW t \in Nat, l.reqs = <<AcquireUntil(t)>>, l.reps = <<>>
  PROVE  /\ Head(l.reqs) = AcquireUntil(t)
         /\ Answered(g, l).reqs = <<>>
         /\ Grants(SessionOf[g], FALSE) => Answered(g, l).reps = <<TRUE>>
         /\ ~Grants(SessionOf[g], FALSE) => Answered(g, l).reps = <<FALSE>>
<1>1. Head(l.reqs) = AcquireUntil(t) /\ Tail(l.reqs) = <<>>
  OBVIOUS
<1> DEFINE ok == Head(l.reqs).op = "acquire" => Grants(SessionOf[g], Head(l.reqs).force)
<1>2. ok <=> Grants(SessionOf[g], FALSE)
  <2>1. Head(l.reqs).op = "acquire" /\ Head(l.reqs).force = FALSE
    BY <1>1 DEF AcquireUntil
  <2> QED BY <2>1, Zenon
<1>3. Answered(g, l) = [l EXCEPT !.reqs = Tail(l.reqs), !.reps = Append(l.reps, ok)]
  BY DEF Answered
<1>4. ok \in BOOLEAN
  OBVIOUS
<1> HIDE DEF ok
<1>5. Answered(g, l).reqs = <<>> /\ Answered(g, l).reps = <<ok>>
  BY <1>1, <1>3, <1>4 DEF Link
<1> QED BY <1>1, <1>2, <1>4, <1>5

\* The daemon's answer to the one request of a guard, whichever connection it came on.
LEMMA AskedServed ==
  ASSUME TypeInv, UNCHANGED <<clock, ttl, lease>>, NEW g \in Guards, NEW l \in Link,
         Asked(g, l), Serve(g, l), Good(g, lease[g]), lease[g] <= ttl[g],
         NEW m, m = Answered(g, l)
  PROVE  Asked(g, m)' /\ Good(g, lease[g])'
<1>0. DaemonTypes /\ clock \in Nat /\ ttl[g] \in Nat /\ lease[g] \in Nat
  BY GuardNumbers DEF TypeInv, TypeOK, WorldTypes, GuardTypes
<1>1. l.reqs = <<AcquireUntil(ttl[g])>> /\ l.reps = <<>>
  BY DEF Asked, Quiet, Serve
<1>2. /\ Head(l.reqs) = AcquireUntil(ttl[g])
      /\ m.reqs = <<>>
      /\ Grants(SessionOf[g], FALSE) => m.reps = <<TRUE>>
      /\ ~Grants(SessionOf[g], FALSE) => m.reps = <<FALSE>>
  BY <1>0, <1>1, AnsweredOne
<1>3. TakeClaim(g, ttl[g], FALSE)
  <2>1. HandleRequest(g, AcquireUntil(ttl[g]))
    BY <1>2 DEF Serve
  <2>2. AcquireUntil(ttl[g]).op = "acquire" /\ AcquireUntil(ttl[g]).ttl = ttl[g]
    BY DEF AcquireUntil
  <2>3. HandleAcquire(g, ttl[g], FALSE)
    BY <2>1, <2>2 DEF HandleRequest, AcquireUntil
  <2> QED BY <2>3 DEF HandleAcquire
<1>4. UNCHANGED <<ttl[g], lease[g]>>
  OBVIOUS
<1>5. CASE Grants(SessionOf[g], FALSE)
  <2>1. Good(g, ttl[g])' /\ Good(g, lease[g])'
    <3>1. \A t \in Nat : t <= ttl[g] => Good(g, t)'
      BY <1>0, <1>3, <1>5, GoodGranted
    <3>2. ttl[g] <= ttl[g]
      BY <1>0
    <3> QED BY <1>0, <1>4, <3>1, <3>2
  <2> QED BY <1>2, <1>5, <2>1 DEF Asked
<1>6. CASE ~Grants(SessionOf[g], FALSE)
  <2>1. Good(g, lease[g])'
    BY <1>0, <1>3, <1>4, <1>6, GoodGranted
  <2> QED BY <1>2, <1>6, <2>1 DEF Asked
<1> QED BY <1>5, <1>6

\* A step of a guard leaves the others' variables alone.
LEMMA GuardLocal ==
  ASSUME TypeInv, NEW g \in Guards, Guard(g)
  PROVE  /\ UNCHANGED <<clock, bus>>
         /\ \A h \in Guards \ {g} :
              UNCHANGED <<pc[h], ttl[h], client[h], spare[h], lease[h]>>
         /\ HandleClient(g) \/ HandleSpare(g) \/ UNCHANGED daemonVars
<1> USE DEF TypeInv, TypeOK, GuardTypes, Goto, Sleep, Attempt, Told, Cancel
<1>1. CASE HandleClient(g) \/ HandleSpare(g)
  BY <1>1 DEF HandleClient, HandleSpare, worldVars
<1>2. CASE Hold(g) \/ HoldReply(g) \/ Wake(g)
  BY <1>2 DEF Hold, HoldReply, Wake, worldVars
<1>3. CASE RenewReply(g)
  <2>1. client' = client \/ client' = [client EXCEPT ![g] = Read(@)]
    BY <1>3 DEF RenewReply
  <2>2. \/ Told(g) /\ Sleep(g)
        \/ Goto(g, "reconnecting") /\ UNCHANGED <<ttl, wake, lease>>
    BY <1>3 DEF RenewReply
  <2> QED BY <1>3, <2>1, <2>2 DEF RenewReply, worldVars
<1>4. CASE Reconnect(g) \/ RejoinReply(g)
  BY <1>4 DEF Reconnect, RejoinReply, worldVars
<1>5. CASE Release(g) \/ ReleaseReply(g) \/ Drop(g) \/ DropRelease(g) \/ Close(g)
  BY <1>5 DEF Release, ReleaseReply, Drop, DropRelease, Close, worldVars
<1> QED BY <1>1, <1>2, <1>3, <1>4, <1>5 DEF Guard

\* The requests of a guard disturb no other guard.
LEMMA OthersServed ==
  ASSUME TypeInv, LeaseInv, NEW g \in Guards, Guard(g)
  PROVE  \A h \in Guards \ {g} : GuardInv(h)'
<1> SUFFICES ASSUME NEW h \in Guards, h # g PROVE GuardInv(h)'
  OBVIOUS
<1>0. /\ DaemonTypes /\ clock \in Nat /\ UNCHANGED clock /\ g \in Clients
      /\ client[g] \in Link /\ spare[g] \in Link
  BY GuardLocal, GuardNumbers DEF TypeInv, TypeOK, WorldTypes, GuardTypes, Clients
<1>1. \A t \in Nat : Good(h, t) => Good(h, t)'
  <2>1. CASE HandleClient(g)
    <3>1. \E r \in Request : HandleRequest(g, r)
      BY <1>0, <2>1, LinkServed DEF HandleClient, Serve
    <3> QED BY <1>0, <3>1, GoodServed
  <2>2. CASE HandleSpare(g)
    <3>1. \E r \in Request : HandleRequest(g, r)
      BY <1>0, <2>2, LinkServed DEF HandleSpare, Serve
    <3> QED BY <1>0, <3>1, GoodServed
  <2>3. CASE UNCHANGED daemonVars
    BY <1>0, <2>3 DEF daemonVars, tableVars, historyVars, Good, Backed, Now
  <2> QED BY <2>1, <2>2, <2>3, GuardLocal
<1>2. UNCHANGED <<pc[h], ttl[h], client[h], spare[h], lease[h]>>
  BY GuardLocal
<1> QED BY <1>0, <1>1, <1>2, OtherGuard DEF LeaseInv

\* A step of the guard's own side changes nobody's lease in the daemon.
LEMMA OwnBelief ==
  ASSUME UNCHANGED <<clock, claim, granted, undercut>>
  PROVE  /\ \A g, t : Good(g, t)' <=> Good(g, t)
         /\ LeaseEnd' = LeaseEnd
BY DEF Good, Backed, Now, LeaseEnd

\* A sequence of one.
LEMMA HeadOfOne ==
  ASSUME NEW x
  PROVE  Head(<<x>>) = x /\ Tail(<<x>>) = <<>>
OBVIOUS

\* Reading the reply to the one request.
LEMMA AskedRead ==
  ASSUME NEW g \in Guards, NEW l \in Link, Asked(g, l), Readable(l)
  PROVE  /\ Quiet(Read(l))
         /\ Head(l.reps) => Good(g, ttl[g])
<1>1. /\ l.reqs = <<>>
      /\ \/ l.reps = <<FALSE>>
         \/ l.reps = <<TRUE>> /\ Good(g, ttl[g])
  BY DEF Asked, Readable, Quiet
<1>2. Tail(l.reps) = <<>> /\ (Head(l.reps) => Good(g, ttl[g]))
  <2>1. CASE l.reps = <<FALSE>>
    BY <2>1, HeadOfOne
  <2>2. CASE l.reps = <<TRUE>> /\ Good(g, ttl[g])
    BY <2>2, HeadOfOne
  <2> QED BY <1>1, <2>1, <2>2
<1>3. Read(l).reqs = <<>> /\ Read(l).reps = <<>>
  BY <1>1, <1>2 DEF Read, Link
<1> QED BY <1>2, <1>3 DEF Quiet

\* The steps a guard takes while it renews, one at a time.
LEMMA OwnGuard ==
  ASSUME TypeInv, LeaseInv, NEW g \in Guards, Guard(g)
  PROVE  GuardInv(g)'
<1>0. /\ GuardInv(g) /\ DaemonTypes /\ clock \in Nat /\ UNCHANGED clock /\ g \in Clients
      /\ client[g] \in Link /\ spare[g] \in Link /\ ttl[g] \in Nat /\ lease[g] \in Nat
      /\ LeaseEnd \in Nat
      /\ pc[g] \in {"new", "holding", "asleep", "renewing", "reconnecting", "rejoining",
                    "releasing", "dropping", "dropped", "gone"}
  BY GuardLocal, GuardNumbers, Seconds
     DEF LeaseInv, TypeInv, TypeOK, WorldTypes, GuardTypes, Clients
<1>1. Good(g, 0)'
  <2>1. Now \in Nat /\ Now' = Now
    BY <1>0, Seconds DEF Now
  <2> QED BY <2>1 DEF Good
<1>2. \A r : Quiet(Closed) /\ Closed.reqs = <<>> /\ Closed.reps = <<>>
             /\ Opened(r).alive /\ Opened(r).reqs = <<r>> /\ Opened(r).reps = <<>>
  BY DEF Closed, Opened, Quiet
<1> USE DEF Goto, Sleep, Attempt, Told, Cancel
<1>3. CASE HandleClient(g)
  <2>1. /\ UNCHANGED <<pc, ttl, spare, lease, clock>> /\ Serve(g, client[g])
        /\ client'[g] = Answered(g, client[g])
    BY <1>0, <1>3 DEF HandleClient, worldVars, TypeInv, TypeOK, GuardTypes
  <2>2. CASE pc[g] \in {"holding", "renewing"}
    <3>1. lease[g] <= ttl[g]
      BY <1>0, <2>2 DEF GuardInv, Leaving
    <3>2. Asked(g, client[g])' /\ Good(g, lease[g])'
      BY <1>0, <2>1, <2>2, <3>1, AskedServed DEF GuardInv
    <3> QED BY <1>0, <2>1, <2>2, <3>2 DEF GuardInv, LeaseEnd, Now, Leaving
  <2>3. CASE pc[g] \in Leaving
    BY <1>0, <1>1, <2>1, <2>3 DEF GuardInv, Leaving, LeaseEnd, Now
  <2>4. CASE pc[g] \in {"new", "asleep", "reconnecting", "rejoining"}
    BY <1>0, <2>1, <2>4 DEF GuardInv, Quiet, Serve
  <2> QED BY <1>0, <2>2, <2>3, <2>4 DEF Leaving
<1>4. CASE HandleSpare(g)
  <2>1. /\ UNCHANGED <<pc, ttl, client, lease, clock>> /\ Serve(g, spare[g])
        /\ spare'[g] = Answered(g, spare[g])
    BY <1>0, <1>4 DEF HandleSpare, worldVars, TypeInv, TypeOK, GuardTypes
  <2>2. pc[g] = "rejoining"
    BY <1>0, <1>2, <2>1 DEF GuardInv, Serve
  <2>3. Asked(g, spare[g])' /\ Good(g, lease[g])'
    BY <1>0, <2>1, <2>2, AskedServed DEF GuardInv
  <2> QED BY <1>0, <2>1, <2>2, <2>3 DEF GuardInv, LeaseEnd, Now, Leaving, Quiet
<1>5. ASSUME UNCHANGED daemonVars
      PROVE  /\ \A t : Good(g, t)' <=> Good(g, t)
             /\ LeaseEnd' = LeaseEnd
  BY <1>0, <1>5, OwnBelief DEF daemonVars, tableVars, historyVars
<1>6. CASE Hold(g)
  <2>1. /\ pc'[g] = "holding" /\ ttl'[g] = LeaseEnd /\ UNCHANGED <<spare, lease, daemonVars>>
        /\ client'[g] = Opened(AcquireUntil(LeaseEnd)) /\ pc[g] = "new"
    BY <1>0, <1>6 DEF Hold, TypeInv, TypeOK, GuardTypes
  <2>2. Asked(g, client[g])'
    BY <1>2, <2>1 DEF Asked
  <2>3. lease'[g] = 0 /\ Good(g, lease[g])'
    BY <1>0, <1>1, <2>1 DEF GuardInv
  <2>4. LeaseEnd' = LeaseEnd /\ 0 <= LeaseEnd /\ LeaseEnd <= LeaseEnd
    BY <1>0, <1>5, <2>1
  <2>5. spare'[g] = Closed
    BY <1>0, <2>1 DEF GuardInv
  <2> QED BY <2>1, <2>2, <2>3, <2>4, <2>5 DEF GuardInv, Leaving
<1>7. CASE HoldReply(g)
  <2>1. pc[g] = "holding" /\ UNCHANGED <<spare, daemonVars>> /\ Asked(g, client[g]) /\ lease[g] = 0
    BY <1>0, <1>7 DEF HoldReply, GuardInv
  <2>2. CASE Succeeded(client[g]) /\ client' = [client EXCEPT ![g] = Read(@)] /\ Told(g) /\ Sleep(g)
    <3>1. Quiet(Read(client[g])) /\ Good(g, ttl[g])
      BY <1>0, <2>1, <2>2, AskedRead DEF Succeeded
    <3>2. pc'[g] = "asleep" /\ lease'[g] = ttl[g] /\ client'[g] = Read(client[g])
      BY <1>0, <2>2 DEF TypeInv, TypeOK, GuardTypes
    <3> QED BY <1>0, <1>5, <2>1, <3>1, <3>2 DEF GuardInv, Leaving
  <2>3. CASE client' = [client EXCEPT ![g] = Closed] /\ Goto(g, "gone") /\ UNCHANGED <<ttl, wake, lease>>
    <3>1. pc'[g] = "gone"
      BY <1>0, <2>3 DEF TypeInv, TypeOK, GuardTypes
    <3> QED BY <1>0, <1>5, <2>1, <2>3, <3>1 DEF GuardInv, Leaving
  <2> QED BY <1>7, <2>2, <2>3 DEF HoldReply
<1>8. CASE Wake(g)
  <2>1. /\ pc'[g] = "renewing" /\ ttl'[g] = LeaseEnd /\ UNCHANGED <<spare, lease, daemonVars>>
        /\ client'[g] = Sent(client[g], AcquireUntil(LeaseEnd)) /\ pc[g] = "asleep"
    BY <1>0, <1>8 DEF Wake, TypeInv, TypeOK, GuardTypes
  <2>2. Quiet(client[g])
    BY <1>0, <2>1 DEF GuardInv
  <2>3. \/ Quiet(client'[g])
        \/ /\ client'[g].alive
           /\ client'[g].reqs = <<AcquireUntil(LeaseEnd)>> /\ client'[g].reps = <<>>
    BY <1>0, <2>1, <2>2 DEF Sent, Quiet, Link
  <2>4. Asked(g, client[g])'
    BY <2>1, <2>3 DEF Asked, Quiet
  <2>5. /\ LeaseEnd' = LeaseEnd /\ LeaseEnd <= LeaseEnd /\ lease'[g] <= LeaseEnd
        /\ Good(g, lease[g])' /\ spare'[g] = Closed
    BY <1>0, <1>5, <2>1 DEF GuardInv
  <2> QED BY <2>1, <2>4, <2>5 DEF GuardInv, Leaving
<1>9. CASE RenewReply(g)
  <2>1. pc[g] = "renewing" /\ UNCHANGED <<spare, daemonVars>> /\ Asked(g, client[g])
        /\ lease[g] <= ttl[g] /\ ttl[g] <= LeaseEnd
    BY <1>0, <1>9 DEF RenewReply, GuardInv
  <2>2. CASE /\ Readable(client[g]) /\ client' = [client EXCEPT ![g] = Read(@)]
             /\ Head(client[g].reps) /\ Told(g) /\ Sleep(g)
    <3>1. Quiet(Read(client[g])) /\ Good(g, ttl[g])
      BY <1>0, <2>1, <2>2, AskedRead
    <3>2. pc'[g] = "asleep" /\ lease'[g] = ttl[g] /\ client'[g] = Read(client[g])
      BY <1>0, <2>2 DEF TypeInv, TypeOK, GuardTypes
    <3> QED BY <1>0, <1>5, <2>1, <3>1, <3>2 DEF GuardInv, Leaving
  <2>3. CASE /\ Readable(client[g]) /\ client' = [client EXCEPT ![g] = Read(@)]
             /\ Goto(g, "reconnecting") /\ UNCHANGED <<ttl, wake, lease>>
    <3>1. Quiet(Read(client[g]))
      BY <1>0, <2>1, <2>3, AskedRead
    <3>2. pc'[g] = "reconnecting" /\ client'[g] = Read(client[g])
      BY <1>0, <2>3 DEF TypeInv, TypeOK, GuardTypes
    <3> QED BY <1>0, <1>5, <2>1, <2>3, <3>1, <3>2 DEF GuardInv, Leaving
  <2>4. CASE /\ Broken(client[g]) /\ Goto(g, "reconnecting")
             /\ UNCHANGED <<client, ttl, wake, lease>>
    <3>1. Quiet(client[g]) /\ pc'[g] = "reconnecting"
      BY <1>0, <2>1, <2>4 DEF Broken, Asked, Quiet, TypeInv, TypeOK, GuardTypes
    <3> QED BY <1>0, <1>5, <2>1, <2>4, <3>1 DEF GuardInv, Leaving
  <2> QED BY <1>9, <2>2, <2>3, <2>4 DEF RenewReply
<1>10. CASE Reconnect(g)
  <2>1. pc[g] = "reconnecting" /\ UNCHANGED <<client, lease, daemonVars>> /\ Quiet(client[g])
        /\ lease[g] <= ttl[g] /\ ttl[g] <= LeaseEnd /\ spare[g] = Closed
    BY <1>0, <1>10 DEF Reconnect, GuardInv
  <2>2. CASE spare' = [spare EXCEPT ![g] = Opened(AcquireUntil(ttl[g]))]
             /\ Goto(g, "rejoining") /\ UNCHANGED <<ttl, wake>>
    <3>1. pc'[g] = "rejoining" /\ spare'[g] = Opened(AcquireUntil(ttl[g]))
      BY <1>0, <2>2 DEF TypeInv, TypeOK, GuardTypes
    <3> QED BY <1>0, <1>2, <1>5, <2>1, <2>2, <3>1 DEF GuardInv, Asked, Leaving
  <2>3. CASE Sleep(g) /\ UNCHANGED spare
    <3>1. pc'[g] = "asleep"
      BY <1>0, <2>3 DEF TypeInv, TypeOK, GuardTypes
    <3> QED BY <1>0, <1>5, <2>1, <2>3, <3>1 DEF GuardInv, Leaving
  <2> QED BY <1>10, <2>2, <2>3 DEF Reconnect
<1>11. CASE RejoinReply(g)
  <2>1. pc[g] = "rejoining" /\ UNCHANGED daemonVars /\ Quiet(client[g]) /\ Asked(g, spare[g])
        /\ lease[g] <= ttl[g] /\ ttl[g] <= LeaseEnd
    BY <1>0, <1>11 DEF RejoinReply, GuardInv
  <2>2. pc'[g] = "asleep" /\ spare'[g] = Closed
    BY <1>0, <1>11 DEF RejoinReply, TypeInv, TypeOK, GuardTypes
  <2>3. CASE Succeeded(spare[g]) /\ client' = [client EXCEPT ![g] = Read(spare[g])] /\ Told(g)
    <3>1. Quiet(Read(spare[g])) /\ Good(g, ttl[g])
      BY <1>0, <2>1, <2>3, AskedRead DEF Succeeded
    <3>2. lease'[g] = ttl[g] /\ client'[g] = Read(spare[g])
      BY <1>0, <2>3 DEF TypeInv, TypeOK, GuardTypes
    <3> QED BY <1>0, <1>5, <2>1, <2>2, <3>1, <3>2 DEF GuardInv, Leaving
  <2>4. CASE UNCHANGED <<client, lease>>
    BY <1>0, <1>5, <2>1, <2>2, <2>4 DEF GuardInv, Leaving
  <2> QED BY <1>11, <2>3, <2>4 DEF RejoinReply
<1>12. CASE Release(g) \/ Drop(g)
  <2>1. pc'[g] \in Leaving /\ spare'[g] = Closed /\ lease'[g] = 0
    BY <1>0, <1>12 DEF Release, Drop, TypeInv, TypeOK, GuardTypes, Leaving
  <2> QED BY <1>0, <1>1, <2>1, Seconds DEF GuardInv, Leaving, LeaseEnd, Now
<1>13. CASE ReleaseReply(g) \/ DropRelease(g) \/ Close(g)
  <2>1. pc[g] \in Leaving /\ pc'[g] \in Leaving /\ UNCHANGED <<spare, lease>>
    BY <1>0, <1>13 DEF ReleaseReply, DropRelease, Close, TypeInv, TypeOK, GuardTypes, Leaving
  <2> QED BY <1>0, <1>1, <2>1 DEF GuardInv, Leaving, LeaseEnd, Now
<1> QED BY <1>3, <1>4, <1>6, <1>7, <1>8, <1>9, <1>10, <1>11, <1>12, <1>13 DEF Guard

\* A guard that leaves does not come back, and only one that leaves abandons a request.
LEMMA OrphansLeft ==
  ASSUME TypeInv, LeaseInv, NEW g \in Guards, Guard(g)
  PROVE  OrphanInv'
<1>0. /\ GuardInv(g) /\ OrphanInv
      /\ \A h \in Guards \ {g} : UNCHANGED pc[h]
      /\ \A o \in orphans : o.c \in Guards
  BY GuardLocal DEF LeaseInv, TypeInv, TypeOK, GuardTypes
<1>1. \A l : \A o \in Orphaned(g, l) : o.c = g
  BY DEF Orphaned
<1>2. /\ pc[g] \in Leaving => pc'[g] \in Leaving
      /\ orphans' = orphans \/ pc'[g] \in Leaving
      /\ \E l : orphans' \subseteq orphans \cup Orphaned(g, l)
  <2> USE DEF Leaving, Goto, Sleep, Cancel, LeftBehind, TypeInv, TypeOK, GuardTypes
  <2>1. CASE HandleClient(g) \/ HandleSpare(g) \/ Hold(g) \/ HoldReply(g) \/ Wake(g)
    BY <2>1 DEF HandleClient, HandleSpare, Hold, HoldReply, Wake
  <2>2. CASE RenewReply(g) \/ Reconnect(g)
    BY <2>2 DEF RenewReply, Reconnect
  <2>3. CASE RejoinReply(g)
    <3>1. Orphaned(g, client[g]) = {}
      BY <1>0, <2>3 DEF RejoinReply, GuardInv, Quiet, Orphaned
    <3>2. orphans' = orphans
      BY <2>3, <3>1 DEF RejoinReply
    <3> QED BY <2>3, <3>2 DEF RejoinReply
  <2>4. CASE Release(g) \/ Drop(g)
    BY <2>4 DEF Release, Drop
  <2>5. CASE ReleaseReply(g) \/ DropRelease(g) \/ Close(g)
    BY <2>5 DEF ReleaseReply, DropRelease, Close
  <2> QED BY <2>1, <2>2, <2>3, <2>4, <2>5 DEF Guard
<1>3. CASE orphans' = orphans
  BY <1>0, <1>2, <1>3 DEF OrphanInv
<1>4. CASE pc'[g] \in Leaving
  BY <1>0, <1>1, <1>2, <1>4 DEF OrphanInv
<1> QED BY <1>2, <1>3, <1>4

\* At first nobody holds anything.
LEMMA LeaseInit == Init => LeaseInv
<1> SUFFICES ASSUME Init PROVE LeaseInv
  OBVIOUS
<1>1. OrphanInv
  BY DEF Init, OrphanInv
<1>2. ASSUME NEW g \in Guards PROVE GuardInv(g)
  <2>0. clock \in Nat
    BY DEF Init
  <2>1. /\ pc[g] = "new" /\ client[g] = Closed /\ spare[g] = Closed /\ lease[g] = 0
        /\ Good(g, 0) /\ 0 <= LeaseEnd
    BY <2>0, GoodZero, Seconds DEF Init
  <2> QED BY <2>1 DEF GuardInv, Quiet, Closed, Leaving
<1> QED BY <1>1, <1>2 DEF LeaseInv

\* What a command does to the daemon's table, and what it leaves alone.
LEMMA CommandServed ==
  ASSUME TypeInv, NEW w \in Waiters, Command(w)
  PROVE  /\ \/ \E r \in Request : HandleRequest(w, r)
            \/ \E u \in Nat : TakeClaim(w, u, FALSE)
            \/ UNCHANGED <<claim, historyVars>>
         /\ UNCHANGED <<clock, bus, guardVars, orphans>>
<1>1. WaiterTypes(w)
  BY DEF TypeInv
<1>2. CASE FirstReply(w) \/ GiveBackReply(w)
  <2>1. HandleRequest(w, asked[w]) /\ asked[w] \in Request
    BY <1>1, <1>2 DEF FirstReply, GiveBackReply, WaiterTypes, Awaiting
  <2> QED BY <1>2, <2>1 DEF FirstReply, GiveBackReply, worldVars
<1>3. CASE RetryReply(w)
  <2>1. TakeClaim(w, asked[w].ttl, FALSE) /\ asked[w].ttl \in Nat
    BY <1>1, <1>3 DEF RetryReply, WaiterTypes, Awaiting, Request
  <2> QED BY <1>3, <2>1 DEF RetryReply, worldVars
<1>4. CASE \/ \E force \in BOOLEAN : TryOnce(w, force)
           \/ Subscribe(w) \/ Retry(w) \/ Timeout(w) \/ GiveBack(w)
  BY <1>4 DEF TryOnce, Subscribe, Retry, Timeout, GiveBack, worldVars, daemonVars, tableVars
<1> QED BY <1>2, <1>3, <1>4 DEF Command

\* A step of a client that is no guard, or of one that has left, seen by the guards.
LEMMA GuardsServed ==
  ASSUME TypeInv, LeaseInv, UNCHANGED clock, UNCHANGED guardVars, orphans' \subseteq orphans,
         NEW c \in Clients, c \in Guards => pc[c] \in Leaving,
         \/ \E r \in Request : HandleRequest(c, r)
         \/ \E u \in Nat : TakeClaim(c, u, FALSE)
         \/ UNCHANGED <<claim, historyVars>>
  PROVE  LeaseInv'
<1>0. DaemonTypes /\ clock \in Nat /\ Now' = Now /\ LeaseEnd' = LeaseEnd
  BY GuardNumbers DEF TypeInv, TypeOK, WorldTypes, Now, LeaseEnd
<1>1. OrphanInv'
  BY DEF LeaseInv, OrphanInv, guardVars
<1>2. ASSUME NEW g \in Guards PROVE GuardInv(g)'
  <2>1. UNCHANGED <<pc[g], ttl[g], client[g], spare[g], lease[g]>> /\ GuardInv(g)
    BY DEF guardVars, LeaseInv
  <2>2. CASE c # g
    <3>1. \A t \in Nat : Good(g, t) => Good(g, t)'
      <4>1. CASE UNCHANGED <<claim, historyVars>>
        BY <1>0, <4>1 DEF Good, Backed, historyVars
      <4> QED BY <1>0, <2>2, <4>1, GoodServed
    <3> QED BY <2>1, <3>1, OtherGuard
  <2>3. CASE c = g
    <3>1. pc[g] \in Leaving /\ lease[g] = 0
      BY <2>1, <2>3 DEF GuardInv
    <3>2. Good(g, 0)'
      BY <1>0, Seconds DEF Good
    <3> QED BY <1>0, <2>1, <3>1, <3>2 DEF GuardInv, Leaving
  <2> QED BY <2>2, <2>3
<1> QED BY <1>1, <1>2 DEF LeaseInv

\* The end of the daemon cuts the connections off, and with them what is under way; what
\* it takes away from a guard without its last save counts as undercut.
LEMMA LeaseDown ==
  ASSUME TypeInv, LeaseInv, BusDown
  PROVE  LeaseInv'
<1>0. /\ UNCHANGED <<clock, granted, pc, ttl, lease>>
      /\ undercut' = undercut \cup Undone
      /\ client' = [g \in Guards |-> CutOff(client[g])]
      /\ spare' = [g \in Guards |-> CutOff(spare[g])]
      /\ orphans' = {}
  BY DEF BusDown
<1>2. Now \in Nat /\ Now' = Now /\ LeaseEnd' = LeaseEnd
      /\ claim' \in [sid: Sessions, ttl: Nat] \cup {None}
  <2>1. clock \in Nat
    BY GuardNumbers DEF TypeInv, TypeOK, WorldTypes
  <2>2. claim' = claim \/ claim' = saved
    BY DEF BusDown
  <2> QED BY <1>0, <2>1, <2>2, Seconds DEF TypeInv, TypeOK, WorldTypes, DaemonTypes, Now, LeaseEnd
<1>1. ASSUME NEW g \in Guards, GuardInv(g) PROVE GuardInv(g)'
  <2>1. ASSUME NEW t \in Nat, Good(g, t) PROVE Good(g, t)'
    <3> SUFFICES ASSUME t > Now PROVE (t <= granted[g] /\ (Backed(g, t) \/ g \in undercut))'
      BY <1>2 DEF Good
    <3>0. g \in Clients /\ granted[g] \in Nat
      BY DEF Clients, TypeInv, TypeOK, DaemonTypes
    <3>1. t <= granted[g] /\ granted'[g] = granted[g] /\ granted[g] > Now
      BY <1>0, <1>2, <2>1, <3>0 DEF Good
    <3>2. CASE ~Backed(g, t)'
      <4>1. ~Backed(g, granted[g])'
        BY <1>2, <3>0, <3>1, <3>2, GuardAbsence DEF Backed
      <4>2. g \in Undone
        BY <3>0, <3>1, <4>1 DEF Undone
      <4> QED BY <1>0, <3>1, <4>2
    <3> QED BY <3>1, <3>2
  <2>2. \A l : CutOff(l).reqs = <<>> /\ CutOff(l).reps = l.reps
    BY DEF CutOff, Closed
  <2>3. /\ Quiet(client[g]) => Quiet(client'[g])
        /\ Asked(g, client[g]) => Asked(g, client'[g])
        /\ Asked(g, spare[g]) => Asked(g, spare'[g])
    BY <1>0, <2>2 DEF Quiet, Asked
  <2>4. ttl[g] \in Nat /\ lease[g] \in Nat
    BY DEF TypeInv, TypeOK, GuardTypes
  <2>5. spare[g] = Closed => spare'[g] = Closed
    BY <1>0 DEF CutOff, Closed
  <2>6. Asked(g, client[g]) => Asked(g, client[g])'
    BY <1>0, <2>1, <2>3, <2>4 DEF Asked, Quiet
  <2>7. Asked(g, spare[g]) => Asked(g, spare[g])'
    BY <1>0, <2>1, <2>3, <2>4 DEF Asked, Quiet
  <2>8. Good(g, lease[g])'
    BY <1>0, <1>1, <2>1, <2>4 DEF GuardInv
  <2> QED BY <1>0, <1>1, <1>2, <2>3, <2>5, <2>6, <2>7, <2>8 DEF GuardInv, Quiet
<1> QED BY <1>0, <1>1 DEF LeaseInv, OrphanInv

\* The passage of time ends leases for the daemon and for the guards alike.
LEMMA LeaseTick ==
  ASSUME TypeInv, LeaseInv, Tick
  PROVE  LeaseInv'
<1>0. /\ clock' = clock + 1 /\ clock \in Nat
      /\ lease' = [g \in Guards |-> IF Over(lease[g]) THEN 0 ELSE lease[g]]
      /\ granted' = [c \in Clients |-> IF Over(granted[c]) THEN 0 ELSE granted[c]]
      /\ undercut' = {c \in undercut : ~Over(granted[c])}
      /\ UNCHANGED <<claim, pc, ttl, client, spare, orphans>>
  BY GuardNumbers DEF Tick, tableVars, TypeInv, TypeOK, WorldTypes
<1>1. Now' = (clock + 1) \div TicksPerSecond
  BY <1>0 DEF Now
<1>2. Now \in Nat /\ Now' \in Nat /\ Now <= Now' /\ LeaseEnd \in Nat
  BY <1>0, <1>1, Seconds, SecondsGrow, GuardNumbers DEF Now
<1>3. LeaseEnd' \in Nat /\ LeaseEnd <= LeaseEnd'
  <2> DEFINE length == IF Ttl < TicksPerSecond THEN 1 ELSE Ttl \div TicksPerSecond
  <2>1. length \in Nat
    BY GuardNumbers
  <2>2. LeaseEnd = Now + length /\ LeaseEnd' = Now' + length
    BY DEF LeaseEnd
  <2> HIDE DEF length
  <2>3. \A a, b, d \in Nat : a <= b => b + d \in Nat /\ a + d <= b + d
    OBVIOUS
  <2>4. Now' + length \in Nat /\ Now + length <= Now' + length
    BY <1>2, <2>1, <2>3
  <2> QED BY <2>2, <2>4
<1>4. ASSUME NEW g \in Guards, NEW t \in Nat, Good(g, t) PROVE Good(g, t)'
  <2> SUFFICES ASSUME t > Now' PROVE (t <= granted[g] /\ (Backed(g, t) \/ g \in undercut))'
    BY DEF Good
  <2>0. g \in Clients /\ granted[g] \in Nat
    BY DEF Clients, TypeInv, TypeOK, DaemonTypes
  <2>1. t <= granted[g] /\ (Backed(g, t) \/ g \in undercut)
    BY <1>2, <1>4 DEF Good
  <2>2. ~Over(granted[g])
    BY <1>1, <1>2, <2>0, <2>1 DEF Over
  <2>3. granted'[g] = granted[g] /\ (g \in undercut => g \in undercut')
    BY <1>0, <2>0, <2>2
  <2> QED BY <1>0, <2>1, <2>3 DEF Backed
<1>5. ASSUME NEW g \in Guards, GuardInv(g) PROVE GuardInv(g)'
  <2>0. lease[g] \in Nat /\ ttl[g] \in Nat
    BY DEF TypeInv, TypeOK, GuardTypes
  <2>1. lease'[g] \in {0, lease[g]} /\ (lease[g] = 0 => lease'[g] = 0)
    BY <1>0
  <2>2. Good(g, lease[g]) => Good(g, lease'[g])
    BY <1>0, <2>1, GoodZero
  <2>3. Good(g, lease[g])'
    <3>1. Good(g, 0)'
      BY <1>2 DEF Good
    <3>2. CASE lease'[g] = 0
      BY <3>1, <3>2
    <3>3. CASE lease'[g] = lease[g]
      BY <1>4, <1>5, <2>0, <3>3 DEF GuardInv
    <3> QED BY <2>1, <3>2, <3>3
  <2>4. \A l : Asked(g, l) => Asked(g, l)'
    BY <1>0, <1>4, <2>0 DEF Asked, Quiet
  <2>5. lease'[g] \in Nat /\ lease'[g] <= lease[g]
    BY <2>0, <2>1
  <2> QED BY <1>0, <1>2, <1>3, <1>5, <2>0, <2>1, <2>3, <2>4, <2>5 DEF GuardInv, Quiet, Leaving
<1> QED BY <1>0, <1>5 DEF LeaseInv, OrphanInv

\* Every step keeps the guards' beliefs true.
LEMMA LeaseStep ==
  ASSUME TypeInv, LeaseInv, [Next]_vars
  PROVE  LeaseInv'
<1>1. ASSUME NEW g \in Guards, Guard(g) PROVE LeaseInv'
  BY <1>1, OrphansLeft, OthersServed, OwnGuard DEF LeaseInv
<1>2. ASSUME NEW o \in orphans, HandleOrphan(o) PROVE LeaseInv'
  <2>1. o.c \in Clients /\ o.c \in Guards /\ o.req \in Request /\ pc[o.c] \in Leaving
    BY DEF TypeInv, TypeOK, GuardTypes, Clients, LeaseInv, OrphanInv
  <2>2. /\ HandleRequest(o.c, o.req) /\ UNCHANGED clock /\ UNCHANGED guardVars
        /\ orphans' \subseteq orphans
    BY <1>2 DEF HandleOrphan, worldVars
  <2> QED BY <2>1, <2>2, GuardsServed
<1>3. ASSUME NEW w \in Waiters, Command(w) PROVE LeaseInv'
  <2>1. w \in Clients /\ w \notin Guards
    BY ClientSessions DEF Clients
  <2> QED BY <1>3, <2>1, CommandServed, GuardsServed
<1>4. CASE BusDown
  BY <1>4, LeaseDown
<1>5. CASE BusUp \/ Save \/ (\E w \in Waiters : Lag(w)) \/ UNCHANGED vars
  <2>1. UNCHANGED <<clock, claim, granted, undercut, guardVars, orphans>>
    BY <1>5 DEF BusUp, Save, Lag, vars, claimGuardVars, worldVars, daemonVars, tableVars, historyVars
  <2>2. UNCHANGED <<clock, claim, granted, undercut, pc, ttl, client, spare, lease, orphans>>
    BY <2>1 DEF guardVars
  <2> QED BY <2>2 DEF LeaseInv, OrphanInv, GuardInv, Asked, Good, Backed, Quiet, LeaseEnd, Now
<1>6. CASE Tick
  BY <1>6, LeaseTick
<1> QED BY <1>1, <1>2, <1>3, <1>4, <1>5, <1>6 DEF Next

\* What a guard believes of its lease is so in every reachable state.
THEOREM LeaseInvariant == Spec => [](TypeInv /\ LeaseInv)
<1>1. Init => TypeInv /\ LeaseInv
  BY TypeInit, LeaseInit
<1>2. (TypeInv /\ LeaseInv) /\ [Next]_vars => (TypeInv /\ LeaseInv)'
  BY TypeStep, LeaseStep
<1> QED BY <1>1, <1>2, PTL DEF Spec

\* A guard that counts on its lease has it, unless force or its own session's other
\* clients took it: no cancellation, conflict, reconnection or restart of the daemon
\* makes it believe in a lease it has not got.
THEOREM BeliefBacked == Spec => []LeaseBacked
<1>1. LeaseInv => LeaseBacked
  BY DEF LeaseInv, GuardInv, Good, LeaseBacked
<1> QED BY LeaseInvariant, <1>1, PTL

-----------------------------------------------------------------------------
(* No wake-up is lost *)

\* A command finds the path free only if a release met it before it subscribed.
WaitInv(w) ==
  /\ wpc[w] = "conflict" /\ claim = None => w \in missed
  /\ wpc[w] = "waiting" /\ events[w] = 0 /\ claim = None => w \in missed

\* Nothing leaves the path free without telling the subscribers.
LEMMA FreedAnnounced ==
  ASSUME NEW c \in Clients, claim' = None
  PROVE  /\ \A t \in Nat : TakeClaim(c, t, FALSE) => UNCHANGED claim
         /\ \A t \in Nat, force \in BOOLEAN :
              HandleAcquire(c, t, force) => UNCHANGED <<claim, events>>
         /\ HandleRelease(c) => UNCHANGED <<claim, events>> \/ Announce
         /\ \A r \in Request : HandleRequest(c, r) => UNCHANGED <<claim, events>> \/ Announce
<1>0. \A t \in Nat : [sid |-> SessionOf[c], ttl |-> t] # None
  BY ClientSessions, GuardAbsence
<1>1. \A t \in Nat, force \in BOOLEAN :
        TakeClaim(c, t, force) => UNCHANGED claim /\ ~Grants(SessionOf[c], force)
  BY <1>0 DEF TakeClaim
<1>2. ASSUME NEW t \in Nat, NEW force \in BOOLEAN, HandleAcquire(c, t, force)
      PROVE  UNCHANGED <<claim, events>>
  <2>1. UNCHANGED claim /\ ~Grants(SessionOf[c], force)
    BY <1>1, <1>2 DEF HandleAcquire
  <2>2. ~force
    BY <2>1 DEF Grants
  <2> QED BY <1>2, <2>1, <2>2 DEF HandleAcquire
<1>3. HandleRelease(c) => UNCHANGED <<claim, events>> \/ Announce
  BY DEF HandleRelease, tableVars
<1>4. ASSUME NEW r \in Request, HandleRequest(c, r)
      PROVE  UNCHANGED <<claim, events>> \/ Announce
  <2>1. r.op = "acquire" => r.ttl \in Nat /\ r.force \in BOOLEAN
    BY DEF Request
  <2> QED BY <1>2, <1>3, <1>4, <2>1 DEF HandleRequest
<1> QED BY <1>1, <1>2, <1>3, <1>4

\* What becomes of a command that takes no part in a step.
LEMMA WaitKept ==
  ASSUME TypeInv, Missed, NEW v \in Waiters, WaitInv(v),
         wpc'[v] = wpc[v] \/ wpc'[v] \notin {"conflict", "waiting"},
         claim' = None /\ wpc'[v] = "waiting"
           => (UNCHANGED claim /\ events'[v] = events[v]) \/ Announce
  PROVE  WaitInv(v)'
<1>1. CASE wpc'[v] = "conflict"
  BY <1>1 DEF WaitInv, Missed
<1>2. CASE wpc'[v] = "waiting" /\ claim' = None /\ events'[v] = 0
  <2>1. wpc[v] = "waiting" /\ events[v] \in Nat
    BY <1>2 DEF TypeInv, WaiterTypes
  <2>2. ~Announce
    BY <1>2, <2>1, GuardAbsence DEF Announce, Subscribed
  <2>3. v \in missed
    BY <1>2, <2>1, <2>2 DEF WaitInv
  <2> QED BY <1>2, <2>3 DEF Missed, WaitInv
<1> QED BY <1>1, <1>2 DEF WaitInv

\* Every step keeps the commands informed.
LEMMA WaitStep ==
  ASSUME TypeInv, \A v \in Waiters : WaitInv(v), [Next]_vars
  PROVE  \A v \in Waiters : WaitInv(v)'
<1> SUFFICES ASSUME NEW v \in Waiters PROVE WaitInv(v)'
  OBVIOUS
<1> USE DEF WGoto
<1>0. /\ WaitInv(v) /\ \A w \in Waiters : WaiterTypes(w)
      /\ wpc \in [Waiters -> {"new", "asking", "conflict", "waiting", "retrying", "won", "giving",
                             "timedout", "failed", "done"}]
      /\ events \in [Waiters -> Nat \cup {None}]
  BY DEF TypeInv, TypeOK, DaemonTypes, CommandTypes
<1>1. ASSUME NEW g \in Guards, Guard(g), UNCHANGED commandVars, Missed PROVE WaitInv(v)'
  <2>1. UNCHANGED wpc
    BY <1>1 DEF commandVars
  <2>2. client[g] \in Link /\ spare[g] \in Link /\ g \in Clients
    BY DEF TypeInv, TypeOK, GuardTypes, Clients
  <2>3. HandleClient(g) \/ HandleSpare(g) => \E r \in Request : HandleRequest(g, r)
    BY <2>2, LinkServed DEF HandleClient, HandleSpare, Serve
  <2>4. claim' = None => UNCHANGED <<claim, events>> \/ Announce
    <3>1. CASE UNCHANGED daemonVars
      BY <3>1 DEF daemonVars, tableVars
    <3> QED BY <1>1, <2>2, <2>3, <3>1, GuardLocal, FreedAnnounced
  <2> QED BY <1>0, <1>1, <2>1, <2>4, WaitKept
<1>2. ASSUME NEW o \in orphans, HandleOrphan(o), UNCHANGED commandVars, Missed PROVE WaitInv(v)'
  <2>1. o.c \in Clients /\ o.req \in Request /\ UNCHANGED wpc
    BY <1>2 DEF TypeInv, TypeOK, GuardTypes, Clients, commandVars
  <2>2. claim' = None => UNCHANGED <<claim, events>> \/ Announce
    BY <1>2, <2>1, FreedAnnounced DEF HandleOrphan
  <2> QED BY <1>0, <1>2, <2>1, <2>2, WaitKept
<1>3. ASSUME NEW w \in Waiters, Command(w), Missed PROVE WaitInv(v)'
  <2>0. w \in Clients
    BY DEF Clients
  <2>1. CASE \/ \E force \in BOOLEAN : TryOnce(w, force)
             \/ Retry(w) \/ Timeout(w) \/ GiveBack(w)
    <3>1. UNCHANGED claim /\ (wpc'[v] = wpc[v] \/ wpc'[v] \notin {"conflict", "waiting"})
      BY <1>0, <2>1 DEF TryOnce, Retry, Timeout, GiveBack, daemonVars, tableVars
    <3>2. wpc'[v] = "waiting" => events'[v] = events[v]
      BY <1>0, <2>1 DEF TryOnce, Retry, Timeout, GiveBack, daemonVars, tableVars
    <3> QED BY <1>0, <1>3, <3>1, <3>2, WaitKept
  <2>2. CASE FirstReply(w)
    <3>0. asked[w] \in Request /\ asked[w].op = "acquire" /\ HandleRequest(w, asked[w])
      BY <1>0, <2>2 DEF FirstReply, WaiterTypes, Awaiting
    <3>1. claim' = None => UNCHANGED <<claim, events>> \/ Announce
      BY <2>0, <3>0, FreedAnnounced
    <3>2. CASE v = w /\ wpc'[v] = "conflict"
      <4>1. ~Grants(SessionOf[w], asked[w].force)
        BY <1>0, <2>2, <3>2 DEF FirstReply
      <4>2. TakeClaim(w, asked[w].ttl, asked[w].force)
        BY <3>0 DEF HandleRequest, HandleAcquire
      <4>3. claim # None /\ claim' = claim
        BY <4>1, <4>2 DEF TakeClaim, Grants, InForce
      <4> QED BY <3>2, <4>3 DEF WaitInv
    <3>3. CASE ~(v = w /\ wpc'[v] = "conflict")
      <4>1. wpc'[v] = wpc[v] \/ wpc'[v] \notin {"conflict", "waiting"}
        BY <1>0, <2>2, <3>3 DEF FirstReply
      <4> QED BY <1>0, <1>3, <3>1, <4>1, WaitKept
    <3> QED BY <3>2, <3>3
  <2>3. CASE Subscribe(w)
    <3>1. UNCHANGED claim /\ wpc[w] = "conflict"
      BY <2>3 DEF Subscribe
    <3>2. CASE v = w
      BY <1>0, <1>3, <3>1, <3>2 DEF WaitInv, Missed
    <3>3. CASE v # w
      <4>1. wpc'[v] = wpc[v] /\ events'[v] = events[v]
        BY <1>0, <2>3, <3>3 DEF Subscribe
      <4> QED BY <1>0, <1>3, <3>1, <4>1, WaitKept
    <3> QED BY <3>2, <3>3
  <2>4. CASE RetryReply(w)
    <3>0. asked[w].ttl \in Nat
      BY <1>0, <2>4 DEF RetryReply, WaiterTypes, Awaiting, Request
    <3>1. claim' = None => UNCHANGED claim
      BY <2>0, <2>4, <3>0, FreedAnnounced DEF RetryReply
    <3>2. CASE v = w
      <4>1. \/ wpc'[w] \notin {"conflict", "waiting"}
            \/ TakeClaim(w, asked[w].ttl, FALSE) /\ ~Grants(SessionOf[w], FALSE)
        BY <1>0, <2>4 DEF RetryReply
      <4>2. wpc'[w] \notin {"conflict", "waiting"} \/ claim' # None
        BY <4>1 DEF TakeClaim, Grants, InForce
      <4> QED BY <3>2, <4>2 DEF WaitInv
    <3>3. CASE v # w
      <4>1. wpc'[v] = wpc[v] /\ events'[v] = events[v]
        BY <1>0, <2>4, <3>3 DEF RetryReply
      <4> QED BY <1>0, <1>3, <3>1, <4>1, WaitKept
    <3> QED BY <3>2, <3>3
  <2>5. CASE GiveBackReply(w)
    <3>0. asked[w] \in Request /\ HandleRequest(w, asked[w])
      BY <1>0, <2>5 DEF GiveBackReply, WaiterTypes, Awaiting
    <3>1. claim' = None => UNCHANGED <<claim, events>> \/ Announce
      BY <2>0, <3>0, FreedAnnounced
    <3>2. wpc'[v] = wpc[v] \/ wpc'[v] \notin {"conflict", "waiting"}
      BY <1>0, <2>5 DEF GiveBackReply
    <3> QED BY <1>0, <1>3, <3>1, <3>2, WaitKept
  <2> QED BY <1>3, <2>1, <2>2, <2>3, <2>4, <2>5 DEF Command
<1>4. CASE BusDown /\ Missed
  <2>1. wpc'[v] # "waiting" /\ (wpc'[v] = wpc[v] \/ wpc'[v] = "failed")
    BY <1>4 DEF BusDown
  <2> QED BY <1>0, <1>4, <2>1, WaitKept
<1>5. CASE (BusUp \/ Tick \/ Save) /\ Missed
  <2>1. UNCHANGED <<claim, events, wpc>>
    BY <1>5 DEF BusUp, Tick, Save, daemonVars, tableVars, commandVars
  <2> QED BY <1>0, <1>5, <2>1, WaitKept
<1>6. CASE UNCHANGED vars
  <2>1. UNCHANGED <<claim, events, wpc, missed>>
    BY <1>6 DEF vars, claimGuardVars, daemonVars, tableVars, commandVars
  <2> QED BY <1>0, <2>1 DEF WaitInv
<1>7. ASSUME NEW w \in Waiters, Lag(w) PROVE WaitInv(v)'
  <2>1. /\ UNCHANGED <<claim, wpc>> /\ missed' = missed \cup {w}
        /\ v # w => events'[v] = events[v]
    BY <1>0, <1>7 DEF Lag, commandVars
  <2> QED BY <1>0, <2>1 DEF WaitInv
<1> QED BY <1>1, <1>2, <1>3, <1>4, <1>5, <1>6, <1>7 DEF Next

\* A command that waits, has read every event and finds the path free missed the
\* release before it subscribed or lagged behind: it is told of every other one.
THEOREM WakeupKept == Spec => []WakeupNotLost
<1> DEFINE Waits == \A v \in Waiters : WaitInv(v)
<1>1. Init => TypeInv /\ Waits
  BY TypeInit DEF Init, WaitInv
<1>2. (TypeInv /\ Waits) /\ [Next]_vars => (TypeInv /\ Waits)'
  BY TypeStep, WaitStep
<1>3. Waits => WakeupNotLost
  BY DEF WaitInv, WakeupNotLost
<1> HIDE DEF Waits
<1> QED BY <1>1, <1>2, <1>3, PTL DEF Spec

-----------------------------------------------------------------------------
(* What a confirmed release is worth *)

\* The claim belongs to the session of the client that made it.
MakerInv == maker # None => claim # None /\ claim.sid = SessionOf[maker]

\* The claim in force, if any, is not one that guard g made.
Free(g) == ~(InForce /\ maker = g)

\* Nothing but releases is under way for guard g.
OnlyReleases(g) ==
  /\ \A o \in orphans : o.c = g => o.req = ReleaseRequest
  /\ \A i \in DOMAIN client[g].reqs : client[g].reqs[i] = ReleaseRequest

\* A guard that leaves without having been cut off has only releases under way, and its
\* first answer says that one was handled.
ReleaseInv(g) ==
  /\ pc[g] \in Leaving /\ g \notin crossed => OnlyReleases(g)
  /\ pc[g] = "releasing" /\ g \notin crossed /\ client[g].reps # <<>> => Free(g)
  /\ g \in confirmed /\ g \notin crossed => Free(g)
  /\ g \in confirmed => pc[g] \in Leaving

ConfirmInv == MakerInv /\ \A g \in Guards : ReleaseInv(g)

\* What the daemon does for client c: the claim stays with the one who made it, no
\* other client's claim comes back, and a release of c's own leaves nothing of c.
LEMMA ClaimMade ==
  ASSUME MakerInv, UNCHANGED clock, NEW c \in Clients,
         \/ \E r \in Request : HandleRequest(c, r)
         \/ \E u \in Nat, force \in BOOLEAN : HandleAcquire(c, u, force)
         \/ \E u \in Nat, force \in BOOLEAN : TakeClaim(c, u, force)
         \/ HandleRelease(c)
  PROVE  /\ MakerInv'
         /\ \A g : g # c /\ Free(g) => Free(g)'
         /\ HandleRelease(c) => Free(c)'
<1>1. ASSUME NEW u \in Nat, NEW force \in BOOLEAN, TakeClaim(c, u, force)
      PROVE  MakerInv' /\ \A g : g # c /\ Free(g) => Free(g)'
  <2>1. CASE Grants(SessionOf[c], force)
    <3>1. claim' = [sid |-> SessionOf[c], ttl |-> u] /\ maker' = c
      BY <1>1, <2>1 DEF TakeClaim
    <3>2. claim' # None
      BY <3>1, ClientSessions, GuardAbsence
    <3> QED BY <3>1, <3>2 DEF MakerInv, Free
  <2>2. CASE ~Grants(SessionOf[c], force)
    BY <1>1, <2>2 DEF TakeClaim, historyVars, MakerInv, Free, InForce, Now
  <2> QED BY <2>1, <2>2
<1>2. ASSUME HandleRelease(c)
      PROVE  MakerInv' /\ Free(c)' /\ \A g : g # c /\ Free(g) => Free(g)'
  <2>1. CASE HeldBy(SessionOf[c])
    BY <1>2, <2>1 DEF HandleRelease, MakerInv, Free, InForce
  <2>2. CASE ~HeldBy(SessionOf[c])
    <3>1. UNCHANGED <<claim, maker>> /\ Free(c)
      BY <1>2, <2>2, ClientSessions DEF HandleRelease, tableVars, MakerInv, Free, HeldBy, Clients
    <3> QED BY <3>1 DEF MakerInv, Free, InForce, Now
  <2> QED BY <2>1, <2>2
<1>3. ASSUME NEW r \in Request, HandleRequest(c, r)
      PROVE  MakerInv' /\ \A g : g # c /\ Free(g) => Free(g)'
  <2>1. r.op = "acquire" => r.ttl \in Nat /\ r.force \in BOOLEAN
    BY DEF Request
  <2> QED BY <1>1, <1>2, <1>3, <2>1 DEF HandleRequest, HandleAcquire
<1>4. \A u \in Nat, force \in BOOLEAN : HandleAcquire(c, u, force) => TakeClaim(c, u, force)
  BY DEF HandleAcquire
<1> QED BY <1>1, <1>2, <1>3, <1>4

\* A release is no acquire.
LEMMA ReleaseHandled ==
  \A c : HandleRequest(c, ReleaseRequest) => HandleRelease(c)
BY DEF HandleRequest, ReleaseRequest

\* A guard whose own variables do not change keeps its invariant.
LEMMA OtherRelease ==
  ASSUME NEW g \in Guards, ReleaseInv(g), UNCHANGED <<pc[g], client[g]>>,
         g \in confirmed' <=> g \in confirmed, g \in crossed' <=> g \in crossed,
         \A o \in orphans' : o.c = g => o \in orphans,
         Free(g) => Free(g)'
  PROVE  ReleaseInv(g)'
BY DEF ReleaseInv, OnlyReleases

\* What a step of a guard leaves alone.
LEMMA ReleaseLocal ==
  ASSUME TypeInv, NEW g \in Guards, Guard(g)
  PROVE  /\ \A h \in Guards \ {g} : /\ h \in confirmed' <=> h \in confirmed
                                    /\ h \in crossed' <=> h \in crossed
         /\ \A o \in orphans' : o \in orphans \/ o.c = g
<1>1. \A l : \A o \in Orphaned(g, l) : o.c = g
  BY DEF Orphaned
<1>2. CASE HandleClient(g) \/ HandleSpare(g) \/ Hold(g) \/ HoldReply(g) \/ Wake(g)
           \/ RenewReply(g) \/ Reconnect(g)
  BY <1>2 DEF HandleClient, HandleSpare, Hold, HoldReply, Wake, RenewReply, Reconnect
<1>3. CASE RejoinReply(g) \/ Close(g)
  BY <1>1, <1>3 DEF RejoinReply, Close
<1>4. CASE Release(g) \/ Drop(g)
  BY <1>1, <1>4 DEF Release, Drop, Cancel, LeftBehind
<1>5. CASE ReleaseReply(g) \/ DropRelease(g)
  BY <1>5 DEF ReleaseReply, DropRelease
<1> QED BY <1>2, <1>3, <1>4, <1>5 DEF Guard

\* The other guards, while guard g takes a step.
LEMMA OthersReleased ==
  ASSUME TypeInv, ConfirmInv, NEW g \in Guards, Guard(g)
  PROVE  MakerInv' /\ \A h \in Guards \ {g} : ReleaseInv(h)'
<1>0. g \in Clients /\ UNCHANGED clock /\ MakerInv
  BY GuardLocal DEF Clients, ConfirmInv
<1>1. MakerInv' /\ \A h \in Guards \ {g} : Free(h) => Free(h)'
  <2>1. CASE HandleClient(g) \/ HandleSpare(g)
    <3>1. \E r \in Request : HandleRequest(g, r)
      BY <2>1, LinkServed DEF HandleClient, HandleSpare, Serve, TypeInv, TypeOK, GuardTypes
    <3> QED BY <1>0, <3>1, ClaimMade
  <2>2. CASE UNCHANGED daemonVars
    BY <1>0, <2>2 DEF daemonVars, tableVars, historyVars, MakerInv, Free, InForce, Now
  <2> QED BY <2>1, <2>2, GuardLocal
<1>2. ASSUME NEW h \in Guards \ {g} PROVE ReleaseInv(h)'
  <2>1. ReleaseInv(h) /\ UNCHANGED <<pc[h], client[h]>>
    BY GuardLocal DEF ConfirmInv
  <2>2. /\ h \in confirmed' <=> h \in confirmed
        /\ h \in crossed' <=> h \in crossed
        /\ \A o \in orphans' : o.c = h => o \in orphans
    BY ReleaseLocal
  <2> QED BY <1>1, <2>1, <2>2, OtherRelease
<1> QED BY <1>1, <1>2

\* What a release sent on a connection, or one handled on it, leaves there.
LEMMA ReleasesKept ==
  ASSUME NEW l \in Link, \A i \in DOMAIN l.reqs : l.reqs[i] = ReleaseRequest
  PROVE  /\ \A i \in DOMAIN Sent(l, ReleaseRequest).reqs :
              Sent(l, ReleaseRequest).reqs[i] = ReleaseRequest
         /\ l.reqs # <<>> => Head(l.reqs) = ReleaseRequest
         /\ l.reqs # <<>> => \A i \in DOMAIN Tail(l.reqs) : Tail(l.reqs)[i] = ReleaseRequest
<1>0. l.reqs \in Seq(Request) /\ ReleaseRequest \in Request
  BY Requests DEF Link
<1>1. \A i \in DOMAIN Append(l.reqs, ReleaseRequest) :
        Append(l.reqs, ReleaseRequest)[i] = ReleaseRequest
  BY <1>0
<1>2. Sent(l, ReleaseRequest).reqs \in {l.reqs, Append(l.reqs, ReleaseRequest)}
  BY DEF Sent, Link
<1>3. l.reqs # <<>> => /\ Head(l.reqs) = ReleaseRequest
                       /\ \A i \in DOMAIN Tail(l.reqs) : Tail(l.reqs)[i] = ReleaseRequest
  BY <1>0
<1> QED BY <1>1, <1>2, <1>3

\* The steps of the guard itself, one at a time.
LEMMA OwnRelease ==
  ASSUME TypeInv, LeaseInv, ConfirmInv, NEW g \in Guards, Guard(g)
  PROVE  ReleaseInv(g)'
<1>0. /\ GuardInv(g) /\ OrphanInv /\ ReleaseInv(g) /\ MakerInv /\ g \in Clients /\ UNCHANGED clock
      /\ client[g] \in Link
      /\ pc[g] \in {"new", "holding", "asleep", "renewing", "reconnecting", "rejoining",
                    "releasing", "dropping", "dropped", "gone"}
  BY GuardLocal DEF LeaseInv, ConfirmInv, TypeInv, TypeOK, GuardTypes, Clients
<1>1. UNCHANGED daemonVars => (Free(g)' <=> Free(g))
  BY <1>0 DEF daemonVars, tableVars, historyVars, Free, InForce, Now
<1>2. pc[g] \notin Leaving => g \notin confirmed /\ \A o \in orphans : o.c # g
  BY <1>0 DEF ReleaseInv, OrphanInv
<1>3. \A i \in DOMAIN Closed.reqs : Closed.reqs[i] = ReleaseRequest
  BY DEF Closed
<1> USE DEF Goto, Sleep, Attempt, Told
<1>4. CASE HandleClient(g)
  <2>1. /\ UNCHANGED <<pc, confirmed, crossed, orphans>> /\ Serve(g, client[g])
        /\ client'[g] = Answered(g, client[g])
    BY <1>0, <1>4 DEF HandleClient, TypeInv, TypeOK, GuardTypes
  <2>2. Answered(g, client[g]).reqs = Tail(client[g].reqs)
    BY <1>0 DEF Answered, Link
  <2>3. CASE pc[g] \in Leaving /\ g \notin crossed
    <3>1. Head(client[g].reqs) = ReleaseRequest
          /\ \A i \in DOMAIN Tail(client[g].reqs) : Tail(client[g].reqs)[i] = ReleaseRequest
      BY <1>0, <2>1, <2>3, ReleasesKept DEF ReleaseInv, OnlyReleases, Serve
    <3>2. HandleRelease(g)
      BY <2>1, <3>1, ReleaseHandled DEF Serve
    <3>3. Free(g)'
      BY <1>0, <3>2, ClaimMade
    <3>4. OnlyReleases(g)'
      BY <1>0, <2>1, <2>2, <2>3, <3>1 DEF ReleaseInv, OnlyReleases
    <3> QED BY <1>0, <2>1, <3>3, <3>4 DEF ReleaseInv
  <2>4. CASE pc[g] \notin Leaving \/ g \in crossed
    BY <1>0, <1>2, <2>1, <2>4 DEF ReleaseInv, Leaving
  <2> QED BY <2>3, <2>4
<1>5. CASE HandleSpare(g)
  <2>1. UNCHANGED <<pc, confirmed, crossed>> /\ Serve(g, spare[g])
    BY <1>5 DEF HandleSpare
  <2>2. pc[g] \notin Leaving
    BY <1>0, <2>1 DEF GuardInv, Serve, Closed, Leaving
  <2> QED BY <1>2, <2>1, <2>2 DEF ReleaseInv, Leaving
<1>6. CASE Hold(g) \/ Wake(g) \/ RenewReply(g) \/ Reconnect(g) \/ RejoinReply(g)
  <2>1. pc[g] \notin Leaving /\ UNCHANGED <<confirmed, crossed>>
    BY <1>6 DEF Hold, Wake, RenewReply, Reconnect, RejoinReply, Leaving
  <2>2. pc'[g] \notin Leaving
    <3>1. CASE Hold(g) \/ Wake(g) \/ Reconnect(g) \/ RejoinReply(g)
      BY <3>1 DEF Hold, Wake, Reconnect, RejoinReply, Leaving, TypeInv, TypeOK, GuardTypes
    <3>2. CASE RenewReply(g)
      <4>1. Sleep(g) \/ Goto(g, "reconnecting")
        BY <3>2 DEF RenewReply
      <4> QED BY <4>1 DEF Leaving, TypeInv, TypeOK, GuardTypes
    <3> QED BY <1>6, <3>1, <3>2
  <2> QED BY <1>2, <2>1, <2>2 DEF ReleaseInv, Leaving
<1>7. CASE HoldReply(g)
  <2>1. pc[g] = "holding" /\ UNCHANGED <<confirmed, crossed, orphans>>
    BY <1>7 DEF HoldReply
  <2>2. CASE Sleep(g)
    BY <1>2, <2>1, <2>2 DEF ReleaseInv, Leaving, TypeInv, TypeOK, GuardTypes
  <2>3. CASE client' = [client EXCEPT ![g] = Closed] /\ Goto(g, "gone")
    BY <1>2, <1>3, <2>1, <2>3 DEF ReleaseInv, OnlyReleases, Leaving, TypeInv, TypeOK, GuardTypes
  <2> QED BY <1>7, <2>2, <2>3 DEF HoldReply
<1>8. ASSUME Cancel(g), pc'[g] \in Leaving, client'[g] \in {client[g], Sent(client[g], ReleaseRequest)},
             UNCHANGED <<confirmed, daemonVars>>
      PROVE  ReleaseInv(g)'
  <2>1. pc[g] \notin Leaving /\ g \notin confirmed' /\ \A o \in orphans : o.c # g
    BY <1>2, <1>8 DEF Cancel, Leaving
  <2>2. CASE pc[g] \in {"renewing", "rejoining"}
    <3>1. g \in crossed'
      BY <1>8, <2>2 DEF Cancel
    <3> QED BY <2>1, <3>1 DEF ReleaseInv
  <2>3. CASE pc[g] \in {"asleep", "reconnecting"}
    <3>1. spare[g] = Closed /\ Quiet(client[g])
      BY <1>0, <2>3 DEF GuardInv
    <3>2. orphans' = orphans
      BY <1>8, <3>1 DEF Cancel, LeftBehind, Orphaned, Closed
    <3>3. \A i \in DOMAIN client'[g].reqs : client'[g].reqs[i] = ReleaseRequest
      BY <1>0, <1>8, <3>1, ReleasesKept DEF Quiet
    <3>4. client'[g].reps = <<>>
      BY <1>0, <1>8, <3>1 DEF Quiet, Sent, Link
    <3> QED BY <2>1, <3>2, <3>3, <3>4 DEF ReleaseInv, OnlyReleases
  <2> QED BY <1>8, <2>2, <2>3 DEF Cancel
<1>9. CASE Release(g) \/ Drop(g)
  <2>1. /\ Cancel(g) /\ UNCHANGED <<confirmed, daemonVars>> /\ pc'[g] \in Leaving
        /\ client'[g] \in {client[g], Sent(client[g], ReleaseRequest)}
    BY <1>0, <1>9 DEF Release, Drop, Leaving, TypeInv, TypeOK, GuardTypes
  <2> QED BY <1>8, <2>1
<1>10. CASE ReleaseReply(g)
  <2>1. /\ pc[g] = "releasing" /\ pc'[g] = "dropping" /\ UNCHANGED <<crossed, orphans, daemonVars>>
        /\ \/ Readable(client[g]) /\ client'[g] = Read(client[g])
           \/ UNCHANGED <<client, confirmed>>
    BY <1>0, <1>10 DEF ReleaseReply, TypeInv, TypeOK, GuardTypes
  <2>2. client'[g].reqs = client[g].reqs
    BY <1>0, <2>1 DEF Read, Link
  <2>3. g \notin crossed => OnlyReleases(g)'
    BY <1>0, <2>1, <2>2 DEF ReleaseInv, OnlyReleases, Leaving
  <2>4. g \in confirmed' /\ g \notin crossed' => Free(g)'
    BY <1>0, <1>1, <2>1 DEF ReleaseInv, Readable
  <2> QED BY <2>1, <2>3, <2>4 DEF ReleaseInv, Leaving
<1>11. CASE DropRelease(g)
  <2>1. /\ pc[g] \in Leaving /\ pc'[g] = "dropped" /\ client'[g] = Sent(client[g], ReleaseRequest)
        /\ UNCHANGED <<confirmed, crossed, orphans, daemonVars>>
    BY <1>0, <1>11 DEF DropRelease, Leaving, TypeInv, TypeOK, GuardTypes
  <2>2. g \notin crossed => OnlyReleases(g)'
    BY <1>0, <2>1, ReleasesKept DEF ReleaseInv, OnlyReleases
  <2> QED BY <1>0, <1>1, <2>1, <2>2 DEF ReleaseInv, Leaving
<1>12. CASE Close(g)
  <2>1. /\ pc[g] \in Leaving /\ pc'[g] = "gone" /\ client'[g] = Closed
        /\ orphans' = orphans \cup Orphaned(g, client[g])
        /\ UNCHANGED <<confirmed, crossed, daemonVars>>
    BY <1>0, <1>12 DEF Close, Leaving, TypeInv, TypeOK, GuardTypes
  <2>2. g \notin crossed => \A o \in Orphaned(g, client[g]) : o.req = ReleaseRequest
    BY <1>0, <2>1, ReleasesKept DEF ReleaseInv, OnlyReleases, Orphaned
  <2>3. g \notin crossed => OnlyReleases(g)'
    BY <1>0, <1>3, <2>1, <2>2 DEF ReleaseInv, OnlyReleases
  <2> QED BY <1>0, <1>1, <2>1, <2>3 DEF ReleaseInv, Leaving
<1> QED BY <1>4, <1>5, <1>6, <1>7, <1>9, <1>10, <1>11, <1>12 DEF Guard

\* A step of a client that is no guard, seen by the guards.
LEMMA CommandReleased ==
  ASSUME TypeInv, ConfirmInv, NEW w \in Waiters, Command(w)
  PROVE  ConfirmInv'
<1>0. w \in Clients /\ w \notin Guards /\ UNCHANGED <<guardVars, orphans, clock>>
  BY ClientSessions, CommandServed DEF Clients
<1>1. MakerInv' /\ \A g \in Guards : Free(g) => Free(g)'
  <2>1. CASE UNCHANGED <<claim, historyVars>>
    BY <1>0, <2>1 DEF historyVars, ConfirmInv, MakerInv, Free, InForce, Now
  <2>2. CASE \/ \E r \in Request : HandleRequest(w, r)
             \/ \E u \in Nat : TakeClaim(w, u, FALSE)
    BY <1>0, <2>2, ClaimMade DEF ConfirmInv
  <2> QED BY <2>1, <2>2, CommandServed
<1>2. ASSUME NEW g \in Guards PROVE ReleaseInv(g)'
  <2>1. ReleaseInv(g) /\ UNCHANGED <<pc[g], client[g], confirmed, crossed, orphans>>
    BY <1>0 DEF guardVars, ConfirmInv
  <2> QED BY <1>1, <2>1, OtherRelease
<1> QED BY <1>1, <1>2 DEF ConfirmInv

\* What was left on a closed connection is handled like anything else.
LEMMA OrphanReleased ==
  ASSUME TypeInv, LeaseInv, ConfirmInv, NEW o \in orphans, HandleOrphan(o)
  PROVE  ConfirmInv'
<1>0. /\ o.c \in Guards /\ o.c \in Clients /\ o.req \in Request /\ pc[o.c] \in Leaving
      /\ UNCHANGED <<guardVars, clock>> /\ orphans' \subseteq orphans /\ HandleRequest(o.c, o.req)
  BY DEF HandleOrphan, worldVars, TypeInv, TypeOK, GuardTypes, Clients, LeaseInv, OrphanInv
<1>1. MakerInv' /\ \A g \in Guards : g # o.c /\ Free(g) => Free(g)'
  BY <1>0, ClaimMade DEF ConfirmInv
<1>2. ASSUME NEW g \in Guards PROVE ReleaseInv(g)'
  <2>1. ReleaseInv(g) /\ UNCHANGED <<pc[g], client[g], confirmed, crossed>>
    BY <1>0 DEF guardVars, ConfirmInv
  <2>2. CASE g # o.c
    BY <1>0, <1>1, <2>1, <2>2, OtherRelease
  <2>3. CASE g = o.c /\ g \notin crossed
    <3>1. o.req = ReleaseRequest
      BY <1>0, <2>1, <2>3 DEF ReleaseInv, OnlyReleases
    <3>2. Free(g)'
      BY <1>0, <2>3, <3>1, ReleaseHandled, ClaimMade DEF ConfirmInv
    <3> QED BY <1>0, <2>1, <3>2, OtherRelease
  <2>4. CASE g \in crossed
    BY <2>1, <2>4 DEF ReleaseInv
  <2> QED BY <2>2, <2>3, <2>4
<1> QED BY <1>1, <1>2 DEF ConfirmInv

\* The end of the daemon brings back no claim that a client made under this daemon, and
\* the passage of time none at all.
LEMMA WorldReleased ==
  ASSUME TypeInv, ConfirmInv,
         BusDown \/ BusUp \/ Save \/ Tick \/ (\E w \in Waiters : Lag(w)) \/ UNCHANGED vars
  PROVE  ConfirmInv'
<1>0. clock \in Nat /\ Now \in Nat
  BY Seconds, GuardNumbers DEF TypeInv, TypeOK, WorldTypes
<1>1. /\ UNCHANGED <<pc, confirmed, crossed>>
      /\ UNCHANGED <<claim, maker>> \/ maker' = None
  BY DEF BusDown, BusUp, Save, Tick, Lag, vars, claimGuardVars, worldVars, daemonVars, tableVars,
         historyVars, guardVars
<1>2. Now' \in Nat /\ Now <= Now'
  <2>1. clock' = clock \/ clock' = clock + 1
    BY DEF BusDown, BusUp, Save, Tick, Lag, vars, claimGuardVars, worldVars
  <2>2. CASE clock' = clock
    BY <1>0, <2>2 DEF Now
  <2>3. CASE clock' = clock + 1
    BY <1>0, <2>3, SecondsGrow, GuardNumbers DEF Now
  <2> QED BY <2>1, <2>2, <2>3
<1>3. claim' = claim /\ InForce' => InForce
  <2>1. claim # None => claim.ttl \in Nat
    BY DEF TypeInv, TypeOK, DaemonTypes
  <2> QED BY <1>0, <1>1, <1>2, <2>1 DEF InForce
<1>4. MakerInv' /\ \A g \in Guards : Free(g) => Free(g)'
  <2>1. CASE UNCHANGED <<claim, maker>>
    BY <1>3, <2>1 DEF ConfirmInv, MakerInv, Free
  <2>2. CASE maker' = None
    <3>1. \A g \in Guards : g # None
      BY ClientSessions DEF Clients
    <3> QED BY <2>2, <3>1 DEF MakerInv, Free
  <2> QED BY <1>1, <2>1, <2>2
<1>5. ASSUME NEW g \in Guards PROVE ReleaseInv(g)'
  <2>1. ReleaseInv(g)
    BY DEF ConfirmInv
  <2>2. CASE BusDown
    <3>1. client'[g].reqs = <<>> /\ client'[g].reps = client[g].reps /\ orphans' = {}
      BY <2>2 DEF BusDown, CutOff, Closed
    <3> QED BY <1>1, <1>4, <2>1, <3>1 DEF ReleaseInv, OnlyReleases
  <2>3. CASE UNCHANGED <<client, orphans>>
    BY <1>1, <1>4, <2>1, <2>3, OtherRelease
  <2> QED BY <2>2, <2>3 DEF BusUp, Save, Tick, Lag, vars, claimGuardVars, guardVars
<1> QED BY <1>4, <1>5 DEF ConfirmInv

\* A guard whose release() returned Ok, and whose renewal was not cut off with a
\* request under way, has no claim and gets none: no request left on a connection, no
\* abandoned one and no second release brings it back, only an old save could.
THEOREM ReleaseFinal == Spec => []ReleasedForGood
<1> DEFINE Inv == TypeInv /\ LeaseInv /\ ConfirmInv
<1>1. Init => Inv
  <2>1. Init => ConfirmInv
    BY DEF Init, ConfirmInv, MakerInv, ReleaseInv, Leaving
  <2> QED BY <2>1, TypeInit, LeaseInit
<1>2. Inv /\ [Next]_vars => Inv'
  <2> SUFFICES ASSUME TypeInv, LeaseInv, ConfirmInv, [Next]_vars PROVE ConfirmInv'
    BY TypeStep, LeaseStep
  <2>1. ASSUME NEW g \in Guards, Guard(g) PROVE ConfirmInv'
    BY <2>1, OthersReleased, OwnRelease DEF ConfirmInv
  <2> QED BY <2>1, CommandReleased, OrphanReleased, WorldReleased DEF Next
<1>3. Inv => ReleasedForGood
  BY DEF TypeInv, TypeOK, GuardTypes, ConfirmInv, ReleaseInv, Free, ReleasedForGood
<1> HIDE DEF Inv
<1> QED BY <1>1, <1>2, <1>3, PTL DEF Spec

-----------------------------------------------------------------------------
(* The clients and the daemon keep AdvisoryClaims *)

\* The path's holder, as AdvisoryClaims has it.
Held == [p \in {"path"} |-> IF InForce THEN claim ELSE None]

\* The clock crosses at most one second in a tick.
LEMMA SecondsStep ==
  ASSUME NEW a \in Nat
  PROVE  (a + 1) \div TicksPerSecond \in {a \div TicksPerSecond, a \div TicksPerSecond + 1}
BY GuardNumbers

\* What a request is for AdvisoryClaims.
LEMMA RequestedTyped ==
  ASSUME NEW c \in Clients, NEW r \in Request
  PROVE  Requested(c, r) \in AC!Request
BY ClientSessions DEF Requested, Request, AC!Request

\* The undecided requests follow the clients' own: they grow by one, lose one that
\* another client may still be asking for, or shrink.
LEMMA AskingFollows ==
  ASSUME NEW c \in Clients, \A d \in Clients \ {c} : Outstanding(d)' = Outstanding(d)
  PROVE  /\ Outstanding(c)' \subseteq Outstanding(c) => Asking' \subseteq Asking
         /\ \A r : Outstanding(c)' = Outstanding(c) \cup {r}
                     => Asking' = Asking \cup {Requested(c, r)}
         /\ \A r : Outstanding(c) = Outstanding(c)' \cup {r}
                     => /\ Requested(c, r) \in Asking
                        /\ Asking' = Asking \/ Asking' = Asking \ {Requested(c, r)}
<1> DEFINE Of(d) == {Requested(d, r) : r \in Outstanding(d)}
           Rest == UNION {Of(d) : d \in Clients \ {c}}
<1>1. Asking = Rest \cup Of(c)
  BY DEF Asking
<1>2. Asking' = Rest' \cup Of(c)'
  BY DEF Asking
<1>3. Rest' = Rest
  OBVIOUS
<1>4. Outstanding(c)' \subseteq Outstanding(c) => Of(c)' \subseteq Of(c)
  OBVIOUS
<1>5. ASSUME NEW r, Outstanding(c)' = Outstanding(c) \cup {r}
      PROVE  Of(c)' = Of(c) \cup {Requested(c, r)}
  BY <1>5
<1>6. ASSUME NEW r, Outstanding(c) = Outstanding(c)' \cup {r}
      PROVE  Of(c) = Of(c)' \cup {Requested(c, r)}
  BY <1>6
<1> HIDE DEF Of, Rest
<1>7. ASSUME NEW r, Outstanding(c) = Outstanding(c)' \cup {r}
      PROVE  /\ Requested(c, r) \in Asking
             /\ Asking' = Asking \/ Asking' = Asking \ {Requested(c, r)}
  BY <1>1, <1>2, <1>3, <1>6, <1>7
<1> QED BY <1>1, <1>2, <1>3, <1>4, <1>5, <1>7

\* Requests that are lost or refused show nobody anything.
LEMMA Withdrawn ==
  ASSUME UNCHANGED <<Now, Held, bus>>, Asking' \subseteq Asking
  PROVE  [AC!Next]_AC!vars
BY DEF AC!Next, AC!Withdraw, Held

\* A request is made.
LEMMA Made ==
  ASSUME UNCHANGED <<Now, Held, bus>>, NEW c \in Clients, NEW r \in Request,
         Asking' = Asking \cup {Requested(c, r)}
  PROVE  [AC!Next]_AC!vars
<1>1. Requested(c, r) \in AC!Request /\ Requested(c, r) \in Asking'
  BY RequestedTyped
<1> QED BY <1>1 DEF AC!Next, AC!Ask, Held

\* The daemon decides a request of client c.
LEMMA Decides ==
  ASSUME TypeInv, UNCHANGED <<clock, bus>>, NEW c \in Clients, NEW r \in Request,
         \A d \in Clients \ {c} : Outstanding(d)' = Outstanding(d),
         Outstanding(c) = Outstanding(c)' \cup {r},
         HandleRequest(c, r) \/ (r.op = "acquire" /\ TakeClaim(c, r.ttl, FALSE))
  PROVE  [AC!Next]_AC!vars
<1> DEFINE R == Requested(c, r)
<1>0. /\ R \in Asking /\ (Asking' = Asking \/ Asking' = Asking \ {R})
      /\ Now' = Now /\ R.sid = SessionOf[c] /\ R.path = "path" /\ R.kind = r.op
      /\ r.op \in {"acquire", "release"}
  BY AskingFollows DEF Now, Requested, Request
<1>1. ASSUME claim' = claim PROVE [AC!Next]_AC!vars
  <2>1. Held' = Held
    BY <1>0, <1>1 DEF Held, InForce
  <2> QED BY <1>0, <2>1, Withdrawn
<1>2. CASE r.op = "acquire"
  <2>1. PICK force \in BOOLEAN : TakeClaim(c, r.ttl, force) /\ (force => r.force)
    BY <1>2 DEF HandleRequest, HandleAcquire, Request
  <2>2. CASE ~Grants(SessionOf[c], force)
    BY <1>1, <2>1, <2>2 DEF TakeClaim
  <2>3. CASE Grants(SessionOf[c], force)
    <3>1. claim' = [sid |-> SessionOf[c], ttl |-> r.ttl]
      BY <2>1, <2>3 DEF TakeClaim
    <3>2. claim' # None
      BY <1>2, <3>1, ClientSessions, GuardAbsence DEF Request
    <3>3. Held' = [Held EXCEPT !["path"] =
                     IF r.ttl > Now THEN [sid |-> SessionOf[c], ttl |-> r.ttl] ELSE None]
      BY <1>0, <3>1, <3>2 DEF Held, InForce
    <3>4. Held["path"] = None \/ Held["path"].sid = SessionOf[c] \/ r.force
      BY <2>1, <2>3 DEF Held, Grants, HeldBy
    <3>5. R.ttl = r.ttl /\ R.force = r.force
      BY <1>2 DEF Requested
    <3>6. AC!Acquire(R)
      BY <1>0, <1>2, <3>3, <3>4, <3>5 DEF AC!Acquire, AC!Decided, Held
    <3> QED BY <1>0, <3>6 DEF AC!Next
  <2> QED BY <2>2, <2>3
<1>3. CASE r.op = "release"
  <2>1. HandleRelease(c)
    BY <1>3 DEF HandleRequest
  <2>2. CASE ~HeldBy(SessionOf[c])
    BY <1>1, <2>1, <2>2 DEF HandleRelease, tableVars
  <2>3. CASE HeldBy(SessionOf[c])
    <3>1. claim' = None
      BY <2>1, <2>3 DEF HandleRelease
    <3>2. Held' = [Held EXCEPT !["path"] = None]
      BY <3>1 DEF Held, InForce
    <3>3. Held["path"] # None /\ Held["path"].sid = SessionOf[c]
      BY <2>3 DEF Held, HeldBy, InForce
    <3>4. AC!Release(R)
      BY <1>0, <1>3, <3>2, <3>3 DEF AC!Release, AC!Decided, Held
    <3> QED BY <1>0, <3>4 DEF AC!Next
  <2> QED BY <2>2, <2>3
<1> QED BY <1>0, <1>2, <1>3

\* What a guard has asked for: on its connections, and left behind.
Left(g) == {o.req : o \in {p \in orphans : p.c = g}}

\* What the use of a connection does to the requests on it.
LEMMA QueuedOn ==
  ASSUME NEW l \in Link, NEW g \in Guards
  PROVE  /\ Queued(Closed) = {}
         /\ \A r : Queued(Opened(r)) = {r}
         /\ \A r \in Request : Queued(Sent(l, r)) = Queued(l) \/ Queued(Sent(l, r)) = Queued(l) \cup {r}
         /\ Queued(Read(l)) = Queued(l)
         /\ {o.req : o \in Orphaned(g, l)} \subseteq Queued(l)
         /\ l.reqs # <<>> => /\ Head(l.reqs) \in Request
                            /\ Queued(l) = Queued(Answered(g, l)) \cup {Head(l.reqs)}
<1>0. l.reqs \in Seq(Request)
  BY DEF Link
<1>1. Queued(Closed) = {} /\ \A r : Queued(Opened(r)) = {r}
  BY DEF Queued, Closed, Opened
<1>2. ASSUME NEW r \in Request
      PROVE  Queued(Sent(l, r)) = Queued(l) \/ Queued(Sent(l, r)) = Queued(l) \cup {r}
  <2>1. Sent(l, r).reqs = l.reqs \/ Sent(l, r).reqs = Append(l.reqs, r)
    BY DEF Sent, Link
  <2>2. {Append(l.reqs, r)[i] : i \in DOMAIN Append(l.reqs, r)}
           = {l.reqs[i] : i \in DOMAIN l.reqs} \cup {r}
    <3> DEFINE s == l.reqs
               t == Append(s, r)
    <3>1. /\ DOMAIN s = 1..Len(s) /\ Len(s) \in Nat
          /\ DOMAIN t = 1..(Len(s) + 1) /\ \A i \in 1..Len(s) : t[i] = s[i]
          /\ t[Len(s) + 1] = r
      BY <1>0
    <3> HIDE DEF s, t
    <3>2. DOMAIN t = DOMAIN s \cup {Len(s) + 1}
      BY <3>1
    <3>3. {t[i] : i \in DOMAIN t} = {s[i] : i \in DOMAIN s} \cup {r}
      BY <3>1, <3>2
    <3> QED BY <3>3 DEF s, t
  <2> QED BY <2>1, <2>2 DEF Queued
<1>3. Queued(Read(l)) = Queued(l)
  BY DEF Queued, Read, Link
<1>4. l.reqs # <<>> => Head(l.reqs) \in Request /\ Head(l.reqs) \in Queued(l)
  BY <1>0 DEF Queued
<1>5. {o.req : o \in Orphaned(g, l)} \subseteq Queued(l)
  BY <1>4 DEF Orphaned
<1>6. ASSUME l.reqs # <<>>
      PROVE  Queued(l) = Queued(Answered(g, l)) \cup {Head(l.reqs)}
  <2>1. Answered(g, l).reqs = Tail(l.reqs)
    BY DEF Answered, Link
  <2>2. {l.reqs[i] : i \in DOMAIN l.reqs}
           = {Tail(l.reqs)[i] : i \in DOMAIN Tail(l.reqs)} \cup {Head(l.reqs)}
    <3> DEFINE s == l.reqs
               t == Tail(s)
    <3>1. /\ DOMAIN s = 1..Len(s) /\ Len(s) \in Nat \ {0} /\ Head(s) = s[1]
          /\ DOMAIN t = 1..(Len(s) - 1) /\ \A i \in 1..(Len(s) - 1) : t[i] = s[i + 1]
      BY <1>0, <1>6
    <3> HIDE DEF s, t
    <3>2. ASSUME NEW i \in DOMAIN s PROVE s[i] = Head(s) \/ \E j \in DOMAIN t : s[i] = t[j]
      <4>1. i = 1 \/ (i - 1 \in 1..(Len(s) - 1) /\ (i - 1) + 1 = i)
        BY <3>1
      <4> QED BY <3>1, <4>1
    <3>3. ASSUME NEW j \in DOMAIN t PROVE \E i \in DOMAIN s : t[j] = s[i]
      <4>1. j + 1 \in 1..Len(s)
        BY <3>1
      <4> QED BY <3>1, <4>1
    <3>4. \E i \in DOMAIN s : Head(s) = s[i]
      <4>1. 1 \in 1..Len(s)
        BY <3>1
      <4> QED BY <3>1, <4>1
    <3>5. {s[i] : i \in DOMAIN s} = {t[j] : j \in DOMAIN t} \cup {Head(s)}
      BY <3>2, <3>3, <3>4
    <3> QED BY <3>5 DEF s, t
  <2> QED BY <2>1, <2>2 DEF Queued
<1> QED BY <1>1, <1>2, <1>3, <1>4, <1>5, <1>6

\* A guard's requests, and those of the others, while it takes a step.
LEMMA GuardAsks ==
  ASSUME TypeInv, LeaseInv, NEW g \in Guards, Guard(g)
  PROVE  \/ \E r \in Request : /\ HandleRequest(g, r)
                                /\ Outstanding(g) = Outstanding(g)' \cup {r}
         \/ /\ UNCHANGED daemonVars
            /\ \/ Outstanding(g)' \subseteq Outstanding(g)
               \/ \E r \in Request : Outstanding(g)' = Outstanding(g) \cup {r}
<1>0. /\ client \in [Guards -> Link] /\ spare \in [Guards -> Link]
      /\ client[g] \in Link /\ spare[g] \in Link /\ GuardInv(g) /\ clock \in Nat
      /\ ttl[g] \in Nat
  BY GuardNumbers DEF TypeInv, TypeOK, WorldTypes, GuardTypes, LeaseInv
<1>1. /\ Outstanding(g) = Queued(client[g]) \cup Queued(spare[g]) \cup Left(g)
      /\ Outstanding(g)' = Queued(client'[g]) \cup Queued(spare'[g]) \cup Left(g)'
  BY DEF Outstanding, Left, Queued
<1>2. LeaseEnd \in Nat /\ AcquireUntil(LeaseEnd) \in Request /\ ReleaseRequest \in Request
      /\ AcquireUntil(ttl[g]) \in Request
  BY <1>0, Seconds, Requests
<1>3. ASSUME NEW l \in Link, orphans' = orphans \cup Orphaned(g, l)
      PROVE  Left(g)' = Left(g) \cup {o.req : o \in Orphaned(g, l)}
  <2>1. \A o \in Orphaned(g, l) : o.c = g
    BY DEF Orphaned
  <2> QED BY <1>3, <2>1 DEF Left
<1>4. orphans' = orphans => Left(g)' = Left(g)
  BY DEF Left
<1> DEFINE on == Queued(client[g])
           off == Queued(spare[g])
<1>5. /\ Queued(Closed) = {}
      /\ \A r : Queued(Opened(r)) = {r}
      /\ \A r \in Request : Queued(Sent(client[g], r)) \in {on, on \cup {r}}
      /\ Queued(Read(client[g])) = on /\ Queued(Read(spare[g])) = off
      /\ {o.req : o \in Orphaned(g, client[g])} \subseteq on
      /\ {o.req : o \in Orphaned(g, spare[g])} \subseteq off
  BY <1>0, QueuedOn
<1> USE DEF Goto, Sleep, Attempt, Told
<1>6. CASE HandleClient(g)
  <2>1. /\ client[g].reqs # <<>> /\ HandleRequest(g, Head(client[g].reqs))
        /\ client'[g] = Answered(g, client[g]) /\ UNCHANGED <<spare, orphans>>
    BY <1>0, <1>6 DEF HandleClient, Serve
  <2>2. /\ Head(client[g].reqs) \in Request
        /\ on = Queued(client'[g]) \cup {Head(client[g].reqs)}
    BY <1>0, <2>1, QueuedOn
  <2>3. Outstanding(g) = Outstanding(g)' \cup {Head(client[g].reqs)}
    BY <1>1, <1>4, <2>1, <2>2
  <2> QED BY <2>1, <2>2, <2>3
<1>7. CASE HandleSpare(g)
  <2>1. /\ spare[g].reqs # <<>> /\ HandleRequest(g, Head(spare[g].reqs))
        /\ spare'[g] = Answered(g, spare[g]) /\ UNCHANGED <<client, orphans>>
    BY <1>0, <1>7 DEF HandleSpare, Serve
  <2>2. /\ Head(spare[g].reqs) \in Request
        /\ off = Queued(spare'[g]) \cup {Head(spare[g].reqs)}
    BY <1>0, <2>1, QueuedOn
  <2>3. Outstanding(g) = Outstanding(g)' \cup {Head(spare[g].reqs)}
    BY <1>1, <1>4, <2>1, <2>2
  <2> QED BY <2>1, <2>2, <2>3
<1>8. CASE Hold(g)
  <2>1. on = {}
    BY <1>0, <1>8 DEF Hold, GuardInv, Quiet, Queued
  <2>2. client'[g] = Opened(AcquireUntil(LeaseEnd)) /\ UNCHANGED <<spare, orphans, daemonVars>>
    BY <1>0, <1>8 DEF Hold
  <2>3. Outstanding(g)' = Outstanding(g) \cup {AcquireUntil(LeaseEnd)}
    BY <1>1, <1>4, <1>5, <2>1, <2>2
  <2> QED BY <1>2, <2>2, <2>3
<1>9. CASE HoldReply(g) \/ RenewReply(g) \/ ReleaseReply(g)
  <2>1. client'[g] \in {client[g], Read(client[g]), Closed}
        /\ UNCHANGED <<spare, orphans, daemonVars>>
    BY <1>0, <1>9 DEF HoldReply, RenewReply, ReleaseReply
  <2> QED BY <1>1, <1>4, <1>5, <2>1
<1>10. CASE Wake(g)
  <2>1. client'[g] = Sent(client[g], AcquireUntil(LeaseEnd))
        /\ UNCHANGED <<spare, orphans, daemonVars>>
    BY <1>0, <1>10 DEF Wake
  <2>2. Outstanding(g)' \in {Outstanding(g), Outstanding(g) \cup {AcquireUntil(LeaseEnd)}}
    BY <1>1, <1>2, <1>4, <1>5, <2>1
  <2> QED BY <1>2, <2>1, <2>2
<1>11. CASE Reconnect(g)
  <2>1. off = {}
    BY <1>0, <1>11, <1>5 DEF Reconnect, GuardInv
  <2>2. /\ spare'[g] \in {spare[g], Opened(AcquireUntil(ttl[g]))}
        /\ UNCHANGED <<client, orphans, daemonVars>>
    BY <1>0, <1>11 DEF Reconnect
  <2>3. Outstanding(g)' \in {Outstanding(g), Outstanding(g) \cup {AcquireUntil(ttl[g])}}
    BY <1>1, <1>4, <1>5, <2>1, <2>2
  <2> QED BY <1>2, <2>2, <2>3
<1>12. CASE RejoinReply(g)
  <2>1. spare'[g] = Closed /\ UNCHANGED daemonVars
    BY <1>0, <1>12 DEF RejoinReply
  <2>2. CASE client'[g] = Read(spare[g]) /\ orphans' = orphans \cup Orphaned(g, client[g])
    BY <1>0, <1>1, <1>3, <1>5, <2>1, <2>2
  <2>3. CASE UNCHANGED <<client, orphans>>
    BY <1>1, <1>4, <1>5, <2>1, <2>3
  <2> QED BY <1>0, <1>12, <2>2, <2>3 DEF RejoinReply
<1>13. CASE Release(g) \/ Drop(g)
  <2>1. /\ spare'[g] = Closed /\ orphans' = orphans \cup Orphaned(g, spare[g])
        /\ client'[g] \in {client[g], Sent(client[g], ReleaseRequest)} /\ UNCHANGED daemonVars
    BY <1>0, <1>13 DEF Release, Drop, Cancel, LeftBehind
  <2>2. {o.req : o \in Orphaned(g, spare[g])} = off
    <3>1. CASE spare[g] = Closed
      BY <1>5, <3>1
    <3>2. CASE Asked(g, spare[g])
      <4>1. CASE spare[g].reqs = <<>>
        BY <4>1 DEF Orphaned, Queued
      <4>2. CASE spare[g].alive /\ spare[g].reqs = <<AcquireUntil(ttl[g])>>
        <5>1. Head(spare[g].reqs) = AcquireUntil(ttl[g]) /\ spare[g].reqs # <<>>
              /\ off = {AcquireUntil(ttl[g])}
          BY <4>2 DEF Queued
        <5>2. {o.req : o \in Orphaned(g, spare[g])} = {AcquireUntil(ttl[g])}
          BY <4>2, <5>1 DEF Orphaned
        <5> QED BY <5>1, <5>2
      <4> QED BY <3>2, <4>1, <4>2 DEF Asked, Quiet
    <3> QED BY <1>0, <3>1, <3>2 DEF GuardInv
  <2>3. Left(g)' = Left(g) \cup off
    BY <1>0, <1>3, <2>1, <2>2
  <2>4. Outstanding(g)' \in {Outstanding(g), Outstanding(g) \cup {ReleaseRequest}}
    BY <1>1, <1>2, <1>5, <2>1, <2>3
  <2> QED BY <1>2, <2>1, <2>4
<1>14. CASE DropRelease(g)
  <2>1. client'[g] = Sent(client[g], ReleaseRequest) /\ UNCHANGED <<spare, orphans, daemonVars>>
    BY <1>0, <1>14 DEF DropRelease
  <2>2. Outstanding(g)' \in {Outstanding(g), Outstanding(g) \cup {ReleaseRequest}}
    BY <1>1, <1>2, <1>4, <1>5, <2>1
  <2> QED BY <1>2, <2>1, <2>2
<1>15. CASE Close(g)
  <2>1. /\ client'[g] = Closed /\ orphans' = orphans \cup Orphaned(g, client[g])
        /\ UNCHANGED <<spare, daemonVars>>
    BY <1>0, <1>15 DEF Close
  <2> QED BY <1>0, <1>1, <1>3, <1>5, <2>1
<1> QED BY <1>6, <1>7, <1>8, <1>9, <1>10, <1>11, <1>12, <1>13, <1>14, <1>15 DEF Guard

\* The same for a command.
LEMMA CommandAsks ==
  ASSUME TypeInv, NEW w \in Waiters, Command(w)
  PROVE  \/ \E r \in Request :
              /\ HandleRequest(w, r) \/ (r.op = "acquire" /\ TakeClaim(w, r.ttl, FALSE))
              /\ Outstanding(w) = Outstanding(w)' \cup {r}
         \/ /\ UNCHANGED claim
            /\ \/ Outstanding(w)' \subseteq Outstanding(w)
               \/ \E r \in Request : Outstanding(w)' = Outstanding(w) \cup {r}
<1>0. /\ WaiterTypes(w) /\ CommandTypes /\ w \notin Guards /\ Now + CliTtl \in Nat
  BY Seconds, WaiterNumbers, ClientSessions, GuardNumbers DEF TypeInv, TypeOK, WorldTypes
<1>1. /\ Outstanding(w) = IF Awaiting(w) THEN {asked[w]} ELSE {}
      /\ Outstanding(w)' = IF Awaiting(w)' THEN {asked'[w]} ELSE {}
  BY <1>0 DEF Outstanding
<1> USE DEF WGoto, Ask, Answer
<1>2. ASSUME Awaiting(w), ~Awaiting(w)' PROVE Outstanding(w) = Outstanding(w)' \cup {asked[w]}
  BY <1>1, <1>2
<1>3. CASE FirstReply(w) \/ GiveBackReply(w)
  <2>1. HandleRequest(w, asked[w]) /\ asked[w] \in Request /\ Awaiting(w) /\ ~Awaiting(w)'
    BY <1>0, <1>3 DEF FirstReply, GiveBackReply, WaiterTypes, Awaiting, CommandTypes
  <2> QED BY <1>2, <2>1
<1>4. CASE RetryReply(w)
  <2>1. /\ TakeClaim(w, asked[w].ttl, FALSE) /\ asked[w] \in Request /\ asked[w].op = "acquire"
        /\ Awaiting(w) /\ ~Awaiting(w)'
    BY <1>0, <1>4 DEF RetryReply, WaiterTypes, Awaiting, CommandTypes
  <2> QED BY <1>2, <2>1
<1>5. ASSUME UNCHANGED claim, ~Awaiting(w), Awaiting(w)', asked'[w] \in Request
      PROVE  UNCHANGED claim /\ \E r \in Request : Outstanding(w)' = Outstanding(w) \cup {r}
  BY <1>1, <1>5
<1>6. ASSUME NEW force \in BOOLEAN, TryOnce(w, force)
      PROVE  UNCHANGED claim /\ \E r \in Request : Outstanding(w)' = Outstanding(w) \cup {r}
  <2>1. AttemptUntil(Now + CliTtl, force) \in Request
    BY <1>0, Requests
  <2>2. UNCHANGED claim /\ ~Awaiting(w) /\ Awaiting(w)' /\ asked'[w] \in Request
    BY <1>0, <1>6, <2>1 DEF TryOnce, Awaiting, CommandTypes, daemonVars, tableVars
  <2> QED BY <1>5, <2>2
<1>7. CASE Retry(w)
  <2>1. AttemptUntil(Now + CliTtl, FALSE) \in Request /\ UNCHANGED claim /\ ~Awaiting(w)
    BY <1>0, <1>7, Requests DEF Retry, Awaiting
  <2>2. CASE WGoto(w, "failed")
    <3>1. ~Awaiting(w)'
      BY <1>0, <2>2 DEF Awaiting, CommandTypes
    <3> QED BY <1>1, <2>1, <3>1
  <2>3. CASE Ask(w, AttemptUntil(Now + CliTtl, FALSE)) /\ WGoto(w, "retrying")
    <3>1. Awaiting(w)' /\ asked'[w] \in Request
      BY <1>0, <2>1, <2>3 DEF Awaiting, CommandTypes
    <3> QED BY <1>5, <2>1, <3>1
  <2> QED BY <1>7, <2>2, <2>3 DEF Retry
<1>8. CASE GiveBack(w)
  <2>1. UNCHANGED claim /\ ~Awaiting(w) /\ Awaiting(w)' /\ asked'[w] \in Request
    BY <1>0, <1>8, Requests DEF GiveBack, Awaiting, CommandTypes, daemonVars, tableVars
  <2> QED BY <1>5, <2>1
<1>9. CASE Subscribe(w) \/ Timeout(w)
  <2>1. UNCHANGED claim /\ ~Awaiting(w)'
    BY <1>0, <1>9 DEF Subscribe, Timeout, Awaiting, CommandTypes
  <2> QED BY <1>1, <2>1
<1> QED BY <1>3, <1>4, <1>6, <1>7, <1>8, <1>9 DEF Command

\* A step that changes neither the claim nor what anybody asks for shows nothing.
LEMMA Unseen ==
  ASSUME UNCHANGED <<clock, bus, claim, client, spare, orphans, wpc, asked>>
  PROVE  [AC!Next]_AC!vars
<1>1. UNCHANGED <<Now, Held>>
  BY DEF Now, Held, InForce
<1>2. Asking' = Asking
  BY DEF Asking, Outstanding, Queued, Awaiting
<1> QED BY <1>1, <1>2, Withdrawn

\* Every step of the clients, the daemon and the clock is one that AdvisoryClaims allows.
LEMMA ClaimsStep ==
  ASSUME TypeInv, LeaseInv, [Next]_vars
  PROVE  [AC!Next]_AC!vars
<1> DEFINE Others(c) == \A d \in Clients \ {c} : Outstanding(d)' = Outstanding(d)
<1>0. ASSUME UNCHANGED <<clock, claim>> PROVE UNCHANGED <<Now, Held>>
  BY <1>0 DEF Now, Held, InForce
<1>1. ASSUME NEW c \in Clients, Others(c), UNCHANGED <<clock, bus, claim>>,
             \/ Outstanding(c)' \subseteq Outstanding(c)
             \/ \E r \in Request : Outstanding(c)' = Outstanding(c) \cup {r}
      PROVE  [AC!Next]_AC!vars
  <2>1. UNCHANGED <<Now, Held>>
    BY <1>0, <1>1
  <2>2. CASE Outstanding(c)' \subseteq Outstanding(c)
    <3>1. Asking' \subseteq Asking
      BY <1>1, <2>2, AskingFollows
    <3> QED BY <1>1, <2>1, <3>1, Withdrawn
  <2>3. ASSUME NEW r \in Request, Outstanding(c)' = Outstanding(c) \cup {r}
        PROVE  [AC!Next]_AC!vars
    <3>1. Asking' = Asking \cup {Requested(c, r)}
      BY <1>1, <2>3, AskingFollows
    <3> QED BY <1>1, <2>1, <3>1, Made
  <2> QED BY <1>1, <2>2, <2>3
<1>2. ASSUME NEW g \in Guards, Guard(g), UNCHANGED commandVars PROVE [AC!Next]_AC!vars
  <2>1. UNCHANGED <<clock, bus>> /\ g \in Clients
    BY <1>2, GuardLocal DEF Clients
  <2>2. Others(g)
    <3>1. ASSUME NEW d \in Clients \ {g}, d \in Guards PROVE Outstanding(d)' = Outstanding(d)
      <4>1. UNCHANGED <<client[d], spare[d]>>
        BY <1>2, <3>1, GuardLocal
      <4>2. \A o : o.c = d => (o \in orphans' <=> o \in orphans)
        <5>1. \A o \in orphans' : o \in orphans \/ o.c = g
          BY <1>2, ReleaseLocal
        <5>2. orphans \subseteq orphans'
          BY <1>2 DEF Guard, HandleClient, HandleSpare, Hold, HoldReply, Wake, RenewReply,
             Reconnect, RejoinReply, Release, ReleaseReply, Drop, DropRelease, Close, Cancel
        <5> QED BY <3>1, <5>1, <5>2
      <4> QED BY <3>1, <4>1, <4>2 DEF Outstanding, Queued
    <3>2. ASSUME NEW d \in Clients \ {g}, d \notin Guards PROVE Outstanding(d)' = Outstanding(d)
      BY <1>2, <3>2 DEF Outstanding, Awaiting, commandVars
    <3> QED BY <3>1, <3>2
  <2>3. UNCHANGED daemonVars => UNCHANGED claim
    BY DEF daemonVars, tableVars
  <2>4. ASSUME NEW r \in Request, HandleRequest(g, r), Outstanding(g) = Outstanding(g)' \cup {r}
        PROVE  [AC!Next]_AC!vars
    BY <2>1, <2>2, <2>4, Decides
  <2> QED BY <1>1, <1>2, <2>1, <2>2, <2>3, <2>4, GuardAsks
<1>3. ASSUME NEW o \in orphans, HandleOrphan(o), UNCHANGED commandVars PROVE [AC!Next]_AC!vars
  <2>1. /\ o.c \in Guards /\ o.c \in Clients /\ o.req \in Request
        /\ HandleRequest(o.c, o.req) /\ UNCHANGED <<clock, bus, client, spare>>
        /\ orphans' = orphans \ {o} /\ o = [c |-> o.c, req |-> o.req]
        /\ orphans \subseteq [c: Guards, req: Request]
    BY <1>3 DEF HandleOrphan, worldVars, guardVars, TypeInv, TypeOK, GuardTypes, Clients
  <2>2. Others(o.c)
    <3>1. ASSUME NEW d \in Clients \ {o.c}, d \in Guards PROVE Outstanding(d)' = Outstanding(d)
      <4>1. {p \in orphans' : p.c = d} = {p \in orphans : p.c = d}
        BY <2>1, <3>1
      <4> QED BY <2>1, <3>1, <4>1 DEF Outstanding, Queued
    <3>2. ASSUME NEW d \in Clients \ {o.c}, d \notin Guards PROVE Outstanding(d)' = Outstanding(d)
      BY <1>3, <3>2 DEF Outstanding, Awaiting, commandVars
    <3> QED BY <3>1, <3>2
  <2>3. Outstanding(o.c) = Outstanding(o.c)' \cup {o.req}
    <3>1. {p.req : p \in {q \in orphans : q.c = o.c}}
             = {p.req : p \in {q \in orphans' : q.c = o.c}} \cup {o.req}
      BY <2>1
    <3> QED BY <2>1, <3>1 DEF Outstanding, Queued
  <2> QED BY <2>1, <2>2, <2>3, Decides
<1>4. ASSUME NEW w \in Waiters, Command(w) PROVE [AC!Next]_AC!vars
  <2>1. w \in Clients /\ UNCHANGED <<clock, bus, client, spare, orphans>>
    BY <1>4, CommandServed DEF Clients, guardVars
  <2>2. \A v \in Waiters \ {w} : UNCHANGED <<wpc[v], asked[v]>>
    BY <1>4 DEF Command, TryOnce, FirstReply, Subscribe, Retry, RetryReply, Timeout, GiveBack,
       GiveBackReply, WGoto, Ask, Answer, TypeInv, TypeOK, CommandTypes
  <2>3. Others(w)
    BY <2>1, <2>2 DEF Outstanding, Queued, Awaiting, Clients
  <2>4. ASSUME NEW r \in Request, Outstanding(w) = Outstanding(w)' \cup {r},
               HandleRequest(w, r) \/ (r.op = "acquire" /\ TakeClaim(w, r.ttl, FALSE))
        PROVE  [AC!Next]_AC!vars
    BY <2>1, <2>3, <2>4, Decides
  <2> QED BY <1>1, <1>4, <2>1, <2>3, <2>4, CommandAsks
<1>5. CASE BusDown
  <2>1. bus /\ ~bus' /\ UNCHANGED clock
    BY <1>5 DEF BusDown
  <2>2. \A c \in Clients : Outstanding(c)' = {}
    <3>1. \A c \in Guards : Queued(client'[c]) = {} /\ Queued(spare'[c]) = {}
      BY <1>5 DEF BusDown, CutOff, Closed, Queued
    <3>2. orphans' = {} /\ \A w \in Waiters : ~Awaiting(w)'
      BY <1>5 DEF BusDown, Awaiting
    <3> QED BY <3>1, <3>2 DEF Outstanding, Queued, Clients
  <2>3. Asking' = {}
    BY <2>2 DEF Asking
  <2>4. Held' \in [{"path"} -> AC!Holding \cup {None}]
    <3>1. claim' \in [sid: Sessions, ttl: Nat] \cup {None}
      BY <1>5 DEF BusDown, TypeInv, TypeOK, WorldTypes, DaemonTypes
    <3> QED BY <3>1 DEF Held, AC!Holding
  <2>5. Now' = Now
    BY <2>1 DEF Now
  <2>6. AC!Stop
    BY <2>1, <2>3, <2>4, <2>5 DEF AC!Stop, Held
  <2> QED BY <2>6 DEF AC!Next
<1>6. CASE Tick
  <2>0. clock \in Nat /\ claim \in [sid: Sessions, ttl: Nat] \cup {None}
    BY GuardNumbers DEF TypeInv, TypeOK, WorldTypes, DaemonTypes
  <2>1. clock' = clock + 1 /\ UNCHANGED <<bus, claim, client, spare, orphans, wpc, asked>>
    BY <1>6 DEF Tick, tableVars, commandVars
  <2>2. Now \in Nat /\ Now' \in {Now, Now + 1}
    BY <2>0, <2>1, Seconds, SecondsStep DEF Now
  <2>3. Asking' = Asking
    BY <2>1 DEF Asking, Outstanding, Queued, Awaiting
  <2>4. CASE Now' = Now
    <3>1. Held' = Held
      BY <2>1, <2>4 DEF Held, InForce
    <3> QED BY <2>1, <2>3, <2>4, <3>1, Withdrawn
  <2>5. CASE Now' = Now + 1
    <3>1. Held' = [p \in {"path"} |-> IF AC!InForce(Held[p], Now') THEN Held[p] ELSE None]
      <4>1. CASE claim = None
        BY <2>1, <4>1 DEF Held, InForce, AC!InForce
      <4>2. CASE claim # None
        <5>1. claim.ttl \in Nat
          BY <2>0, <4>2
        <5>2. claim.ttl > Now' => claim.ttl > Now
          BY <2>2, <2>5, <5>1
        <5> QED BY <2>1, <4>2, <5>2 DEF Held, InForce, AC!InForce
      <4> QED BY <4>1, <4>2
    <3> QED BY <2>1, <2>3, <2>5, <3>1 DEF AC!Next, AC!Tick, Held
  <2> QED BY <2>2, <2>4, <2>5
<1>7. CASE Save \/ (\E w \in Waiters : Lag(w)) \/ UNCHANGED vars
  <2>1. UNCHANGED <<clock, bus, claim, client, spare, orphans, wpc, asked>>
    BY <1>7 DEF Save, Lag, vars, claimGuardVars, worldVars, daemonVars, tableVars, guardVars,
       commandVars
  <2> QED BY <2>1, Unseen
<1>8. CASE BusUp
  <2>1. ~bus /\ bus' /\ UNCHANGED <<clock, claim, client, spare, orphans, wpc, asked>>
    BY <1>8 DEF BusUp, daemonVars, tableVars, guardVars, commandVars
  <2>2. UNCHANGED <<Now, Held>> /\ Asking' = Asking
    BY <2>1 DEF Now, Held, InForce, Asking, Outstanding, Queued, Awaiting
  <2>3. AC!Start
    BY <2>1, <2>2 DEF AC!Start, Held
  <2> QED BY <2>3 DEF AC!Next
<1> QED BY <1>2, <1>3, <1>4, <1>5, <1>6, <1>7, <1>8 DEF Next

\* Guards, commands, restarts of the daemon and the half seconds between its whole
\* ones implement AdvisoryClaims: the path changes hands only as a request that is
\* still outstanding asks, and a claim in force is lost only to the clock, to a release
\* by its own session, to force or to the end of a daemon that had not saved it.
THEOREM ClaimsKept == Spec => ImplementsAdvisoryClaims
<1>1. Init => AC!Init
  <2> SUFFICES ASSUME Init PROVE AC!Init
    OBVIOUS
  <2>1. Now \in Nat /\ ~InForce
    BY GuardNumbers, Seconds DEF Init, InForce
  <2>2. \A c \in Clients : Outstanding(c) = {}
    BY DEF Init, Outstanding, Queued, Awaiting, Closed, Clients
  <2>3. Asking = {}
    BY <2>2 DEF Asking
  <2>4. bus = TRUE
    BY DEF Init
  <2> QED BY <2>1, <2>3, <2>4 DEF AC!Init
<1>2. TypeInv /\ LeaseInv /\ [Next]_vars => [AC!Next]_AC!vars
  BY ClaimsStep
<1> QED BY <1>1, <1>2, LeaseInvariant, PTL DEF Spec, ImplementsAdvisoryClaims, AC!Spec
=============================================================================
