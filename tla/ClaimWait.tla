----------------------------- MODULE ClaimWait -----------------------------
(***************************************************************************)
(* The claim commands of the command line (run_claim in main.rs) beside    *)
(* the guards of ClaimGuard, and the daemon's restarts.  `claim acquire    *)
(* --wait` that meets a conflict subscribes to claim.release on a second   *)
(* connection and tries again at each event, until it has the claim or its *)
(* time is up; `claim release` gives it back.  A command has one request   *)
(* at a time under way; the daemon's answer and its reading are one step.  *)
(*                                                                         *)
(* The guards and the commands together use the claims as AdvisoryClaims   *)
(* says, with the requests that are on some connection as the undecided    *)
(* ones.                                                                   *)
(***************************************************************************)
EXTENDS ClaimGuard

CONSTANTS
  WaitSeconds,  \* --wait
  CliTtl        \* --ttl, in seconds

ASSUME WaiterNumbers == WaitSeconds \in Nat \ {0} /\ CliTtl \in Nat \ {0}

VARIABLES
  wpc,       \* where each `claim acquire` command is
  asked,     \* the request each command waits for an answer to, or None
  deadline,  \* the tick at which it stops waiting
  stranded,  \* commands whose first connection the daemon has closed
  missed     \* history: commands that a release met between conflict and subscription,
             \* or that lagged behind the daemon's channel and lost one

commandVars == <<wpc, asked, deadline, stranded>>
vars == <<claimGuardVars, commandVars, missed>>

WGoto(w, label) == wpc' = [wpc EXCEPT ![w] = label]
AttemptUntil(t, force) == [AcquireUntil(t) EXCEPT !.force = force]
Ask(w, r) == asked' = [asked EXCEPT ![w] = r]
Answer(w) == asked' = [asked EXCEPT ![w] = None]

\* The command waits for an answer.
Awaiting(w) == wpc[w] \in {"asking", "retrying", "giving"}

-----------------------------------------------------------------------------
(* The commands *)

\* The first attempt.
TryOnce(w, force) ==
  /\ wpc[w] = "new"
  /\ bus
  /\ Ask(w, AttemptUntil(Now + CliTtl, force))
  /\ WGoto(w, "asking")
  /\ UNCHANGED <<worldVars, daemonVars, guardVars, orphans, deadline, stranded>>

\* ... is decided; after a conflict the wait begins.
FirstReply(w) ==
  /\ wpc[w] = "asking"
  /\ HandleRequest(w, asked[w])
  /\ Answer(w)
  /\ IF Grants(SessionOf[w], asked[w].force)
     THEN WGoto(w, "won") /\ UNCHANGED deadline
     ELSE /\ WGoto(w, "conflict")
          /\ deadline' = [deadline EXCEPT ![w] = clock + WaitSeconds * TicksPerSecond]
  /\ UNCHANGED <<worldVars, guardVars, orphans, stranded>>

\* After a conflict, a second connection subscribes, or finds no daemon.
Subscribe(w) ==
  /\ wpc[w] = "conflict"
  /\ IF bus THEN WGoto(w, "waiting") /\ events' = [events EXCEPT ![w] = 0]
            ELSE WGoto(w, "failed") /\ UNCHANGED events
  /\ UNCHANGED <<worldVars, claim, historyVars, guardVars, orphans, asked, deadline, stranded>>

\* Mutant: the command also tries again when it wakes without an event.
HeardOrWoke(w) == events[w] >= 0
Heard(w) == events[w] > 0

\* A claim.release for the path: try again on the first connection.  A command that
\* waits has not asked for force, or its first attempt would have succeeded.
Retry(w) ==
  /\ wpc[w] = "waiting"
  /\ Heard(w)
  /\ IF w \in stranded
     THEN /\ WGoto(w, "failed")
          /\ events' = [events EXCEPT ![w] = None]
          /\ UNCHANGED asked
     ELSE /\ Ask(w, AttemptUntil(Now + CliTtl, FALSE))
          /\ WGoto(w, "retrying")
          /\ events' = [events EXCEPT ![w] = @ - 1]
  /\ UNCHANGED <<worldVars, claim, historyVars, guardVars, orphans, deadline, stranded>>

RetryReply(w) ==
  /\ wpc[w] = "retrying"
  /\ TakeClaim(w, asked[w].ttl, FALSE)
  /\ Answer(w)
  /\ IF Grants(SessionOf[w], FALSE)
     THEN WGoto(w, "won") /\ events' = [events EXCEPT ![w] = None]
     ELSE WGoto(w, "waiting") /\ UNCHANGED events
  /\ UNCHANGED <<worldVars, guardVars, orphans, deadline, stranded>>

\* The deadline passes; only now does the command learn of an expiry.
Timeout(w) ==
  /\ wpc[w] = "waiting"
  /\ clock >= deadline[w]
  /\ WGoto(w, "timedout")
  /\ events' = [events EXCEPT ![w] = None]
  /\ UNCHANGED <<worldVars, claim, historyVars, guardVars, orphans, asked, deadline, stranded>>

\* `claim release` by the session that won.
GiveBack(w) ==
  /\ wpc[w] = "won"
  /\ bus
  /\ Ask(w, ReleaseRequest)
  /\ WGoto(w, "giving")
  /\ UNCHANGED <<worldVars, daemonVars, guardVars, orphans, deadline, stranded>>

GiveBackReply(w) ==
  /\ wpc[w] = "giving"
  /\ HandleRequest(w, asked[w])
  /\ Answer(w)
  /\ WGoto(w, "done")
  /\ UNCHANGED <<worldVars, guardVars, orphans, deadline, stranded>>

\* Publications of other clients fill the daemon's channel before the command's
\* connection has read it: the oldest event is dropped without a word.
Lag(w) ==
  /\ w \in Subscribed
  /\ Heard(w)
  /\ events' = [events EXCEPT ![w] = @ - 1]
  /\ missed' = missed \cup {w}
  /\ UNCHANGED <<worldVars, claim, historyVars, guardVars, orphans, commandVars>>

Command(w) ==
  \/ \E force \in BOOLEAN : TryOnce(w, force)
  \/ FirstReply(w) \/ Subscribe(w) \/ Retry(w) \/ RetryReply(w) \/ Timeout(w)
  \/ GiveBack(w) \/ GiveBackReply(w)

-----------------------------------------------------------------------------
(* The daemon's restarts and time *)

\* The persist task saves the claims a while after they changed, or fails to.
\* Bound: not what no later daemon would load.
Save ==
  /\ bus
  /\ restarts < MaxRestarts
  /\ saved' = claim
  /\ UNCHANGED <<clock, bus, restarts, daemonVars, guardVars, orphans, commandVars>>

\* The daemon ends: after its last save, or, when it is killed or that save fails, with
\* an older one for the next daemon to load.  Connections end after what was answered,
\* and a command that waits for an answer or an event sees the end and gives up.
BusDown ==
  LET cut == {w \in Waiters : Awaiting(w) \/ wpc[w] = "waiting"} IN
  /\ bus
  /\ restarts < MaxRestarts
  /\ bus' = FALSE
  /\ restarts' = restarts + 1
  /\ \/ UNCHANGED <<claim, maker>>
     \/ claim' = saved /\ maker' = None
  /\ saved' = IF restarts' < MaxRestarts THEN claim' ELSE None
  /\ client' = [g \in Guards |-> CutOff(client[g])]
  /\ spare' = [g \in Guards |-> CutOff(spare[g])]
  /\ orphans' = {}
  /\ events' = [w \in Waiters |-> None]
  /\ wpc' = [w \in Waiters |-> IF w \in cut THEN "failed" ELSE wpc[w]]
  /\ asked' = [w \in Waiters |-> None]
  /\ stranded' = stranded \cup {w \in Waiters : wpc[w] = "conflict"}
  /\ UNCHANGED <<clock, granted, pc, ttl, wake, lease, confirmed, crossed, deadline>>
  /\ undercut' = undercut \cup Undone

BusUp ==
  /\ ~bus
  /\ bus' = TRUE
  /\ UNCHANGED <<clock, restarts, saved, daemonVars, guardVars, orphans, commandVars>>

\* Time passes; the histories forget the leases that are over.
Over(t) == t <= (clock + 1) \div TicksPerSecond
Tick ==
  /\ clock < MaxTime
  /\ clock' = clock + 1
  /\ lease' = [g \in Guards |-> IF Over(lease[g]) THEN 0 ELSE lease[g]]
  /\ granted' = [c \in Clients |-> IF Over(granted[c]) THEN 0 ELSE granted[c]]
  /\ undercut' = {c \in undercut : ~Over(granted[c])}
  /\ UNCHANGED <<bus, restarts, saved, tableVars, maker, pc, ttl, wake, client, spare, confirmed,
                 crossed, orphans, commandVars>>

-----------------------------------------------------------------------------
Init ==
  /\ clock = 0 /\ bus = TRUE /\ restarts = 0 /\ saved = None
  /\ claim = None
  /\ events = [w \in Waiters |-> None]
  /\ pc = [g \in Guards |-> "new"]
  /\ ttl = [g \in Guards |-> 0]
  /\ wake = [g \in Guards |-> 0]
  /\ client = [g \in Guards |-> Closed]
  /\ spare = [g \in Guards |-> Closed]
  /\ orphans = {}
  /\ lease = [g \in Guards |-> 0]
  /\ granted = [c \in Clients |-> 0]
  /\ undercut = {} /\ maker = None
  /\ confirmed = {} /\ crossed = {}
  /\ wpc = [w \in Waiters |-> "new"]
  /\ asked = [w \in Waiters |-> None]
  /\ deadline = [w \in Waiters |-> 0]
  /\ stranded = {} /\ missed = {}

\* A release between a command's conflict and its subscription is not heard.
Missed ==
  missed' = {w \in Waiters : \/ wpc[w] = "conflict" /\ claim # None /\ claim' = None
                             \/ w \in missed /\ wpc'[w] \in {"conflict", "waiting", "retrying"}}

Next ==
  \/ \E g \in Guards : Guard(g) /\ UNCHANGED commandVars /\ Missed
  \/ \E o \in orphans : HandleOrphan(o) /\ UNCHANGED commandVars /\ Missed
  \/ \E w \in Waiters : Command(w) /\ Missed
  \/ \E w \in Waiters : Lag(w)
  \/ Save /\ Missed
  \/ BusDown /\ Missed
  \/ BusUp /\ Missed
  \/ Tick /\ Missed

Spec == Init /\ [][Next]_vars

-----------------------------------------------------------------------------
(* Properties *)

CommandTypes ==
  /\ wpc \in [Waiters -> {"new", "asking", "conflict", "waiting", "retrying", "won", "giving",
                           "timedout", "failed", "done"}]
  /\ asked \in [Waiters -> Request \cup {None}]
  /\ deadline \in [Waiters -> Nat]
  /\ stranded \subseteq Waiters /\ missed \subseteq Waiters

\* The guard's and the commands' variables keep their shapes.
TypeOK == WorldTypes /\ DaemonTypes /\ GuardTypes /\ CommandTypes

\* While a guard counts on its lease the daemon has a claim of its session that
\* lasts as long, unless a forced acquire or the session's own other clients took it or a
\* daemon ended without its last save: a reply that is lost, late or read from the wrong
\* connection never makes a guard believe in a lease it has not got (claim_guard.rs,
\* renew_loop and try_reconnect_renew).  It says nothing of a lease that lapses because it
\* is too short to be renewed in time: the guard stops counting on that one too.
LeaseBacked ==
  \A g \in Guards :
    lease[g] > Now => Backed(g, lease[g]) \/ g \in undercut

\* Once release() has returned Ok the guard's claim is gone and does not come back,
\* but for an old save, unless its renewal task was cut off with a request under way.
ReleasedForGood ==
  \A g \in confirmed : (InForce /\ maker = g) => g \in crossed

\* What the documentation of release() says: "the release is awaited and confirmed".
ReleaseConfirmed ==
  \A g \in confirmed : ~(InForce /\ maker = g)

\* A waiting command that has read every event it was sent waits for a claim that
\* somebody still has or that expired, never for one that was released after it
\* subscribed, unless its connection lagged behind and lost an event.
WakeupNotLost ==
  \A w \in Waiters : (wpc[w] = "waiting" /\ events[w] = 0 /\ claim = None) => w \in missed

\* The requests client c has made that the daemon has not decided.
Queued(l) == {l.reqs[i] : i \in DOMAIN l.reqs}
Outstanding(c) ==
  IF c \in Guards
  THEN Queued(client[c]) \cup Queued(spare[c]) \cup {o.req : o \in {p \in orphans : p.c = c}}
  ELSE IF Awaiting(c) THEN {asked[c]} ELSE {}

\* A request as AdvisoryClaims has it; the model's one path is "path".
Requested(c, r) ==
  IF r.op = "acquire"
  THEN [kind |-> "acquire", sid |-> SessionOf[c], path |-> "path", ttl |-> r.ttl,
        force |-> r.force]
  ELSE [kind |-> "release", sid |-> SessionOf[c], path |-> "path"]

\* The clients and the daemon between them keep AdvisoryClaims: whatever they lose,
\* cancel, leave behind on a closed connection or repeat on a new one, each change of
\* the claim is one that a request still outstanding asked for, or the clock's; only the
\* end of a daemon undoes what was not saved.
Asking == UNION {{Requested(c, r) : r \in Outstanding(c)} : c \in Clients}
AC == INSTANCE AdvisoryClaims WITH
        Paths <- {"path"}, time <- Now,
        held <- [p \in {"path"} |-> IF InForce THEN claim ELSE None], asking <- Asking,
        serving <- bus
ImplementsAdvisoryClaims == AC!Spec
=============================================================================
