----------------------------- MODULE Reconnect -----------------------------
(***************************************************************************)
(* The subscribe loop of reconnect.rs against daemons that come and go.    *)
(* Daemons are known by the order in which they are started; of a daemon   *)
(* the loop sees whether the socket path leads to it, whether it answers   *)
(* and when it closes its connections.  Module Reload says what starts and *)
(* stops them.                                                             *)
(*                                                                         *)
(* Delays are left out; what decides them, the exponent and the window of  *)
(* backoff_delay, is not.                                                  *)
(***************************************************************************)
EXTENDS Integers, FiniteSets

CONSTANTS
  Daemons,      \* daemon processes, 1..n in the order of their pids
  Subscribers,  \* sessions running reconnect_subscribe
  MaxAttempts,  \* max_attempts of the limited ones
  BaseMs, CapMs,
  Width,        \* bits of the u64 in which backoff_delay counts
  MaxCount,     \* where the counters saturate (u32::MAX and usize::MAX)
  None

ASSUME LoopAssumption ==
  /\ IsFiniteSet(Daemons) /\ Daemons = 1..Cardinality(Daemons)
  /\ MaxAttempts \in Nat \ {0}
  /\ BaseMs \in Nat /\ CapMs \in Nat /\ Width \in Nat \ {0, 1} /\ MaxCount \in Nat \ {0}
  /\ CapMs < 2 ^ Width
  /\ BaseMs = 0 \/ CapMs <= BaseMs * 2 ^ (MaxCount - 1)  \* the counters saturate after the window
  /\ None \notin Daemons

VARIABLES
  proc,      \* the state of each daemon process
  sock,      \* the daemon whose listener the socket path names, or None
  listed,    \* the subscribers in each daemon's peer table
  mode,      \* "lasting", "limited" (max_attempts # 0) or "once" (reconnect = false)
  spc,       \* where each subscribe loop is
  conn,      \* the daemon it is connected to, or None
  attempt,   \* the backoff exponent
  failures   \* consecutive_failures

subscriberVars == <<mode, spc, conn, attempt, failures>>
loopVars == <<listed, subscriberVars>>

Serving(d) == d # None /\ proc[d] \in {"serving", "draining"}
Accepting(d) == d # None /\ proc[d] = "serving"
Ended(d) == proc[d] = "exited"

-----------------------------------------------------------------------------
(* backoff_delay: the delay is random below this window *)

Least(a, b) == IF a <= b THEN a ELSE b
\* Mutant: the product wraps around.
WrappingMul(a, b) == (a * b) % 2 ^ Width
SaturatingMul(a, b) == Least(a * b, 2 ^ Width - 1)

\* Mutant: a counter that does not saturate.
PlainInc(n) == n + 1
SaturatingInc(n) == Least(n + 1, MaxCount)

Window(n) == Least(CapMs, SaturatingMul(BaseMs, 2 ^ Least(n, Width - 2)))

-----------------------------------------------------------------------------
(* The loop *)

At(s, label) == spc' = [spc EXCEPT ![s] = label]
Unlist(s) == listed' = [d \in Daemons |-> IF d = conn[s] THEN listed[d] \ {s} ELSE listed[d]]
Unchanged == UNCHANGED <<proc, sock, mode>>

\* Whether the n-th failure in a row ends the loop.
\* Mutant: a loop that cannot connect ends, as the one-shot commands do.
GivesUpAlone(s, n) == mode[s] = "once" \/ conn[s] = None
GivesUp(s, n) == mode[s] = "once" \/ (mode[s] = "limited" /\ n > MaxAttempts)

\* A failed connect or handshake, or the end of a connection.
Fail(s) ==
  /\ failures' = [failures EXCEPT ![s] = SaturatingInc(@)]
  /\ conn' = [conn EXCEPT ![s] = None]
  /\ At(s, IF GivesUp(s, failures'[s]) THEN "ended" ELSE "backoff")

\* Client::try_connect.
Connect(s) ==
  /\ spc[s] = "connecting"
  /\ IF Accepting(sock)
     THEN conn' = [conn EXCEPT ![s] = sock] /\ At(s, "handshake") /\ UNCHANGED failures
     ELSE Fail(s)
  /\ UNCHANGED <<listed, attempt>> /\ Unchanged

ResetAttempt(s) == attempt' = [attempt EXCEPT ![s] = 0]

\* Announce and subscribe; a daemon that is draining may not accept any more.
Handshake(s) ==
  /\ spc[s] = "handshake"
  /\ Serving(conn[s])
  /\ listed' = [listed EXCEPT ![conn[s]] = @ \cup {s}]
  /\ failures' = [failures EXCEPT ![s] = 0]
  /\ ResetAttempt(s)
  /\ At(s, "streaming")
  /\ UNCHANGED conn /\ Unchanged

HandshakeFails(s) ==
  /\ spc[s] = "handshake"
  /\ ~Accepting(conn[s])
  /\ Fail(s)
  /\ UNCHANGED <<listed, attempt>> /\ Unchanged

\* The end of the stream.
Eof(s) ==
  /\ spc[s] = "streaming"
  /\ Ended(conn[s])
  /\ Fail(s)
  /\ UNCHANGED <<listed, attempt>> /\ Unchanged

\* max_events is reached, or the command is killed.
Leave(s) ==
  /\ mode[s] = "once"
  /\ spc[s] = "streaming"
  /\ ~Ended(conn[s])
  /\ Unlist(s)
  /\ conn' = [conn EXCEPT ![s] = None]
  /\ At(s, "ended")
  /\ UNCHANGED <<attempt, failures>> /\ Unchanged

\* The delay is over.
Again(s) ==
  /\ spc[s] = "backoff"
  /\ attempt' = [attempt EXCEPT ![s] = SaturatingInc(@)]
  /\ At(s, "connecting")
  /\ UNCHANGED <<listed, conn, failures>> /\ Unchanged

Loop(s) == Connect(s) \/ Handshake(s) \/ HandshakeFails(s) \/ Eof(s) \/ Again(s)

LoopInit ==
  /\ listed = [d \in Daemons |-> {}]
  /\ mode \in [Subscribers -> {"lasting", "limited", "once"}]
  /\ spc = [s \in Subscribers |-> "connecting"]
  /\ conn = [s \in Subscribers |-> None]
  /\ attempt = [s \in Subscribers |-> 0]
  /\ failures = [s \in Subscribers |-> 0]

LoopTypes ==
  /\ listed \in [Daemons -> SUBSET Subscribers]
  /\ mode \in [Subscribers -> {"lasting", "limited", "once"}]
  /\ spc \in [Subscribers -> {"connecting", "handshake", "streaming", "backoff", "ended"}]
  /\ conn \in [Subscribers -> Daemons \cup {None}]
  /\ attempt \in [Subscribers -> 0..MaxCount] /\ failures \in [Subscribers -> 0..MaxCount]

\* The exponent's limit is not reached before the cap, as with every cap below
\* base_ms * 2^62.
NarrowCap == BaseMs = 0 \/ CapMs <= BaseMs * 2 ^ (Width - 2)

\* After n failures in a row, with no successful handshake in between, the delay is below
\* cap_ms and base_ms * 2^(n-1), whatever ended the connections; and the window is no
\* smaller than that, unless the cap is so wide that the exponent's limit narrows it
\* first.  The exponent and the count of failures are kept apart and reset in the same
\* place, which is every handshake.
BackoffFollowsFailures ==
  \A s \in Subscribers :
    spc[s] = "backoff"
      => LET expected == Least(CapMs, BaseMs * 2 ^ (failures[s] - 1))
         IN  /\ Window(attempt[s]) <= expected
             /\ NarrowCap => Window(attempt[s]) = expected

\* What the module's header says instead: the exponent "resets after a successful
\* subscribe that survives >= cap_ms", so never before the stream has lasted at all.
ResetAfterSurvival ==
  [][\A s \in Subscribers : attempt'[s] < attempt[s] => spc[s] = "streaming"]_loopVars
=============================================================================
