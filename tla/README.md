# agorabus in TLA+

A verification development for `agorabus`, the advisory presence and pub/sub
bus: TLA+ models of the daemon, the TLC configurations that check them on small
instances, and TLAPS proofs of theorems that hold for every size of instance.
Line numbers below refer to the files under `src/src/` of the repository.

## 1. The system

`agorabus daemon` listens on a Unix socket. Clients (Claude sessions and one-shot
CLI calls) speak one JSON object per line. The daemon keeps a table of *peers*,
lends out *claims* (advisory locks on paths, with an expiry second), relays
*published* messages to *subscribers* by topic prefix, and journals claims and
sticky intents so that they survive a restart.

| Component | State | Operations | Where |
|---|---|---|---|
| Connection task | `session_id`, `subscribed_prefixes`, broadcast receiver, the line being handled | read a line, deliver an event, drain, cleanup, be aborted | `daemon.rs` `handle_connection`, `handle_line` |
| `BusState` (one mutex) | `peers`, `peer_owners`, `claims`, `intents` | announce, update, heartbeat, publish, subscribe, peers, claim acquire / release / list, uplink_status | `daemon.rs`, `protocol.rs` |
| Broadcast channel | last *n* messages, one read position per receiver | send, recv, lag | tokio, used in `daemon.rs` |
| Persist task | bounded signal channel, debounce | recv, drain, snapshot, save | `daemon.rs` 206-227 |
| Journal file | `state.json`, `state.json.tmp.<pid>` | load, save | `persist.rs` |
| Daemon lifecycle | running, draining, aborting, flushing, flushed, stopped | load, accept, drain notice, abort_all, join, final flush, exit | `daemon.rs` `run_daemon` |
| Claim guard | lease, renewal task | acquire, renew, release, drop | `claim_guard.rs` |
| Claim wait | deadline | acquire, subscribe to `claim.release`, retry | `main.rs` `run_claim` |
| Client, reconnecting subscriber | connection, backoff | request/reply, event stream, reconnect | `client.rs`, `reconnect.rs` |
| Reload, doctor | old and new pid, peer snapshot | stop, launch, poll, verdict | `reload.rs`, `doctor.rs` |
| Uplink, fleet presence | NATS connection, remote peers | relay out, relay in, merge | `uplink.rs`, `fleet.rs` |
| CLI | none | argument parsing, printing | `main.rs` |

**Interactions.** Connection tasks meet in the mutex of `BusState` and in the
broadcast channel; they tell the persist task that the durable slice (claims and
intents) changed by a bounded channel that drops a signal when it is full; the
main task tells everybody of a shutdown, aborts and joins the connection tasks,
and writes the journal a last time while the persist task may still be writing
it. Several connections may announce the same session: the first is the *owner*
of the peer record, the others are *guests*. The clients share nothing with the
daemon but their connections: a guard's renewal task and its owner take turns on
one connection, `claim acquire --wait` uses two. `reload` sees the daemon from
outside: its command line in the process table, the socket path, the peers op, and
the state file through the daemon it starts. An uplink is one more publisher and
subscriber of its own node's bus, and a publisher and subscriber of NATS.

**Hard behaviour.** (a) Handlers read the clock before they wait for the lock and
publish after they have released it. (b) A write that fails or a line that does not parse leaves
`handle_connection` through `?`, past the cleanup; a line that cannot be read leaves by
way of it, like the end of the stream. (c) The peers op prunes records but not owners.
(d) A persist signal may be dropped or arrive during a save. (e) Two threads of
one process may be inside `persist::save` on one temporary file. (f) A client may
stall, vanish or lag at any moment, a drain included. (g) A process may die
between any two file operations. (h) On the client side: leases renewed by a
timer, waits that may miss their wake-up, reconnects with backoff; a cancelled task
leaves a request unanswered on a connection that is used again. (i) Two daemons run
at once, each free to remove the other's socket file; anybody may start and stop them. (j) Messages come
back to where they began, by way of other nodes.

**What makes each part correct.** Sessions: a record has an owner who can remove
it, goes only by its owner or by the age of its stamp, and agrees with the durable
intents. Claims: nobody loses a claim in force except to the clock, itself, force or a
save that was lost, and subscribers hear of each removal once. Pub/sub: order, no
duplicates, no loss but by lag. Journal: no change forgotten, the file readable, the
last state saved at exit. Shutdown: always completes. Client side: a guard counts on a
lease only while the daemon has it, a release stays a release, a release that happens
after a waiter has subscribed wakes it, a lasting subscriber comes back. Reload: a
failure before the old daemon is signalled changes nothing; where the daemons follow
each other the new one keeps the socket and inherits all that was saved; exit 0 means
service. Uplink: no loops, no duplicates, order per origin, no loss but by a fault, an
honest status, a fleet view without duplicates.

## 2. The modules

| Module | What it is |
|---|---|
| `Bus` | One lifetime of the daemon: connection tasks, `BusState`, broadcast channel, persist task, shutdown. |
| `AdvisoryClaims` | Abstract specification of claims: no connections, lock, table or pruning; a daemon may end and start. `Bus` implements it, and so does `ClaimWait`. |
| `Journal` | The durable slice between memory and disk: `persist::save` taken apart into file operations on inodes, two saving threads, crashes, failures, restarts. |
| `ClaimGuard` | Claim guards with their renewal tasks and connections, and the daemon's claim on one path. |
| `ClaimWait` | `ClaimGuard` with the `claim` commands, the daemon's ends and starts, its saves and time; the specification of both. |
| `Reconnect` | The subscribe loop with its backoff, over daemons that come and go. |
| `Reload` | `Reconnect` with the daemon processes, `agorabus reload` and the doctor it asks. |
| `JoinedBuses` | Abstract specification of the nodes' buses: no uplinks, queues, faults or restarts. `Uplink` implements it. |
| `Uplink` | Several nodes' buses joined by uplinks over NATS, the presence broadcaster, `peers --fleet`. |
| `MCBus`, `MCJournal`, `MCClaimWait`, `MCReload`, `MCUplink` | Instances for TLC. |
| `BusTypeProofs` | The type invariant of `Bus` for all constants. |
| `BusProofs` | Ownership, delisting, what guests do not inherit, the delivery of messages and the announcement of releases, proved. |
| `JournalProofs` | The type invariant of `Journal`, that the state file stays readable, and that no change is forgotten, proved for any number of failures and crashes. |
| `BusJournalProofs` | Sticky intents, the way of every change and of the last one to a save, and that `Bus` implements `AdvisoryClaims`, proved. |
| `ClaimProofs` | Everything `claim_clients` checks of guards and commands, and that they implement `AdvisoryClaims`, proved. |
| `ReloadProofs` | The safety of reloads and of the handover between daemons, and the backoff of subscribers, proved. |
| `UplinkProofs` | The types of `Uplink` and the honest status, proved. |
| `UplinkOrderProofs` | That uplinks keep the order, do not loop and implement `JoinedBuses`, and what the fleet view shows, proved; extends `UplinkProofs`. |

### Bus

`pc[c]` is where connection `c`'s task is: `new` (not accepted yet), `idle` (in
`select!`), `lock` (waiting for the mutex with a clock it has read or after a
publish), `signal` and `send` (after the unlock, before `try_send` and before the
broadcast), `reply`/`error` (before the write of the answer), `bail` (before the
error reply of a line that closes the connection), `cleanup`, and the terminal
`closed` (by way of the cleanup), `failed` (by `?` or `bail!`, without it) and
`aborted`. `session`, `prefixes`, `rx` are the task's locals; `req` and `now` the
message and the clock reading of the handler in progress; `peers`, `peer_owners`,
`claims`, `intents` the fields of `BusState`; `log` every broadcast ever sent, of
which the channel keeps the last `BroadcastCapacity`.

A step is one critical section, one send on a channel, one signal or one write to
a client; the runtime has several threads, so tasks interleave at every such
point. An abort can only hit an `await`: never the stretch from the end of a
critical section through `try_send` and `send` to the write of the reply (all
three are synchronous calls). A prune that a handler performs is part of its
action, as in the code. `gone[c]` says that the client has closed its end; from
then on writes to it fail.

The message `unreadable` stands for a line on which `next_line` fails (402, 453): the
task cleans up and closes while its client is still there (`ReadError`).

The persist task takes its snapshot (`PersistSnapshot`) and then saves it
(`PersistSave`), and so does the final flush (`FinalSnapshot`, `FinalSave`), maybe while
the persist task is in the middle of a save. A save may succeed or fail, which the code
only logs; `Bus` leaves the outcome open and keeps in `handed` what was last given to
`persist::save`. What a save does to the file, and what a failed or a simultaneous one
costs, is `Journal`. `since`, `out`, `missed` and `freed` are history variables: no guard
reads them.

Left out: pid, cwd, node, free-form intent, last tool, reasons, payloads, the
contents of replies, the uplink (off by default; it would add senders to `log`),
and blank lines, which the code skips. Times are whole seconds, as in the code; the
system clock is assumed not to go back. A line a client wrote just before it closed
is still read by the daemon: in the model the client closes right after that read,
which no other task can tell apart.

### Journal

`writer[w]` is a connection task between its change of the durable slice and its
signal. `pc["persist"]` and `pc["main"]` are the two threads that call `save`, each
with its snapshot `snap` and open file `fd`. Files are inodes under two names,
`state` and `tmp`, because a rename moves a file another thread may still have
open. A value is opaque but has a length: `fs::write` truncates at open and then
writes from offset 0, so two writers can leave the tail of the longer one. A crash
ends the process between any two operations; `Start` reloads and takes a new pid,
so a left-over temporary file is out of its way. `Fault` makes a file operation
fail, as the callers treat it: logged and forgotten. `failed` is a history variable: a file
operation failed since the latest slice to be saved was taken. The properties that a
failure can break are stated for the states in which it is false, so they say that a
failed save costs only itself: the next one, whatever file it finds, is whole.

`Journal` starts with no state file. The state file system is assumed to survive
the crash of the process (no power loss, so no `fsync` question). A state file
that cannot be parsed counts as empty, as in `load`.

### AdvisoryClaims

`held[p]` is who holds a path until when. Taking a path away is possible only by
`Tick`, by the holder's own `Release`, by an `Acquire` with force, or by the end of the
daemon (`Stop`): killed, or without its last save, it leaves its successor an older
table, so that claims may be gone or back. The map from
`Bus`, where the daemon serves throughout: `held` is the claims table pruned with the *real* clock, `asking`
the requests waiting for the lock. That `Bus` implements it says that the lazily pruned table, judged with a
clock read before the lock, cannot be told from a table that is always up to date: a late pruner never
removes a claim in force, and a stale reading never grants a path that a holder still has.

### ClaimGuard and ClaimWait

`claim` is the daemon's claim on the path; a handler is one step, which
`AdvisoryClaims` justifies for each request by itself. `client[g]` is the connection behind the guard's
`Arc<Mutex<Client>>`, `spare[g]` the one `try_reconnect_renew` sets up; each is a
queue of requests the daemon has not handled and a queue of replies the client has
not read, because aborting the renewal task (`cancel_renew`) between a request and
its reply leaves the reply to whoever reads the connection next. `orphans` are
requests that were already in the daemon's hands when their connection was closed.
`pc[g]` follows the guard and its task: `holding` (`hold`), `asleep`, `renewing`,
`reconnecting`, `rejoining` (`renew_loop`), `releasing` (`release`), `dropping`,
`dropped` (the task `Drop` spawns), `gone`. `release` aborts the task; the `Drop`
that follows sends a second release, as in the code.

`wpc[w]` follows a `claim acquire` command: a request under way (`asking`, `retrying`,
`giving`; `asked[w]` is the request), a conflict (`conflict`), the subscription on a
second connection (`waiting`), and the outcomes. `events[w]` counts the unread
`claim.release` events of its subscription; `Lag` is the daemon's broadcast channel
overrunning that connection (413-415), which loses one without a word. `saved` is the
claim in the state file, which the persist task brings up to date at some time (`Save`).
`BusDown` is the end of the daemon, with its last save or without: then `BusUp`, its
return, begins with the older claim. Only the connections, and so their requests and
replies, end with the daemon; that a claim is restored under a guard's feet is part of the
model.

`lease`, `granted`, `undercut`, `maker`, `confirmed`, `crossed`, `missed` are
history variables. `undercut` names the clients whose lease was cut short: by a forced
acquire or by their own session's other clients, both of which the code allows on
purpose, or by a save that was lost. `missed` names the commands that did not hear of a
release: it fell between their conflict and their subscription, or they lagged.

`ImplementsAdvisoryClaims` maps this onto `AdvisoryClaims` from the other end: `asking` is
every request that is on some connection, cut off from its sender or not (`Outstanding`),
and `held` the claim while it is in force. `Bus` says that one daemon decides requests
as `AdvisoryClaims` does; here its clients, who cancel, repeat and abandon
requests over connections that close and daemons that restart, change nothing in that:
a request that was given up and is decided later is still one somebody made, a
closed connection and a refusal only withdraw some, and only `Stop` undoes anything.

Left out: the renewal task's reconnect announces under the guard's session
(only the claim matters here); several paths (the daemon treats them one by one).

### Reconnect and Reload

`Reconnect` models `reconnect_subscribe`: `mode` is what the options ask for
(`lasting`: `max_attempts` 0; `limited`; `once`: no reconnect), `attempt` the
exponent, `failures` the count of failures in a row. `Window` is the bound below
which `backoff_delay` draws, with its saturations. The delays themselves are left out.

`Reload` models daemon processes: `starting` and `binding` (removal of the socket
file, then bind), `serving`, `deaf` (the directory, the bind or the file mode failed, or
another daemon bound in between: the listener task ends with an error and the process
stays, waiting for a signal), `draining` (grace period, the socket file removed), `exited`. `image` is
which installation of the binary a process runs, `exe` the one the reload command
runs, `installed` the one on disk. `rpc` follows `run_reload`: `preflight` (the
doctor and the refusals), `snapshot`, `build`, `kill`, `wait`, `launch`, `poll`.
`wait_for_exit` may give up at any moment and only warns. `launch_daemon` may fail after the old daemon
was told to stop (`stranded`). Of the polls only the last has an effect. `StartByHand` is
`agorabus daemon`, run at any moment, beside another daemon or not, and `Shutdown` the
SIGINT or SIGTERM of a reload or of anybody (main.rs 357-372); before its handlers are
installed, or while it is deaf, a process just ends. `undrained` and `beside` are history
variables: a reload gave up waiting, and a daemon was started beside one that no reload
was replacing. The code has no guard against two daemons on one path, and what it does
then is neither service nor handover; the properties about these are stated for the
behaviours without. The doctor looks at `argv[1]` only: daemons that `launch_daemon` started have
`--socket` there and are never found.

The disk is a counter of changes. `Exit` saves it, or fails to, which is only logged;
what a save is made of is `Journal`'s subject.

### Uplink

A node's bus is `log[n]`. `localRx[n]` is what its uplink has not read of it (the
broadcast channel's capacity is its limit: the oldest is dropped, as for a lagging
receiver), `outbox[n]` what its NATS client has accepted and not sent,
`inbound[n][o]` what its subscription holds, one queue per publisher since NATS keeps
only the publisher's order. `RelayOut` and `RelayIn` are the arms of `run_uplink`'s
loop, with the `from_uplink` mark and the self-echo test on names that stop loops.
`status` changes with each event of the NATS client's callback (`Notice`), later than
the link. `Restart` is the end and the start of the daemon; its uplink dies with it.
`Beat` and `Announce` are the presence broadcaster: it copies the peers, then
announces them one at a time while peers come and go. Clients may publish presence events
too, about any session and node (`Publish`), and announce themselves with a node of their
own (`Arrive`). `query` is one `peers --fleet`: local peers, a subscription that may fail
(`Collect`), events stored for 100 ms, and the merge, which drops a remote row of the
session and node of a local one.
NATS and the network are external: `LinkUp`, `Flush`, `LinkDown`, `Overrun`.
`offered` and `lost` are history variables.

### JoinedBuses

Only `log`. `Say` begins a message on a node, `Repeat` puts one on a bus of another
name, as it was said and behind nothing later of its node. The map from `Uplink` is the
identity on `log`; `Publish` and `Announce` are `Say`, a `RelayIn` that is no echo is
`Repeat`, and every other step, faults and restarts included, is none. Beyond
`AtMostOnce` and `OriginOrder` it says that nothing is made up or altered on the way, that
nodes of one name never hear each other, and that no bus takes anything back.

## 3. The runs

| Run | Configuration | Instance | Properties |
|---|---|---|---|
| `bus_sessions` | `MCBusSessions` | 3 connections, 1 session, 4 lines, 2 seconds, all clients may hang up | `TypeOK`, `Ownership`, `StickyJournaled`, `DelistedByOwnerOrStamp`, `NobodyInherits` |
| `bus_claims` | `MCBusClaims` | 2 connections, 2 sessions, 1 path, 4 lines, 2 seconds, a journaled claim | `ReleasesAnnounced`, `HandedOver`, `LastWord`, `ImplementsAdvisoryClaims` |
| `bus_pubsub` | `MCBusPubSub` | 2 connections, 2 topics, 3 overlapping prefixes, 2 channel slots, 5 lines, fair | `Delivery`, `ShutdownCompletes` |
| `journal` | `MCJournal` | 2 writers, 3 lengths, 3 inodes, 3 changes, a stop, a crash, a fault, a signal channel of one slot | `TypeOK`, `NoLostUpdate`, `CleanExitSaved`, `StaysParseable`, `EventuallySaved` |
| `claim_clients` | `MCClaimWait` | 2 guards of different sessions, a command of the first one's session, 2 ticks per second, a lease of 3 ticks, 2 ticks, a restart with or without the last save | `TypeOK`, `LeaseBacked`, `ReleasedForGood`, `WakeupNotLost`, `ImplementsAdvisoryClaims` |
| `bounce` | `MCReload` | 3 daemons, two of them started by hand and the first stopped by anybody, 1 subscriber in any mode, 1 reload, 1 installation, 1 change, fair | `TypeOK`, `BackoffFollowsFailures`, `Untouched`, `SoleService`, `HandoverComplete`, `ReloadedMeansService`, `ComesBack` |
| `uplink` | `MCUplink` | 3 nodes, two of one name, a channel of one slot, 4 scenarios, fair | `TypeOK`, `AtMostOnce`, `OriginOrder`, `StatusHonest`, `FleetView`, `Relayed`, `ImplementsJoinedBuses` |
| `announce_recorded` | `MCBusAnnounce` | a violation, below | `AnnounceIsRecorded` |
| `clearing_durable` | `MCBusClearing` | a violation, below | `ClearingIsDurable` |
| `journal_partial` | `MCJournalPartial` | a violation, below | `NeverPartial` |
| `release_confirmed` | `MCClaimRelease` | a violation, below | `ReleaseConfirmed` |
| `backoff_reset` | `MCReloadBackoff` | a violation, below | `ResetAfterSurvival` |

**Bounds.** Every passing run explores its whole instance. `MaxRequests` bounds the
lines the daemon reads in all, `MaxTime` the clock, `MaxChanges`, `MaxStops`,
`MaxCrashes`, `MaxFaults`, `MaxRestarts`, `MaxReloads`, `MaxInstalls` and `MaxByHand`
what their names say, `Quitters` and `Stoppable` who may hang up or be stopped by
anybody, and `Budgets` the scenarios of `Uplink`; nothing else is bounded. One session
for an owner, a guest and a third connection that announces after one of them has
gone, with a second in which a record can become silent, is the smallest instance with
every ownership change; two connections suffice for the claim races, which are between
two holders, or between a holder and its own late request (the journaled claim is a
third one's, or an earlier life's of one of them); a channel of two slots and five
lines makes a subscriber lag and still receive something after it. Capacities of one
make the persist channel full at once. Three lengths let a short slice overwrite a
long one and the reverse. Symmetry is used only over connections, and only in runs
without liveness properties.

Two ticks to the second and a lease of three are the smallest numbers for which a
whole-second expiry differs from the lease asked for and the renewal (after two ticks)
may come after it; two ticks see the lease expire, the renewal that comes too late for
it and a rival's acquire in between. `Save` is bounded to the time before the last
restart, since nobody loads what is saved later. Three daemons are two that somebody
started, one after the other or side by side, and the one a reload launches, or one
and its two successors; only the first may be stopped by anybody, a reload may stop
the others; a counter that saturates at 2 and a window of 4 that closes at 7, in a
type of 4 bits, show every regime of the backoff. `MCUplink` has four scenarios,
chosen at the start: two messages and one fault (a broken link, an overrun, a restart)
between two nodes, while a third has a malformed configuration; three nodes, two of
one name, and one message, without faults; presence with one query, a session that
comes and goes with and without a node of its own, and presence events of clients; and
a node whose URL does not parse. Together these are one failure of each kind with
every message that could be lost, reordered or doubled by it.

`MCClaimWait`, `MCReload` and `MCUplink` do not check deadlock: guards that are gone
and commands that have ended leave nothing to do once time is spent, a system without
a reload left sits waiting, and so do uplinks that have relayed everything.
`MCJournal` and `MCJournalPartial` do not check deadlock either: once the allowed stops
and crashes are spent and nobody has changes left, the daemon rightly sits waiting.
In `Bus` a stopped daemon stutters (`Stopped`) and a live one can always act, so
deadlock is checked there.

**Fairness.** Weak fairness of what a task does by itself once it handles a message
or leaves (`Proceed`), of the persist task, and of the shutdown once it has begun:
tokio runs ready tasks, its mutex is fair, and the drain window is a timer. A reply
is *not* assumed to be written: a client may stop reading for ever, and
`ShutdownCompletes` must hold all the same (it does because of `abort_all`).
Clients never have to send, read or hang up, and nobody has to stop the daemon. In
`Journal`, fairness of the persist task, of a shutdown in progress and of a
writer's signal after its change.

In `Reload`, a daemon's start, the shutdown of one that a reload has signalled, its exit
and the subscribe loops are fair, being signals under way, ready tasks and timers; the
reload command, stops by anybody else, installations and changes are not. In `Uplink`, the uplink's task and
the NATS client are fair, the latter because it retries for ever (`retry_on_initial_connect`, no limit on
reconnects); faults, publishes and presence are not. `ClaimWait` states no fairness and no liveness.

### Disagreements with the documentation

* `AnnounceIsRecorded` (`announce_recorded`). The peers op prunes silent records
  from `peers` but not from `peer_owners` (`daemon.rs` 678-681); a connection that
  ends through an error leaves both. A later announce finds an owner (533), is
  answered with `ok` and records nothing. `tests/acceptance_ac2.rs:4` describes the
  announce as one the daemon answers and records.
* `ClearingIsDurable` (`clearing_durable`). A heartbeat updates the durable intent
  only if it changes the *record* (606-638), and a new record is empty whatever the
  journal holds: after a reconnect, clearing a field leaves it in the journal.
  `protocol.rs:29-30` says a sticky field persists until cleared by an empty value.
* `NeverPartial` (`journal_partial`). The final flush may truncate the temporary
  file between the persist task's write and rename (both threads use the same pid),
  and a truncated file becomes the state file until the flush's own write, which
  goes to that same inode, completes. `persist.rs:10-11` says the state file is
  never partially written. What does hold is `StaysParseable` (nothing of the kind
  before the final flush) and `CleanExitSaved` (an exit that meets no fault leaves
  the right contents).

* `ReleaseConfirmed` (`release_confirmed`). `release` aborts the renewal task and then
  takes the next line on the shared connection for its answer. If the task was waiting
  for a reply, that line is the *acquire's*; and if it was reconnecting, an acquire may
  be under way on the other connection and be handled after the release. The guard is
  told `Ok` and its session still has, or gets back, the claim until it expires.
  `claim_guard.rs:118-119` says the release is awaited and confirmed. What does hold is
  `ReleasedForGood`: a release that cut off no request is one.
* `ResetAfterSurvival` (`backoff_reset`). The subscribe loop resets the exponent at every
  handshake (182-184), so a daemon that accepts its subscribers and drops them is retried
  within `base_ms` for ever; the reset of a stream that has lasted (253-258) then finds it
  at zero and never has an effect. `reconnect.rs:13-14` and `CHANGELOG.md:127` say that it
  resets after a subscribe that survives at least `cap_ms`. What does hold is
  `BackoffFollowsFailures`, which counts from the last handshake.

Three more that the properties are stated around, with no run of their own. A *peer that
talks* may be delisted: only some ops refresh the stamp, and claim requests set it to a
clock they read before the lock, whereas `daemon.rs:49-50` speaks of "no message for this
duration" and `protocol.rs:41` of "the most recent message"; `DelistedByOwnerOrStamp` is
about the stamp. A *lease of less than three seconds* may lapse before its renewal,
whereas `claim_guard.rs:1-2` and `CHANGELOG.md:46` say that the guard "auto-renews it before
TTL expiry"; `LeaseBacked` bounds what the guard believes and for how long. The *own
sessions of a node* are listed twice by `peers --fleet` once their presence was announced
in the window, because local records carry no node and the broadcast of them does, whereas
`fleet.rs:130-136` counts "the same node" as a duplicate; `FleetView` excludes only rows of
equal session and node.

**Remarks.** Things the models show that no document denies. A process that `reload`
started cannot be found by the next reload's doctor (`argv[1]` is `--socket`): the next
reload refuses, or with `start_if_absent` starts a second daemon beside it, which
takes the socket path; so `ComesBack` can promise only *a* daemon that serves, and
`SoleService` and `HandoverComplete` exclude two that ever ran side by side: either one's
end makes the other unreachable and may put an older journal over its changes. A reload
whose launch fails ends with no daemon at all. A daemon that lost the race for the
path lives on without serving (`deaf`). After `--build`, or an installation during
the reload, the command's own path ends in " (deleted)" and the launch starts nothing;
with nothing to wait for the reload still says `reloaded`. The verdict compares with a
snapshot taken before the build, so a session that left in between makes it `degraded`. A
slow consumer event shows as `reconnecting` until the next
reconnect. Nodes with one name drop each other's messages (`Relayed` excludes
them). After a daemon that was killed, or whose last save failed, a released claim may be
back and a guard's may be gone.

## 4. What is proved

TLAPS proves these for every value of the constants (connections, sessions, guards,
commands, daemons, nodes, capacities, clocks, bounds) that meets the assumptions
named in the modules; the runs check the same invariants on their instances.

* `Bus`: messages and journals are well formed, capacities are positive, `None`,
  `Absent` and `Empty` are not values of anything else.
* `Journal`: the default slice is a value, `None` and `Garbled` are no files or values,
  serialised slices are not empty, bounds are numbers.
* `ClaimGuard`, `ClaimWait`: every client has a session (`ClientSessions`), a second has at
  least one tick and leases and waits are positive (`GuardNumbers`, `WaiterNumbers`),
  `None` is no claim (`GuardAbsence`). A lease may be shorter than its renewal.
* `Reconnect`, `Reload`: daemons are `1..n` in the order they start, the backoff's cap
  fits its type, and the counters saturate after the window has closed or there is no delay
  at all (`LoopAssumption`), bounds are numbers (`ReloadAssumption`).
* `Uplink`: a positive capacity, bounds that are numbers, and every node has a name, not
  necessarily its own (`UplinkNumbers`, `UplinkBudgets`, `UplinkNames`).

| Theorem | States | Argument |
|---|---|---|
| `TypeCorrect` | `Spec => []TypeOK` | `TypeOK` is not inductive: a handler past the lock uses `req[c]` as a message and `session[c]` as a session. `TypeInv` adds `HandlerOK`, which says so and which ops reach which label. One step per action. |
| `OwnershipInvariant` | `Spec => []Ownership` | Inductive with `TypeInv`: an announcing connection has no session, so it owns nothing yet; a cleaning one owns at most its own session. All other steps are harmless. |
| `Delisting` | `Spec => DelistedByOwnerOrStamp` | Needs `NotAhead`: the clock a task read before the lock is not ahead of the real one, so the age it computes is never too large. |
| `NoInheritance` | `Spec => NobodyInherits` | A record and an owner appear only in `Announce`, and there together and only where there was no owner: a heartbeat or a publish of a guest, or of an owner whose record was pruned, finds no record and makes none. The cleanup gives a session to nobody. |
| `Delivered` | `Spec => []Delivery` | `DeliveryInv`: a receiver is never ahead of the channel and everything written is behind it, in order; a subscription starts at the channel's end, and nothing that matches between it and the receiver is missing, unless the receiver lagged past it or the task failed. The log only grows (`Grows`), so steps of other tasks disturb nothing. |
| `Announced` | `Spec => []ReleasesAnnounced` | `AnnounceInv` adds that the tasks past the removal of a claim are finitely many, with any number of connections. A release adds a task to them, its send moves it to the messages sent, a forced acquire adds a message at once, and no abort hits a task between the two. Clients' own messages have no path. |
| `StickyInvariant` | `Spec => []StickyJournaled` | A heartbeat writes the same value to record and map or changes neither. |
| `FinalSnapshotIsLast` | `Spec => []LastWord` | `FlushInv` adds that no connection task is left after the final snapshot: a task that takes a step is not at a terminal label, and nothing is accepted. The persist task's later snapshots are of the same state. |
| `AlwaysHandedOver` | `Spec => []HandedOver` | A change leaves its task at `signal`, which no abort can hit; the signal finds room or a full channel; the persist task empties the channel *before* its snapshot; pruning with a clock that is not ahead (`NotAhead`) changes no claim in force (`PruneTwice`, `AgreeLater`). |
| `ClaimsRefinement` | `Spec => ImplementsAdvisoryClaims` | Init maps to Init, and every step to an abstract one or to none (`ClaimsStep`). A request is outstanding while its task waits for the lock (`OneAsks`, `OneDecided`: another connection of the session may ask the same). The critical section is the instant of the grant or the release. The clock that a task read before the lock is not ahead (`NotAhead`), so the table it pruned and the real one show the same claims in force (`LatePruning`), and what it removed too late had expired. |
| `JournalProofs!TypeCorrect` | `Spec => []TypeOK` of `Journal` | `ThreadsOK` adds each thread's labels and that a thread about to write has a file open. |
| `JournalProofs!StaysReadable` | `Spec => StaysParseable` | `SoloInv`: before the final flush the temporary file is not the state file, the file being written is the temporary one and empty, and what is about to be renamed is whole. A failed operation leaves the persist task outside a save, with whatever temporary file there was; the next save truncates it. |
| `NothingForgotten` | `Spec => []NoLostUpdate` of `Journal` | `UpdateInv`, which like the property speaks of states in which no save has failed since the last slice was taken. A stale save always has a signal, or a writer about to send one, behind it. Alone, the persist task renames what it wrote whole (`SoloPart`). From the final flush on the slice is fixed (`FinalPart`): unless the persist task is still at work on an older one (`Stale`) or the temporary file is what an earlier failure left, not yet opened again (`Leftover`), every file that will be renamed is or will be whole (`OkFile`: a thread with this file open writes the same bytes, over nothing longer), and one of the two threads will find a temporary file to rename or has. |
| `CleanExit` | `Spec => []CleanExitSaved` of `Journal` | From the same invariant: the exit waits for a persist task that needs no other round. Failures before the final flush need not be excluded. |
| `ClaimProofs!TypeCorrect` | `Spec => []TypeOK` of `ClaimWait` | `TypeInv` adds that a waiting command has a count of events; what is sent, handled, read and cut off keeps a connection's queues typed. |
| `BeliefBacked` | `Spec => []LeaseBacked` | `LeaseInv`: at each label of the guard, what may be in flight on either connection (`Asked`, `Quiet`), and that whatever a reply would let it believe is granted by the time the daemon handles the request. A request left behind by a closed connection belongs to a guard that is leaving (`OrphanInv`). What a lost save undoes is `undercut`. |
| `WakeupKept` | `Spec => []WakeupNotLost` | `WaitInv`: a command's path becomes free either by a release, which is an event for every subscribed command, or before it subscribed, and then it is in `missed`, as it is when it lagged. |
| `ReleaseFinal` | `Spec => []ReleasedForGood` | `ConfirmInv`: a claim in force has the session of its maker (`MakerInv`); a guard that leaves and was not cut off has nothing but releases under way, so its first answer means that one was handled (`ReleaseInv`). |
| `ClaimsKept` | `Spec => ImplementsAdvisoryClaims` of `ClaimWait` | The abstract clock moves when a whole second begins, and by one (`SecondsStep`). What is handled was outstanding, and what is outstanding afterwards was before, or was just sent (`AskingFollows`, one lemma per group of actions). A decided request may stay in `asking` if another client of the session has an equal one, and leaves it otherwise (`Decides`); a refused acquire and a release of a claim that is not the session's only withdraw. The daemon's end is `Stop`, with its last save or an older one, its return `Start`. The claim in force changes as `Acquire` or `Release` say (`Held`). |
| `ReloadProofs!TypeCorrect` | `Spec => []TypeOK` of `Reload` | Inductive; a new process takes an unused pid, the smallest of a set of numbers. |
| `EarlyFailure` | `Spec => Untouched` | `EarlyInv`: before the signal nothing is touched, and a dry run goes no further than the snapshot. |
| `SocketHandover` | `Spec => []SoleService` | `HandoverInv`: unless a reload gave up or a daemon was started beside another, at most one daemon is alive, and after the wait a reload's target is not; so nobody else is there to remove the socket file, whoever stops the others. |
| `JournalHandover` | `Spec => []HandoverComplete` | The same invariant, with `disk >= saved`: a daemon loads after its predecessor's final flush, and one that failed has added nothing to `saved`. |
| `SuccessMeansService` | `Spec => ReloadedMeansService` | The last poll found the sessions on the daemon behind the socket path, and the target is not alive. |
| `DelayFollowsFailures` | `Spec => []BackoffFollowsFailures` of `Reload` | `BackoffInv`: exponent and failures count alike, one apart in the backoff, until both saturate, and by then the window has closed at the cap. That 2^n grows with n (`PowersGrow`) would be an induction; instead 2^n is the number of subsets of `1..n`, and `1..m` has no more than `1..n`. |
| `UplinkProofs!TypeCorrect` | `Spec => []TypeOK` of `Uplink` | Inductive; `Put` never exceeds the capacity. |
| `StatusTrue` | `Spec => []StatusHonest` | `StatusInv`: the status, or the last notice if one is pending, says connected only when the link is up. |
| `OrderKept` | `Spec => []OriginOrder` | `OrderInv`: a message of `n` for `p` is in `n`'s receiver, `n`'s outbox, `p`'s subscription or on `p`'s bus, in each place in the order of its number, and whatever is further along the lane is older. Every message is marked in the receiver by where it began, and every envelope carries its publisher's name. One lemma per step of the lane (`LaneSay`, `LaneRelayed`, `LaneFlushed`, `LaneDelivered`), one for losses (`LaneShrunk`). |
| `NoLoops` | `Spec => []AtMostOnce` | From the same invariant: two messages of one node on a bus have different numbers. |
| `BusesJoined` | `Spec => ImplementsJoinedBuses` | `GenuineInv` beside `OrderInv`: whatever of a node's messages is in a receiver, an outbox or a subscription is on that node's own bus, just so, and since a bus only grows (`SaidGrows`) it stays there. What an uplink takes in carries the name of its publisher, where it began (`Stamped`), so a message that is no echo is of another name; by `OrderInv` everything of that node on the bus is older. |
| `FleetTrue` | `Spec => []FleetView` | `FleetInv`: every event that a query has stored or has not read is the content of a message in some node's own part of its bus, which `GenuineInv` gives for what arrives from afar. No two rows agree: the store is a set of sessions with nodes, as is the table of local records, and the merge drops what is in both. |

Only model-checked is liveness, which needs fairness or `ENABLED`: `ShutdownCompletes`,
`EventuallySaved`, `ComesBack`, `Relayed`. Every other property of a passing run is a
theorem. The five violations are of runs only.

## 5. Not modelled, and why

* Two reloads at a time: nothing in the code prevents them, nothing is promised of them.
* Of the reload: `--installed-path` elsewhere, the printed fields of the verdict, the
  steps inside the build script (external). Of the doctor: its own report beyond the
  pid and the verdict.
* Of the daemon's start: the mode of the socket file, the default paths, accept errors,
  an I/O error other than a missing file at load: no property depends on them.
* Of the uplink: `prov_ts`, payloads, presence-gone events (nothing sends them), envelopes
  that do not decode (skipped in silence, `uplink.rs` 298), a publish that fails (its error
  is discarded, 283-285) or waits because the client's own queue is full.
* Daemons that are killed: `Journal` and `ClaimWait` have them, `Reload` does not, where a
  stale socket file would be left, which the next start removes. In `ClaimWait` a killed
  daemon has answered what it decided.
* The drain notice itself: it is written best effort, and nothing depends on it.
* The client library beyond what its users do with it: a request and a reply on one
  connection are `Link` of `ClaimGuard`. Delays and jitter; only what bounds them counts.
* CLI parsing and printing: no state. The commands modelled are `claim`, `reload`,
  `subscribe` and `peers --fleet`.

## 6. Plan

Done: the modules of section 2, their runs, and the proofs of section 4; both abstract
specifications have their refinements proved. Left:

1. The step from `Bus` to `Journal`: that the connection tasks of `Bus` are `Journal`'s
   writers, as a refinement of the persist path. The clock is in the way: in `Bus` the
   slice in memory shrinks when a claim expires, with no change and no signal.
2. The safety part of the liveness properties, as invariants that bound what a fair
   schedule still has to do: after a shutdown, how many steps a connection task can take.
