------------------------------- MODULE Reload -------------------------------
(***************************************************************************)
(* `agorabus reload` (reload.rs) with the doctor it asks (doctor.rs), the  *)
(* daemon processes it stops and starts (start and shutdown of run_daemon, *)
(* and the daemon command of main.rs) and the subscribers of Reconnect     *)
(* that have to find the new daemon.                                       *)
(*                                                                         *)
(* One reload runs at a time.  A file is known by the number of the        *)
(* installation that put it in place; the command and every daemon run an  *)
(* image that may have been replaced since.  The journal is a counter of   *)
(* changes: what a daemon knows, and what it last saved.                   *)
(*                                                                         *)
(* Anybody may start a daemon, beside one that runs or not, and anybody    *)
(* may stop one by SIGINT or SIGTERM.                                      *)
(***************************************************************************)
EXTENDS Reconnect

CONSTANTS
  MaxReloads,   \* bound: reload commands
  MaxByHand,    \* bound: daemons started by hand
  Stoppable,    \* bound: daemons that anybody but a reload may stop
  MaxInstalls,  \* bound: installations of the binary
  MaxChanges    \* bound: changes of the durable state

ASSUME ReloadAssumption ==
  MaxReloads \in Nat /\ MaxByHand \in Nat /\ Stoppable \subseteq Daemons /\ MaxInstalls \in Nat /\ MaxChanges \in Nat

VARIABLES
  image,      \* the installation each daemon runs
  visible,    \* daemons whose argv[1] is "daemon"
  signalled,  \* daemons that were sent SIGTERM
  memory,     \* changes each daemon knows of
  disk,       \* changes in the state file
  installed,  \* the installation on disk
  rpc,        \* where the reload command is
  options,    \* its ReloadConfig
  exe,        \* the installation it runs itself
  target,     \* daemon_pid of the doctor's report, or None
  before,     \* peers_before
  status,     \* its ReloadStatus, or the kind of its error
  reloads,    \* how many there were (bounds the model)
  touched,    \* history: the reload has signalled a daemon or launched one in its place
  undrained,  \* history: some reload gave up waiting for its target to exit
  beside,     \* history: a daemon was started beside one that no reload was replacing
  saved       \* history: the most changes a daemon has saved by its final flush

processVars == <<proc, sock, image, visible, signalled, memory, disk, beside, saved>>
reloadVars == <<rpc, options, exe, target, before, status, reloads, touched, undrained>>
vars == <<processVars, installed, reloadVars, loopVars>>

Alive(d) == d # None /\ proc[d] \notin {"unused", "exited"}

-----------------------------------------------------------------------------
(* Daemon processes *)

DStep(d, from, to) == proc[d] = from /\ proc' = [proc EXCEPT ![d] = to]

\* What a process knew ends with it, its peer table included.
Die(d) ==
  /\ listed' = [listed EXCEPT ![d] = {}]
  /\ image' = [image EXCEPT ![d] = 0] /\ memory' = [memory EXCEPT ![d] = 0]
  /\ signalled' = signalled \ {d}

\* run_daemon at its start: prepare the directory, and remove a socket file, whosever it
\* is.  When the directory fails, the process waits for its signal without serving.
Unlink(d) ==
  /\ \/ DStep(d, "starting", "binding") /\ sock' = None
     \/ DStep(d, "starting", "deaf") /\ UNCHANGED sock
  /\ UNCHANGED <<image, visible, signalled, memory, disk, beside, saved, listed>>

\* Bind the path anew and load the journal.  The bind fails when another daemon was
\* faster, and set_mode may fail after it, which leaves a socket file nobody listens at:
\* again the process waits for its signal.
Bind(d) ==
  /\ \/ /\ sock = None /\ sock' = d
        /\ DStep(d, "binding", "serving")
        /\ memory' = [memory EXCEPT ![d] = disk]
     \/ /\ sock' = sock \/ (sock = None /\ sock' = d)
        /\ DStep(d, "binding", "deaf")
        /\ UNCHANGED memory
  /\ UNCHANGED <<image, visible, signalled, disk, beside, saved, listed>>

\* A change of the durable state.  That the persist task may save it early is left to
\* module Journal.
Change(d) ==
  /\ Serving(d)
  /\ memory[d] < MaxChanges
  /\ memory' = [memory EXCEPT ![d] = @ + 1]
  /\ UNCHANGED <<proc, sock, image, visible, signalled, disk, beside, saved, listed>>

\* SIGINT or SIGTERM, of a reload or of anybody else: the socket path is removed,
\* whatever it names by now.  A process without its handlers yet just dies.
Shutdown(d) ==
  /\ d \in signalled \cup Stoppable
  /\ \/ /\ DStep(d, "serving", "draining")
        /\ sock' = None
        /\ UNCHANGED <<image, signalled, memory, listed>>
     \/ /\ \E early \in {"starting", "binding", "deaf"} : DStep(d, early, "exited")
        /\ Die(d)
        /\ UNCHANGED sock
  /\ UNCHANGED <<visible, disk, beside, saved>>

\* The grace period is over: connections are closed, the final flush is made, which may
\* fail with nothing but a warning, and the process ends.
\* Mutant: no final flush.
FlushNothing(d) == disk
Flushed(d) == memory[d]
Exit(d) ==
  /\ DStep(d, "draining", "exited")
  /\ Die(d)
  /\ \/ /\ disk' = Flushed(d)
        /\ saved' = IF saved >= memory[d] THEN saved ELSE memory[d]
     \/ UNCHANGED <<disk, saved>>
  /\ UNCHANGED <<sock, visible, beside>>

Process(d) ==
  Unlink(d) \/ Bind(d) \/ Change(d) \/ Shutdown(d) \/ Exit(d)

\* A new process, with the next pid.
Unused == {d \in Daemons : proc[d] = "unused"}
Smallest(pids) == CHOOSE d \in pids : \A e \in pids : d <= e
NextDaemon == Smallest(Unused)

\* It may take the place of another one.
Spawn(d, replaced) ==
  /\ proc' = [proc EXCEPT ![d] = "starting"]
  /\ image' = [image EXCEPT ![d] = installed]
  /\ beside' = (beside \/ \E e \in Daemons \ {replaced} : Alive(e))
  /\ UNCHANGED <<sock, signalled, memory, disk, saved>>

\* `agorabus daemon`, run by hand at any moment.
StartByHand ==
  /\ Unused # {} /\ Cardinality(visible) < MaxByHand
  /\ Spawn(NextDaemon, None)
  /\ visible' = visible \cup {NextDaemon}
  /\ UNCHANGED <<installed, reloadVars>>

-----------------------------------------------------------------------------
(* The doctor *)

\* find_daemon_pid: the smallest pid whose command line looks right, on any socket.
FindDaemon ==
  LET seen == {d \in visible : Alive(d)}
  IN IF seen = {} THEN None ELSE Smallest(seen)

\* run_doctor's verdict: a daemon whose file was replaced runs a deleted one; when the
\* command's own file was replaced there is nothing to compare with.
Verdict(d) ==
  CASE d = None -> "unknown"
    [] d # None /\ image[d] # installed -> "stale"
    [] d # None /\ image[d] = installed -> IF exe = installed THEN "current" ELSE "unknown"

-----------------------------------------------------------------------------
(* run_reload *)

\* Options are forgotten once they have been used.
Forget(fields) == options' = [f \in DOMAIN options |-> options[f] /\ f \notin fields]
Goto(label) == rpc' = label /\ UNCHANGED <<exe, status>>

\* The command ends.  A status of "error" or "stranded" stands for the Err of run_reload.
Options == [fresh: BOOLEAN, absent: BOOLEAN, dry: BOOLEAN, build: BOOLEAN]
NoOptions == [fresh |-> FALSE, absent |-> FALSE, dry |-> FALSE, build |-> FALSE]
Finish(outcome) ==
  /\ rpc' = "idle"
  /\ status' = outcome
  /\ options' = NoOptions
  /\ exe' = 0 /\ target' = None /\ before' = {} /\ touched' = FALSE

\* snapshot_peers: nobody when no daemon answers.
Listed == IF Accepting(sock) THEN listed[sock] ELSE {}

Start ==
  /\ rpc = "idle"
  /\ reloads < MaxReloads
  /\ reloads' = reloads + 1
  /\ options' \in Options
  /\ exe' = installed
  /\ rpc' = "preflight"
  /\ status' = "none"
  /\ UNCHANGED <<processVars, installed, target, before, touched, undrained>>

\* The doctor, and the refusals: no daemon, or one that is current.  With --build the
\* tools are looked for first, and may be missing.
Preflight ==
  /\ rpc = "preflight"
  /\ \/ options.build /\ Finish("error")
     \/ IF FindDaemon = None /\ ~options.absent /\ ~(options.build /\ options.dry)
        THEN Finish("failed")
        ELSE IF options.fresh /\ Verdict(FindDaemon) = "current"
        THEN Finish(IF options.build THEN "reloaded" ELSE "failed")
        ELSE /\ Goto("snapshot")
             /\ Forget({"fresh", "absent"})
             /\ target' = FindDaemon
             /\ UNCHANGED <<before, touched>>
  /\ UNCHANGED <<processVars, installed, reloads, undrained>>

\* Mutant: --build is applied even in a dry run.
PlanOnlyUnlessBuild == options.dry /\ ~options.build
PlanOnly == options.dry
Bounce == Goto(IF target = None THEN "launch" ELSE "kill") /\ Forget({"build"})

Snapshot ==
  /\ rpc = "snapshot"
  /\ IF PlanOnly THEN Finish("reloaded")
     ELSE /\ before' = Listed
          /\ IF options.build THEN Goto("build") /\ UNCHANGED options ELSE Bounce
          /\ UNCHANGED <<target, touched>>
  /\ UNCHANGED <<processVars, installed, reloads, undrained>>

\* run_cloudbuild_and_install: any failure ends the reload, else the file is replaced.
Build ==
  /\ rpc = "build"
  /\ \/ Finish("error") /\ UNCHANGED installed
     \/ /\ installed < MaxInstalls
        /\ installed' = installed + 1
        /\ Bounce
        /\ UNCHANGED <<target, before, touched>>
  /\ UNCHANGED <<processVars, reloads, undrained>>

\* send_sigterm fails when the process is gone by now, and may fail anyhow.
Kill ==
  /\ rpc = "kill"
  /\ \/ /\ Alive(target)
        /\ signalled' = signalled \cup {target}
        /\ touched' = TRUE
        /\ Goto("wait")
        /\ UNCHANGED <<options, target, before>>
     \/ Finish("error") /\ UNCHANGED signalled
  /\ UNCHANGED <<proc, sock, image, visible, memory, disk, beside, saved, installed, reloads,
                 undrained>>

\* wait_for_exit: until the process is gone, or the drain timeout, which only warns.
\* Mutant: the first look is taken for the answer.
GoneAtOnce(d) == TRUE
Gone(d) == ~Alive(d)
Wait ==
  /\ rpc = "wait"
  /\ undrained' = (undrained \/ ~Gone(target))
  /\ Goto("launch")
  /\ UNCHANGED <<processVars, installed, options, target, before, reloads, touched>>

\* launch_daemon starts the command's own executable; when that file was replaced
\* its path ends in " (deleted)" and nohup finds nothing to run.  It puts "--socket"
\* before "daemon", so that no doctor will take the new process for a daemon.  When it
\* fails itself the reload ends without a new daemon, and the old one was told to stop.
Launch ==
  /\ rpc = "launch"
  /\ \/ /\ IF exe = installed THEN Unused # {} /\ Spawn(NextDaemon, target) /\ UNCHANGED visible
                              ELSE UNCHANGED processVars
        /\ IF target = None THEN Finish("reloaded")
           ELSE Goto("poll") /\ touched' = TRUE /\ UNCHANGED <<options, target, before>>
     \/ Finish("stranded") /\ UNCHANGED processVars
  /\ UNCHANGED <<installed, reloads, undrained>>

\* Mutant: the difference is taken the wrong way round.
MissingSwapped(current) == current \ before
Missing(current) == before \ current

\* The poll that ends the reload, and the verdict.  The ones before it change nothing:
\* the reload waits for the socket file, then for its sessions, and stops when it has
\* them or when the reconnect timeout has passed, which it may have at any poll.
Poll ==
  /\ rpc = "poll"
  /\ Finish(IF Missing(Listed) = {} THEN "reloaded" ELSE "degraded")
  /\ UNCHANGED <<processVars, installed, reloads, undrained>>

\* install.sh replaces the binary while nobody asked for it.  (After the last reload of
\* the model nothing looks at the binary any more.)
Install ==
  /\ reloads < MaxReloads \/ rpc # "idle"
  /\ installed < MaxInstalls
  /\ installed' = installed + 1
  /\ UNCHANGED <<processVars, reloadVars>>

Command ==
  Start \/ Preflight \/ Snapshot \/ Build \/ Kill \/ Wait \/ Launch \/ Poll

-----------------------------------------------------------------------------
Init ==
  /\ proc = [d \in Daemons |-> "unused"]
  /\ sock = None
  /\ image = [d \in Daemons |-> 0]
  /\ visible = {} /\ signalled = {}
  /\ memory = [d \in Daemons |-> 0] /\ disk = 0 /\ saved = 0
  /\ installed = 0
  /\ rpc = "idle"
  /\ options = NoOptions
  /\ exe = 0 /\ target = None /\ before = {}
  /\ status = "none" /\ reloads = 0
  /\ touched = FALSE /\ undrained = FALSE /\ beside = FALSE
  /\ LoopInit

Next ==
  \/ \E d \in Daemons : Process(d) /\ UNCHANGED <<installed, reloadVars, subscriberVars>>
  \/ StartByHand /\ UNCHANGED loopVars
  \/ Command /\ UNCHANGED loopVars
  \/ Install /\ UNCHANGED loopVars
  \/ \E s \in Subscribers :
       /\ Loop(s) \/ Leave(s)
       /\ UNCHANGED <<image, visible, signalled, memory, disk, beside, saved, installed, reloadVars>>

\* The scheduler runs every task, and a daemon a reload signalled gets the signal; nobody
\* has to reload, start, stop, change, install or leave.
Fairness ==
  /\ \A d \in Daemons :
       WF_vars((Unlink(d) \/ Bind(d) \/ (d \in signalled /\ Shutdown(d)) \/ Exit(d))
                 /\ UNCHANGED <<installed, reloadVars, subscriberVars>>)
  /\ \A s \in Subscribers :
       WF_vars(Loop(s) /\ UNCHANGED <<image, visible, signalled, memory, disk, beside, saved,
                                     installed, reloadVars>>)

Spec == Init /\ [][Next]_vars /\ Fairness

-----------------------------------------------------------------------------
(* Properties *)

ProcessTypes ==
  /\ proc \in [Daemons -> {"unused", "starting", "binding", "serving", "deaf", "draining", "exited"}]
  /\ sock \in Daemons \cup {None}
  /\ image \in [Daemons -> 0..MaxInstalls] /\ installed \in 0..MaxInstalls
  /\ visible \subseteq Daemons /\ signalled \subseteq Daemons
  /\ memory \in [Daemons -> 0..MaxChanges] /\ disk \in 0..MaxChanges /\ saved \in 0..MaxChanges
  /\ beside \in BOOLEAN

ReloadTypes ==
  /\ rpc \in {"idle", "preflight", "snapshot", "build", "kill", "wait", "launch", "poll"}
  /\ options \in Options
  /\ exe \in 0..MaxInstalls
  /\ target \in Daemons \cup {None} /\ before \subseteq Subscribers
  /\ touched \in BOOLEAN /\ undrained \in BOOLEAN
  /\ status \in {"none", "failed", "error", "stranded", "reloaded", "degraded"}
  /\ reloads \in 0..MaxReloads

\* The variables keep their shapes.
TypeOK == ProcessTypes /\ LoopTypes /\ ReloadTypes

\* A reload that was refused, planned only, or failed in its tools, the build, the
\* installation or the signal has neither signalled nor started a daemon ("aborts before
\* touching the daemon on any build/install failure").  That is not so of every Err: when
\* the launch fails ("stranded") the old daemon was told to stop and nothing replaces it.
Untouched ==
  [][rpc # "idle" /\ rpc' = "idle" /\ (options.dry \/ status' \in {"failed", "error"})
       => ~touched /\ proc' = proc]_vars

\* A serving daemon that is alone can be reached by its path, unless a reload gave up
\* waiting for the one before it, or somebody had started a daemon beside another: with
\* two at once either one's end removes the socket file, whosever it is.
SoleService ==
  \A d \in Daemons :
    /\ proc[d] = "serving"
    /\ \A e \in Daemons \ {d} : ~Alive(e)
    /\ ~undrained /\ ~beside
    => sock = d

\* Under the same condition a daemon that serves has loaded everything its predecessors
\* saved when they ended: it is not started before their final flush.  (A final flush
\* that fails is only logged, and what it should have saved is lost.)
HandoverComplete ==
  ~undrained /\ ~beside => \A d \in Daemons : Serving(d) => memory[d] >= saved

\* Exit 0 of a reload that had sessions to bring back and saw the old daemon end means
\* that another daemon serves at the socket path ("exit 0 only on full recovery").
ReloadedMeansService ==
  [][rpc = "poll" /\ status' = "reloaded" /\ before # {} /\ ~undrained
       => \E d \in Daemons \ {target} : proc[d] = "serving" /\ sock = d]_vars

\* Once the socket path leads to a daemon for good, every lasting subscriber ends up in
\* the peer table of one that serves, however often the daemon was replaced and the
\* attempts in between failed.  (It need not be the same: of two daemons that serve at
\* once, a subscriber keeps the one it has.)
ComesBack ==
  \A s \in Subscribers :
    mode[s] = "lasting" /\ <>[]Accepting(sock)
      => <>[](Serving(conn[s]) /\ s \in listed[conn[s]])
=============================================================================
