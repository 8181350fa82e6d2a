------------------------------ MODULE Journal ------------------------------
(***************************************************************************)
(* How the durable slice of BusState (claims and sticky intents) gets to   *)
(* the state file and back: the writers' persist signals, the persist task *)
(* of run_daemon, persist::save taken apart into its file operations, the  *)
(* final flush at shutdown, crashes, and the load at the next start.       *)
(*                                                                         *)
(* The persist task and the final flush may save at the same time: they    *)
(* are threads of one process, so both use the temporary file named after  *)
(* its pid.  Files are therefore modelled as inodes under names.  The      *)
(* durable slice is an opaque value; what matters of its serialised form   *)
(* is its length, because a write over a longer one leaves the old tail.   *)
(* Changes that only prune expired claims need no save and do not appear   *)
(* (module Bus has them).  The file system survives every crash.           *)
(***************************************************************************)
EXTENDS Integers

CONSTANTS
  Writers,          \* connection tasks that change the durable slice
  Values,           \* values of the durable slice
  Default,          \* the empty slice, DurableState::default()
  Length,           \* Length[v]: bytes of v serialised
  Inodes,           \* files of the state directory
  PersistCapacity,  \* slots of the persist-signal channel
  MaxChanges,       \* bound: changes of the durable slice
  MaxStops,         \* bound: times the daemon is told to stop
  MaxCrashes,       \* bound: times the process is killed
  MaxFaults,        \* bound: file operations that fail
  None, Garbled

ASSUME ValuesAssumption ==
  /\ Default \in Values
  /\ Garbled \notin Values
  /\ None \notin Inodes
  /\ Length \in [Values -> Nat \ {0}]
ASSUME CapacityAssumption == PersistCapacity \in Nat \ {0}
ASSUME BoundsAssumption ==
  /\ MaxChanges \in Nat
  /\ MaxStops \in Nat
  /\ MaxCrashes \in Nat
  /\ MaxFaults \in Nat

\* The two threads that call save.
Savers == {"persist", "main"}

\* What a file holds: a value, or bytes that no value serialises to.
Content == [data: Values \cup {Garbled}, len: Nat]
Truncated == [data |-> Garbled, len |-> 0]

VARIABLES
  mem,      \* the durable slice in memory
  writer,   \* writer[w]: "idle", or "signal" between its unlock and its try_send
  signals,  \* queued persist signals
  pc,       \* where the two threads are
  snap,     \* snap[t]: the slice t took under the lock, to be saved
  fd,       \* fd[t]: the file t has open for writing
  state,    \* the inode named state.json
  tmp,      \* the inode named state.json.tmp.<pid>
  content,  \* content[i]: what inode i holds
  changes, stops, crashes, faults,
  failed    \* history: a file operation failed since the latest slice to be saved was
            \* taken, or since the final flush took its own

fileVars == <<state, tmp, content>>
recordVars == <<changes, stops, crashes, faults, failed>>
vars == <<mem, writer, signals, pc, snap, fd, fileVars, recordVars>>

-----------------------------------------------------------------------------
(* persist.rs *)

\* What write leaves in a file: it starts at offset 0 and does not truncate.
Overwrite(old, v) ==
  IF old.len <= Length[v] THEN [data |-> v, len |-> Length[v]]
  ELSE [data |-> Garbled, len |-> old.len]

\* load: a missing or unparseable file counts as the empty slice.
Parseable == state # None => content[state].data # Garbled
Load == IF state # None /\ content[state].data # Garbled
        THEN content[state].data ELSE Default

\* Where thread t goes when save has returned.
AfterSave(t) == IF t = "persist" THEN "recv" ELSE "await"

At(t, label) == t \in Savers /\ pc[t] = label
Goto(t, label) == pc' = [pc EXCEPT ![t] = label]

\* Mutant: an existing state file is written in place.
OpenInPlace(t) ==
  /\ At(t, "open")
  /\ Goto(t, "write")
  /\ IF state = None /\ tmp = None
     THEN \E i \in Inodes \ {fd["persist"], fd["main"]} :
            /\ tmp' = i
            /\ fd' = [fd EXCEPT ![t] = i]
            /\ content' = [content EXCEPT ![i] = Truncated]
     ELSE LET i == IF state = None THEN tmp ELSE state IN
            /\ fd' = [fd EXCEPT ![t] = i]
            /\ content' = [content EXCEPT ![i] = Truncated]
            /\ UNCHANGED tmp
  /\ UNCHANGED <<mem, writer, signals, snap, state, recordVars>>

\* fs::write opens with create and truncate.
Open(t) ==
  /\ At(t, "open")
  /\ Goto(t, "write")
  /\ IF tmp = None
     THEN \E i \in Inodes \ {state, fd["persist"], fd["main"]} :
            /\ tmp' = i
            /\ fd' = [fd EXCEPT ![t] = i]
            /\ content' = [content EXCEPT ![i] = Truncated]
     ELSE /\ fd' = [fd EXCEPT ![t] = tmp]
          /\ content' = [content EXCEPT ![tmp] = Truncated]
          /\ UNCHANGED tmp
  /\ UNCHANGED <<mem, writer, signals, snap, state, recordVars>>

\* ... and writes the bytes to the file it opened, whatever its name is by now.
Write(t) ==
  /\ At(t, "write")
  /\ Goto(t, "chmod")
  /\ content' = [content EXCEPT ![fd[t]] = Overwrite(@, snap[t])]
  /\ fd' = [fd EXCEPT ![t] = None]
  /\ UNCHANGED <<mem, writer, signals, snap, state, tmp, recordVars>>

\* set_mode goes by name: it fails if the other thread renamed the file away.
Chmod(t) ==
  /\ At(t, "chmod")
  /\ Goto(t, IF tmp = None THEN AfterSave(t) ELSE "rename")
  /\ UNCHANGED <<mem, writer, signals, snap, fd, fileVars, recordVars>>

\* Mutant: the rename does not replace a state file that is there.
RenameOnce(t) ==
  /\ At(t, "rename")
  /\ Goto(t, AfterSave(t))
  /\ IF tmp = None \/ state # None THEN UNCHANGED <<state, tmp>>
     ELSE state' = tmp /\ tmp' = None
  /\ UNCHANGED <<mem, writer, signals, snap, fd, content, recordVars>>

Rename(t) ==
  /\ At(t, "rename")
  /\ Goto(t, AfterSave(t))
  /\ IF tmp = None THEN UNCHANGED <<state, tmp>>
     ELSE state' = tmp /\ tmp' = None
  /\ UNCHANGED <<mem, writer, signals, snap, fd, content, recordVars>>

\* A file operation fails; a write that fails may leave part of the bytes.  save
\* returns the error, its caller logs it and goes on as if it had succeeded.
Fault(t) ==
  /\ t \in Savers
  /\ pc[t] \in {"open", "write", "chmod", "rename"}
  /\ faults < MaxFaults
  /\ faults' = faults + 1
  /\ failed' = TRUE
  /\ Goto(t, AfterSave(t))
  /\ \/ UNCHANGED content
     \/ /\ pc[t] = "write"
        /\ content' = [content EXCEPT ![fd[t]].data = Garbled]
  /\ fd' = [fd EXCEPT ![t] = None]
  /\ UNCHANGED <<mem, writer, signals, snap, state, tmp, changes, stops, crashes>>

Save(t) == Open(t) \/ Write(t) \/ Chmod(t) \/ Rename(t)

-----------------------------------------------------------------------------
(* The persist task of run_daemon *)

\* recv, then the debounce sleep.
PersistRecv ==
  /\ pc["persist"] = "recv"
  /\ signals > 0
  /\ signals' = signals - 1
  /\ Goto("persist", "debounce")
  /\ UNCHANGED <<mem, writer, snap, fd, fileVars, recordVars>>

PersistDrain ==
  /\ pc["persist"] = "debounce"
  /\ signals' = 0
  /\ Goto("persist", "snapshot")
  /\ UNCHANGED <<mem, writer, snap, fd, fileVars, recordVars>>

PersistSnapshot ==
  /\ pc["persist"] = "snapshot"
  /\ snap' = [snap EXCEPT !["persist"] = mem]
  /\ Goto("persist", "open")
  /\ failed' = (failed /\ pc["main"] \notin {"run", "join"})
  /\ UNCHANGED <<mem, writer, signals, fd, fileVars, changes, stops, crashes, faults>>

-----------------------------------------------------------------------------
(* The connection tasks: a change under the lock, then the signal *)

Change(w) ==
  /\ pc["main"] \in {"run", "join"}
  /\ writer[w] = "idle"
  /\ changes < MaxChanges
  /\ changes' = changes + 1
  /\ \E v \in Values \ {mem} : mem' = v
  /\ writer' = [writer EXCEPT ![w] = "signal"]
  /\ UNCHANGED <<signals, pc, snap, fd, fileVars, stops, crashes, faults, failed>>

\* Mutant: the channel has no limit.
SignalUnbounded(w) ==
  /\ pc["main"] \in {"run", "join"}
  /\ writer[w] = "signal"
  /\ signals' = signals + 1
  /\ writer' = [writer EXCEPT ![w] = "idle"]
  /\ UNCHANGED <<mem, pc, snap, fd, fileVars, recordVars>>

\* Mutant: a signal is kept only while the persist task is waiting for one.
SignalWhenWaiting(w) ==
  /\ pc["main"] \in {"run", "join"}
  /\ writer[w] = "signal"
  /\ signals' = IF signals < PersistCapacity /\ pc["persist"] = "recv"
                THEN signals + 1 ELSE signals
  /\ writer' = [writer EXCEPT ![w] = "idle"]
  /\ UNCHANGED <<mem, pc, snap, fd, fileVars, recordVars>>

\* try_send drops the signal when the channel is full.
Signal(w) ==
  /\ pc["main"] \in {"run", "join"}
  /\ writer[w] = "signal"
  /\ signals' = IF signals < PersistCapacity THEN signals + 1 ELSE signals
  /\ writer' = [writer EXCEPT ![w] = "idle"]
  /\ UNCHANGED <<mem, pc, snap, fd, fileVars, recordVars>>

-----------------------------------------------------------------------------
(* run_daemon: shutdown, crash and start *)

Shutdown ==
  /\ pc["main"] = "run"
  /\ stops < MaxStops
  /\ stops' = stops + 1
  /\ Goto("main", "join")
  /\ UNCHANGED <<mem, writer, signals, snap, fd, fileVars, changes, crashes, faults,
                 failed>>

\* The connection tasks are joined; the final flush takes its snapshot.
FinalSnapshot ==
  /\ pc["main"] = "join"
  /\ \A w \in Writers : writer[w] = "idle"
  /\ snap' = [snap EXCEPT !["main"] = mem]
  /\ Goto("main", "open")
  /\ failed' = FALSE
  /\ UNCHANGED <<mem, writer, signals, fd, fileVars, changes, stops, crashes, faults>>

\* Mutant: the process exits without waiting for the persist task.
ExitAtOnce ==
  /\ pc["main"] = "await"
  /\ Goto("main", "exited")
  /\ UNCHANGED <<mem, writer, signals, snap, fd, fileVars, recordVars>>

\* The last sender is dropped: the persist task ends once the channel is empty.
Exit ==
  /\ pc["main"] = "await"
  /\ pc["persist"] = "recv"
  /\ signals = 0
  /\ Goto("main", "exited")
  /\ UNCHANGED <<mem, writer, signals, snap, fd, fileVars, recordVars>>

\* The process is killed: what is on disk is all that is left.
Crash ==
  /\ pc["main"] \notin {"exited", "dead"}
  /\ crashes < MaxCrashes
  /\ crashes' = crashes + 1
  /\ Goto("main", "dead")
  /\ UNCHANGED <<mem, writer, signals, snap, fd, fileVars, changes, stops, faults,
                 failed>>

\* A new process: a new pid, so a temporary file left behind is out of its way.
Start ==
  /\ pc["main"] \in {"exited", "dead"}
  /\ mem' = Load
  /\ writer' = [w \in Writers |-> "idle"]
  /\ signals' = 0
  /\ pc' = [t \in Savers |-> IF t = "persist" THEN "recv" ELSE "run"]
  /\ snap' = [t \in Savers |-> Default]
  /\ fd' = [t \in Savers |-> None]
  /\ tmp' = None
  /\ failed' = FALSE
  /\ UNCHANGED <<state, content, changes, stops, crashes, faults>>

-----------------------------------------------------------------------------

\* The first start on a host: no state file.
Init ==
  /\ mem = Default
  /\ writer = [w \in Writers |-> "idle"]
  /\ signals = 0
  /\ pc = [t \in Savers |-> IF t = "persist" THEN "recv" ELSE "run"]
  /\ snap = [t \in Savers |-> Default]
  /\ fd = [t \in Savers |-> None]
  /\ state = None
  /\ tmp = None
  /\ content = [i \in Inodes |-> Truncated]
  /\ changes = 0 /\ stops = 0 /\ crashes = 0 /\ faults = 0 /\ failed = FALSE

Alive == pc["main"] \notin {"exited", "dead"}

PersistTask ==
  Alive /\ (PersistRecv \/ PersistDrain \/ PersistSnapshot \/ Save("persist"))

Main == FinalSnapshot \/ Save("main") \/ Exit

Next ==
  \/ \E w \in Writers : Change(w) \/ Signal(w)
  \/ PersistTask
  \/ Main
  \/ \E t \in Savers : Alive /\ Fault(t)
  \/ Shutdown \/ Crash \/ Start

Spec == Init /\ [][Next]_vars

\* Ready threads run; nobody has to send anything, stop the daemon or start it.
Fairness ==
  /\ WF_vars(PersistTask)
  /\ WF_vars(Main)
  /\ \A w \in Writers : WF_vars(Signal(w))

FairSpec == Spec /\ Fairness

-----------------------------------------------------------------------------
(* Properties *)

TypeOK ==
  /\ mem \in Values
  /\ writer \in [Writers -> {"idle", "signal"}]
  /\ signals \in 0..PersistCapacity
  /\ pc \in [Savers -> {"recv", "debounce", "snapshot", "run", "join", "open", "write",
                        "chmod", "rename", "await", "exited", "dead"}]
  /\ snap \in [Savers -> Values]
  /\ fd \in [Savers -> Inodes \cup {None}]
  /\ state \in Inodes \cup {None}
  /\ tmp \in Inodes \cup {None}
  /\ content \in [Inodes -> Content]
  /\ changes \in Nat /\ stops \in Nat /\ crashes \in Nat /\ faults \in Nat /\ failed \in BOOLEAN

Saving(t) == pc[t] \in {"open", "write", "chmod", "rename"}

\* A live daemon's slice is what a restart would load, or a signal, a writer about
\* to signal, or a save in progress of that very slice is still there to make it
\* so: no change is ever forgotten, by the debounce, by a full channel or by a stale
\* snapshot renamed late.  A save that fails is not retried, but costs only itself:
\* from the next slice that is taken on nothing is forgotten, whatever it left behind.
NoLostUpdate ==
  (Alive /\ ~failed) =>
    \/ Load = mem
    \/ signals > 0
    \/ \E w \in Writers : writer[w] = "signal"
    \/ pc["persist"] \in {"debounce", "snapshot"}
    \/ \E t \in Savers : Saving(t) /\ snap[t] = mem

\* After an orderly exit the state file holds the daemon's last slice, although
\* the final flush and the persist task may have fought over one temporary file and
\* earlier saves may have failed and left theirs.
CleanExitSaved == (pc["main"] = "exited" /\ ~failed) => Load = mem

\* Until the final flush begins no step, and no crash, turns a state file that can
\* be read into one that cannot, whatever file operations fail.
StaysParseable ==
  [][pc["main"] \in {"run", "join"} /\ Parseable => Parseable']_vars

\* Whatever a live or orderly stopped daemon last had in memory is on disk in the
\* end, even if nobody asks it for anything any more, unless its save failed.
EventuallySaved == []<>(Load = mem \/ pc["main"] = "dead" \/ failed)

\* The state file is never partially written.
NeverPartial == Parseable
=============================================================================
