---------------------------- MODULE ReloadProofs ----------------------------
(***************************************************************************)
(* Proofs about Reload, for every number of daemons, subscribers, reloads, *)
(* installations and changes: the type invariant, that a reload which      *)
(* failed early has touched nothing, that a handover which waited for the  *)
(* old daemon keeps the socket and the journal, and that a subscriber's    *)
(* delay follows its failures.                                             *)
(***************************************************************************)
EXTENDS Reload, FiniteSetTheorems, WellFoundedInduction, TLAPS

\* Pids are numbers.
LEMMA PidsAreNumbers == Daemons \subseteq Nat
BY LoopAssumption, FS_CardinalityType

\* A set of pids that is not empty has a smallest one.
LEMMA SmallestOf ==
  ASSUME NEW pids, pids \subseteq Daemons, pids # {}
  PROVE  Smallest(pids) \in pids
<1>1. pids \subseteq Nat
  BY PidsAreNumbers
<1>2. PICK d \in pids : \A e \in pids : ~ (<<e, d>> \in OpToRel(<, Nat))
  BY <1>1, NatLessThanWellFounded, WFMin
<1>3. \A e \in pids : d <= e
  <2> SUFFICES ASSUME NEW e \in pids PROVE d <= e
    OBVIOUS
  <2>1. d \in Nat /\ e \in Nat
    BY <1>1
  <2>2. <<e, d>> \in Nat \X Nat /\ <<e, d>>[1] = e /\ <<e, d>>[2] = d
    BY <2>1
  <2>3. ~ (e < d)
    BY <1>2, <2>2 DEF OpToRel
  <2> QED BY <2>1, <2>3
<1> QED BY <1>2, <1>3 DEF Smallest

\* The doctor finds a daemon that is alive, or none.
LEMMA FoundDaemon ==
  ASSUME TypeOK
  PROVE  FindDaemon # None => FindDaemon \in Daemons /\ Alive(FindDaemon)
<1> DEFINE seen == {d \in visible : Alive(d)}
<1>1. seen \subseteq Daemons
  BY DEF TypeOK, ProcessTypes
<1>2. CASE seen = {}
  BY <1>2 DEF FindDaemon
<1>3. CASE seen # {}
  <2>1. FindDaemon = Smallest(seen)
    BY <1>3 DEF FindDaemon
  <2>2. Smallest(seen) \in seen
    BY <1>1, <1>3, SmallestOf
  <2> QED BY <1>1, <2>1, <2>2
<1> QED BY <1>2, <1>3

\* A process that is started had not been used.
LEMMA NextUnused ==
  ASSUME Unused # {}
  PROVE  NextDaemon \in Daemons /\ proc[NextDaemon] = "unused"
BY SmallestOf DEF NextDaemon, Unused

-----------------------------------------------------------------------------
(* Type correctness *)

\* Forgetting options only clears them.
LEMMA OptionsTyped ==
  /\ NoOptions \in Options /\ ~NoOptions.dry
  /\ \A o \in Options : o.dry \in BOOLEAN
BY DEF NoOptions, Options

LEMMA ForgetTyped ==
  ASSUME options \in Options, NEW fields, Forget(fields)
  PROVE  options' \in Options /\ options'.dry = (options.dry /\ "dry" \notin fields)
BY DEF Forget, Options

\* The initial state is well typed.
THEOREM TypeInit == Init => TypeOK
<1> SUFFICES ASSUME Init PROVE TypeOK
  OBVIOUS
<1>1. ProcessTypes
  <2>1. beside \in BOOLEAN
    BY DEF Init
  <2> QED BY <2>1, ReloadAssumption DEF Init, ProcessTypes
<1>2. LoopTypes
  BY LoopAssumption DEF Init, LoopInit, LoopTypes
<1>3. ReloadTypes
  <2>1. options \in Options /\ exe \in 0..MaxInstalls /\ reloads \in 0..MaxReloads
    BY ReloadAssumption, OptionsTyped DEF Init
  <2>2. touched \in BOOLEAN /\ undrained \in BOOLEAN
    BY DEF Init
  <2> QED BY <2>1, <2>2 DEF Init, ReloadTypes
<1> QED BY <1>1, <1>2, <1>3 DEF TypeOK

\* What is left of a process that ended.
LEMMA DeathTyped ==
  ASSUME ProcessTypes, LoopTypes, NEW d \in Daemons, Die(d)
  PROVE  /\ image' \in [Daemons -> 0..MaxInstalls] /\ memory' \in [Daemons -> 0..MaxChanges]
         /\ signalled' \subseteq Daemons
         /\ listed' \in [Daemons -> SUBSET Subscribers]
BY ReloadAssumption DEF ProcessTypes, LoopTypes, Die

\* Steps of the daemon processes.
LEMMA ProcessTyped ==
  ASSUME TypeOK, NEW d \in Daemons, Process(d),
         UNCHANGED <<installed, reloadVars, subscriberVars>>
  PROVE  TypeOK'
<1>1. ProcessTypes' /\ listed' \in [Daemons -> SUBSET Subscribers]
  <2> USE DEF TypeOK, ProcessTypes, LoopTypes, DStep
  <2>1. CASE Unlink(d)
    BY <2>1 DEF Unlink
  <2>2. CASE Bind(d)
    BY <2>2 DEF Bind
  <2>3. CASE Change(d)
    BY <2>3, ReloadAssumption DEF Change
  <2>4. CASE Shutdown(d)
    <3>1. CASE DStep(d, "serving", "draining") /\ UNCHANGED <<image, signalled, memory, listed>>
      BY <2>4, <3>1 DEF Shutdown
    <3>2. CASE Die(d) /\ \E early \in {"starting", "binding", "deaf"} : DStep(d, early, "exited")
      BY <2>4, <3>2, DeathTyped DEF Shutdown
    <3> QED BY <2>4, <3>1, <3>2 DEF Shutdown
  <2>5. CASE Exit(d)
    <3>1. disk' \in 0..MaxChanges /\ saved' \in 0..MaxChanges
      BY <2>5 DEF Exit, Flushed
    <3> QED BY <2>5, <3>1, DeathTyped DEF Exit
  <2> QED BY <2>1, <2>2, <2>3, <2>4, <2>5 DEF Process
<1>2. LoopTypes' /\ ReloadTypes'
  BY <1>1 DEF TypeOK, LoopTypes, ReloadTypes, subscriberVars, reloadVars
<1> QED BY <1>1, <1>2 DEF TypeOK

\* A process that is started.
LEMMA SpawnTyped ==
  ASSUME ProcessTypes, Unused # {}, NEW r, Spawn(NextDaemon, r), UNCHANGED installed,
         visible' \subseteq Daemons
  PROVE  ProcessTypes'
BY NextUnused DEF ProcessTypes, Spawn

\* A command that ends.
LEMMA FinishTyped ==
  ASSUME ReloadTypes, NEW outcome \in {"failed", "error", "stranded", "reloaded", "degraded"},
         Finish(outcome), undrained' \in BOOLEAN, reloads' \in 0..MaxReloads
  PROVE  ReloadTypes'
<1>1. touched' \in BOOLEAN
  BY DEF Finish
<1>2. options' \in Options /\ exe' \in 0..MaxInstalls
  BY OptionsTyped, ReloadAssumption DEF Finish
<1> QED BY <1>1, <1>2 DEF ReloadTypes, Finish

\* Steps of the reload command.
LEMMA CommandTyped ==
  ASSUME TypeOK, Command, UNCHANGED loopVars
  PROVE  TypeOK'
<1>1. ProcessTypes'
  <2> USE DEF TypeOK, ProcessTypes, processVars
  <2>1. CASE Start \/ Preflight \/ Snapshot \/ Wait \/ Poll
    BY <2>1 DEF Start, Preflight, Snapshot, Wait, Poll
  <2>2. CASE Build
    BY <2>2, ReloadAssumption DEF Build
  <2>3. CASE Kill
    BY <2>3 DEF Kill, Alive, ReloadTypes
  <2>4. CASE Launch
    <3>1. CASE UNCHANGED processVars
      BY <2>4, <3>1 DEF Launch
    <3>2. CASE Unused # {} /\ Spawn(NextDaemon, target) /\ UNCHANGED visible
      BY <2>4, <3>2, SpawnTyped DEF Launch
    <3> QED BY <2>4, <3>1, <3>2 DEF Launch
  <2> QED BY <2>1, <2>2, <2>3, <2>4 DEF Command
<1>2. ReloadTypes'
  <2> USE DEF ReloadTypes, Goto
  <2>0. ReloadTypes
    BY DEF TypeOK
  <2>1. CASE Start
    <3>1. options' \in Options /\ reloads' \in 0..MaxReloads /\ exe' \in 0..MaxInstalls
      BY <2>0, <2>1, ReloadAssumption DEF Start, TypeOK, ProcessTypes
    <3>2. touched' \in BOOLEAN /\ undrained' \in BOOLEAN
      BY <2>0, <2>1 DEF Start
    <3>3. /\ rpc' = "preflight" /\ status' = "none"
          /\ target' \in Daemons \cup {None} /\ before' \subseteq Subscribers
      BY <2>0, <2>1 DEF Start
    <3> QED BY <3>1, <3>2, <3>3
  <2>2. CASE Preflight
    <3>1. FindDaemon \in Daemons \cup {None}
      BY FoundDaemon
    <3>2. CASE \E o \in {"error", "failed", "reloaded"} : Finish(o)
      BY <2>0, <2>2, <3>2, FinishTyped DEF Preflight
    <3>3. CASE /\ Goto("snapshot") /\ Forget({"fresh", "absent"})
               /\ target' = FindDaemon /\ UNCHANGED <<before, touched>>
      BY <2>0, <2>2, <3>1, <3>3, ForgetTyped DEF Preflight
    <3> QED BY <2>2, <3>2, <3>3 DEF Preflight
  <2>3. CASE Snapshot
    <3>1. Listed \subseteq Subscribers
      BY DEF Listed, Accepting, TypeOK, ProcessTypes, LoopTypes
    <3>2. CASE PlanOnly
      BY <2>0, <2>3, <3>2, FinishTyped DEF Snapshot
    <3>3. CASE ~PlanOnly
      BY <2>0, <2>3, <3>1, <3>3, ForgetTyped DEF Snapshot, Bounce
    <3> QED BY <3>2, <3>3
  <2>4. CASE Build
    <3>1. CASE Finish("error")
      BY <2>0, <2>4, <3>1, FinishTyped DEF Build
    <3>2. CASE Bounce /\ UNCHANGED <<target, before, touched>>
      BY <2>0, <2>4, <3>2, ForgetTyped DEF Build, Bounce
    <3> QED BY <2>4, <3>1, <3>2 DEF Build
  <2>5. CASE Kill
    <3>1. CASE Finish("error")
      BY <2>0, <2>5, <3>1, FinishTyped DEF Kill
    <3>2. CASE Goto("wait") /\ touched' = TRUE /\ UNCHANGED <<options, target, before>>
      BY <2>0, <2>5, <3>2 DEF Kill
    <3> QED BY <2>5, <3>1, <3>2 DEF Kill
  <2>6. CASE Wait
    BY <2>0, <2>6 DEF Wait, Gone, Alive
  <2>7. CASE Launch
    <3>1. CASE \E o \in {"stranded", "reloaded"} : Finish(o)
      BY <2>0, <2>7, <3>1, FinishTyped DEF Launch
    <3>2. CASE Goto("poll") /\ touched' = TRUE /\ UNCHANGED <<options, target, before>>
      BY <2>0, <2>7, <3>2 DEF Launch
    <3> QED BY <2>7, <3>1, <3>2 DEF Launch
  <2>8. CASE Poll
    <3>1. \E o \in {"reloaded", "degraded"} : Finish(o)
      BY <2>8 DEF Poll
    <3> QED BY <2>0, <2>8, <3>1, FinishTyped DEF Poll
  <2> QED BY <2>1, <2>2, <2>3, <2>4, <2>5, <2>6, <2>7, <2>8 DEF Command
<1>3. LoopTypes'
  BY DEF TypeOK, LoopTypes, loopVars, subscriberVars
<1> QED BY <1>1, <1>2, <1>3 DEF TypeOK

\* Counters stay within their width.
LEMMA CounterTyped ==
  ASSUME NEW n \in 0..MaxCount
  PROVE  SaturatingInc(n) \in 0..MaxCount
BY LoopAssumption DEF SaturatingInc, Least

\* Steps of the subscribers leave the daemons alone.
LEMMA LoopAlone ==
  ASSUME NEW s \in Subscribers, Loop(s) \/ Leave(s)
  PROVE  UNCHANGED <<proc, sock>>
BY DEF Loop, Connect, Handshake, HandshakeFails, Eof, Again, Leave, Unchanged

\* Steps of the subscribers.
LEMMA LoopTyped ==
  ASSUME TypeOK, NEW s \in Subscribers, Loop(s) \/ Leave(s),
         UNCHANGED <<image, visible, signalled, memory, disk, beside, saved, installed, reloadVars>>
  PROVE  TypeOK'
<1>1. LoopTypes'
  <2> USE DEF LoopTypes, At, Unchanged
  <2>0. LoopTypes /\ (sock # None => sock \in Daemons)
    BY DEF TypeOK, ProcessTypes
  <2>1. 0 \in 0..MaxCount
    BY LoopAssumption
  <2>2. attempt[s] \in 0..MaxCount /\ failures[s] \in 0..MaxCount
    BY <2>0
  <2>3. SaturatingInc(attempt[s]) \in 0..MaxCount /\ SaturatingInc(failures[s]) \in 0..MaxCount
    BY <2>2, CounterTyped
  <2>4. CASE Connect(s)
    BY <2>0, <2>3, <2>4 DEF Connect, Fail, Accepting
  <2>5. CASE Handshake(s)
    BY <2>0, <2>1, <2>5 DEF Handshake, ResetAttempt, Serving
  <2>6. CASE HandshakeFails(s)
    BY <2>0, <2>3, <2>6 DEF HandshakeFails, Fail
  <2>7. CASE Eof(s)
    BY <2>0, <2>3, <2>7 DEF Eof, Fail
  <2>8. CASE Again(s)
    BY <2>0, <2>3, <2>8 DEF Again
  <2>9. CASE Leave(s)
    BY <2>0, <2>9 DEF Leave, Unlist
  <2> QED BY <2>4, <2>5, <2>6, <2>7, <2>8, <2>9 DEF Loop
<1>2. ProcessTypes' /\ ReloadTypes'
  BY LoopAlone DEF TypeOK, ProcessTypes, ReloadTypes, reloadVars
<1> QED BY <1>1, <1>2 DEF TypeOK

\* Every step keeps the types.
THEOREM TypeStep == TypeOK /\ [Next]_vars => TypeOK'
<1> SUFFICES ASSUME TypeOK, [Next]_vars PROVE TypeOK'
  OBVIOUS
<1> USE DEF TypeOK, processVars, reloadVars, loopVars, subscriberVars
<1>1. CASE StartByHand /\ UNCHANGED loopVars
  <2>1. visible' \subseteq Daemons
    BY <1>1, NextUnused DEF StartByHand, ProcessTypes
  <2>2. ProcessTypes'
    BY <1>1, <2>1, SpawnTyped DEF StartByHand
  <2> QED BY <1>1, <2>2 DEF StartByHand, LoopTypes, ReloadTypes
<1>2. CASE Install /\ UNCHANGED loopVars
  BY <1>2, ReloadAssumption DEF Install, ProcessTypes, LoopTypes, ReloadTypes
<1>3. CASE UNCHANGED vars
  BY <1>3 DEF vars, ProcessTypes, LoopTypes, ReloadTypes
<1> QED BY <1>1, <1>2, <1>3, ProcessTyped, CommandTyped, LoopTyped DEF Next

\* Every reachable state is well typed.
THEOREM TypeCorrect == Spec => []TypeOK
BY TypeInit, TypeStep, PTL DEF Spec

-----------------------------------------------------------------------------
(* A reload that failed early has touched nothing *)

\* Up to the signal nothing is touched, and a dry run never gets that far.
EarlyInv ==
  /\ rpc \in {"idle", "preflight", "snapshot", "build", "kill"} => ~touched
  /\ rpc \in {"build", "kill", "wait", "launch", "poll"} => ~options.dry
  /\ rpc # "idle" => status = "none"

\* Nothing has been asked of a reload at first.
LEMMA EarlyInit == Init => EarlyInv
BY DEF Init, EarlyInv

\* Every step keeps the early steps harmless.
LEMMA EarlyStep ==
  ASSUME TypeOK, EarlyInv, [Next]_vars
  PROVE  EarlyInv'
<1> USE DEF EarlyInv, Goto, Finish
<1>0. options \in Options
  BY DEF TypeOK, ReloadTypes
<1>1. CASE Start
  BY <1>1 DEF Start
<1>2. CASE Preflight
  BY <1>0, <1>2, ForgetTyped DEF Preflight
<1>3. CASE Snapshot
  BY <1>0, <1>3, ForgetTyped DEF Snapshot, PlanOnly, Bounce
<1>4. CASE Build
  <2>1. CASE Finish("error")
    BY <2>1
  <2>2. CASE Bounce /\ UNCHANGED touched
    <3>1. ~options'.dry
      BY <1>0, <1>4, <2>2, ForgetTyped DEF Build, Bounce
    <3> QED BY <1>4, <2>2, <3>1 DEF Build, Bounce
  <2> QED BY <1>4, <2>1, <2>2 DEF Build
<1>5. CASE Kill
  BY <1>5 DEF Kill
<1>6. CASE Wait
  BY <1>6 DEF Wait
<1>7. CASE Launch
  BY <1>7 DEF Launch
<1>8. CASE Poll
  BY <1>8 DEF Poll
<1>9. CASE UNCHANGED reloadVars
  BY <1>9 DEF reloadVars
<1> QED BY <1>1, <1>2, <1>3, <1>4, <1>5, <1>6, <1>7, <1>8, <1>9
        DEF Next, Command, StartByHand, Install, vars

\* Only the last step of the command leaves its states.
LEMMA CommandEnds ==
  ASSUME [Next]_vars, rpc # "idle", rpc' = "idle"
  PROVE  Preflight \/ Snapshot \/ Build \/ Kill \/ Launch \/ Poll
BY DEF Next, Command, Start, Wait, Goto, StartByHand, Install, vars, reloadVars

\* A reload that was refused, planned only, or failed in its tools, the build, the
\* installation or the signal has neither signalled a daemon nor started one, whatever the
\* options and the timing of installations and of the other processes.
THEOREM EarlyFailure == Spec => Untouched
<1>1. ASSUME TypeOK, EarlyInv, [Next]_vars, rpc # "idle", rpc' = "idle",
             options.dry \/ status' \in {"failed", "error"}
      PROVE  ~touched /\ proc' = proc
  <2> USE DEF EarlyInv, Finish, processVars
  <2>1. CASE Preflight
    BY <1>1, <2>1 DEF Preflight
  <2>2. CASE Snapshot
    BY <1>1, <2>2 DEF Snapshot
  <2>3. CASE Build
    BY <1>1, <2>3 DEF Build
  <2>4. CASE Kill
    BY <1>1, <2>4 DEF Kill
  <2>5. CASE Launch
    BY <1>1, <2>5 DEF Launch, Goto
  <2>6. CASE Poll
    BY <1>1, <2>6 DEF Poll
  <2> QED BY <1>1, <2>1, <2>2, <2>3, <2>4, <2>5, <2>6, CommandEnds
<1>2. TypeOK /\ EarlyInv /\ [Next]_vars =>
        [rpc # "idle" /\ rpc' = "idle" /\ (options.dry \/ status' \in {"failed", "error"})
           => ~touched /\ proc' = proc]_vars
  BY <1>1
<1> QED BY TypeInit, TypeStep, EarlyInit, EarlyStep, <1>2, PTL DEF Spec, Untouched

-----------------------------------------------------------------------------
(* A handover that waited for the old daemon *)

\* A reload that waited launches where its target is gone.  As long as every reload
\* waited and nobody started a daemon beside another, at most one process is alive; if
\* it serves it has the socket path, and it knows what was saved.
HandoverInv ==
  /\ target # None => proc[target] # "unused"
  /\ rpc \in {"launch", "poll"} /\ ~undrained => ~Alive(target)
  /\ ~undrained /\ ~beside =>
       /\ \A d, e \in Daemons : Alive(d) /\ Alive(e) => d = e
       /\ \A d \in Daemons : proc[d] = "serving" => sock = d
       /\ \A d \in Daemons : Serving(d) => memory[d] >= saved
       /\ disk >= saved

\* No process is there at first.
LEMMA HandoverInit == Init => HandoverInv
BY DEF Init, HandoverInv, Serving, Alive

\* A step of a process brings none to life.
LEMMA ProcessAlive ==
  ASSUME TypeOK, NEW d \in Daemons, Process(d)
  PROVE  /\ Alive(d)
         /\ \A e \in Daemons : Alive(e)' => Alive(e)
         /\ \A e \in Daemons : proc[e] # "unused" => proc'[e] # "unused"
         /\ \A e \in Daemons \ {d} : proc'[e] = proc[e]
         /\ UNCHANGED beside
<1> USE DEF TypeOK, ProcessTypes, DStep, Alive
<1>0. None \notin Daemons
  BY LoopAssumption
<1>1. CASE Unlink(d)
  BY <1>0, <1>1 DEF Unlink
<1>2. CASE Bind(d)
  BY <1>0, <1>2 DEF Bind
<1>3. CASE Change(d)
  BY <1>0, <1>3 DEF Change, Serving
<1>4. CASE Shutdown(d)
  BY <1>0, <1>4 DEF Shutdown
<1>5. CASE Exit(d)
  BY <1>0, <1>5 DEF Exit
<1> QED BY <1>1, <1>2, <1>3, <1>4, <1>5 DEF Process

\* A process that is alone keeps the socket path as long as it serves, and the journal.
LEMMA AloneKept ==
  ASSUME TypeOK, HandoverInv, ~undrained, ~beside, NEW d \in Daemons, Process(d)
  PROVE  /\ proc'[d] = "serving" => sock' = d
         /\ Serving(d)' => memory'[d] >= saved'
         /\ disk' >= saved'
<1> USE DEF TypeOK, ProcessTypes, DStep, Serving
<1>0. /\ disk >= saved /\ (Serving(d) => memory[d] >= saved) /\ (proc[d] = "serving" => sock = d)
      /\ disk \in Nat /\ saved \in Nat /\ memory \in [Daemons -> Nat]
      /\ d # None
  BY LoopAssumption, ReloadAssumption DEF HandoverInv
<1>1. CASE Unlink(d)
  BY <1>0, <1>1 DEF Unlink
<1>2. CASE Bind(d)
  BY <1>0, <1>2 DEF Bind
<1>3. CASE Change(d)
  BY <1>0, <1>3 DEF Change
<1>4. CASE Shutdown(d)
  BY <1>0, <1>4 DEF Shutdown
<1>5. CASE Exit(d)
  <2>1. proc'[d] = "exited" /\ memory[d] >= saved /\ memory[d] \in Nat
    BY <1>0, <1>5 DEF Exit
  <2>2. CASE UNCHANGED <<disk, saved>>
    BY <1>0, <2>1, <2>2
  <2>3. CASE disk' = memory[d] /\ saved' = IF saved >= memory[d] THEN saved ELSE memory[d]
    BY <1>0, <2>1, <2>3
  <2> QED BY <1>5, <2>1, <2>2, <2>3 DEF Exit, Flushed
<1> QED BY <1>1, <1>2, <1>3, <1>4, <1>5 DEF Process

\* A process that is started where nobody else is alive but the one it replaces, and
\* that one is gone, is alone.
LEMMA SpawnAlone ==
  ASSUME TypeOK, HandoverInv, Unused # {}, NEW r \in Daemons \cup {None}, Spawn(NextDaemon, r),
         ~undrained /\ ~beside => ~Alive(r), UNCHANGED undrained
  PROVE  /\ \A e \in Daemons : proc[e] # "unused" => proc'[e] = proc[e]
         /\ beside => beside'
         /\ ~undrained' /\ ~beside' =>
              /\ \A d, e \in Daemons : Alive(d)' /\ Alive(e)' => d = e
              /\ \A d \in Daemons : proc'[d] = "serving" => sock' = d
              /\ \A d \in Daemons : Serving(d)' => memory'[d] >= saved'
              /\ disk' >= saved'
<1>1. /\ NextDaemon \in Daemons /\ proc[NextDaemon] = "unused"
      /\ proc' = [proc EXCEPT ![NextDaemon] = "starting"]
      /\ UNCHANGED <<sock, memory, disk, saved>>
      /\ beside' = (beside \/ \E e \in Daemons \ {r} : Alive(e))
      /\ None \notin Daemons
  BY NextUnused, LoopAssumption DEF Spawn
<1>2. beside \in BOOLEAN /\ proc \in [Daemons -> {"unused", "starting", "binding", "serving",
                                                  "deaf", "draining", "exited"}]
  BY DEF TypeOK, ProcessTypes
<1>3. /\ proc'[NextDaemon] = "starting"
      /\ \A e \in Daemons \ {NextDaemon} : proc'[e] = proc[e]
  BY <1>1, <1>2
<1>4. beside => beside'
  BY <1>1, <1>2
<1>5. ASSUME ~undrained', ~beside'
      PROVE  /\ \A d \in Daemons : ~Alive(d)
             /\ disk >= saved
  <2>1. ~undrained /\ ~beside /\ \A e \in Daemons \ {r} : ~Alive(e)
    BY <1>1, <1>5
  <2>2. ~Alive(r)
    BY <2>1
  <2> QED BY <2>1, <2>2 DEF HandoverInv
<1>6. ASSUME ~undrained', ~beside', NEW d \in Daemons, proc'[d] \notin {"unused", "exited"}
      PROVE  d = NextDaemon /\ proc'[d] = "starting"
  BY <1>1, <1>3, <1>5, <1>6 DEF Alive
<1>7. ASSUME ~undrained', ~beside'
      PROVE  /\ \A d, e \in Daemons : Alive(d)' /\ Alive(e)' => d = e
             /\ \A d \in Daemons : proc'[d] = "serving" => sock' = d
             /\ \A d \in Daemons : Serving(d)' => memory'[d] >= saved'
             /\ disk' >= saved'
  BY <1>1, <1>5, <1>6, <1>7 DEF Alive, Serving
<1> QED BY <1>1, <1>3, <1>4, <1>7

\* Every step keeps the handover in order.
LEMMA HandoverStep ==
  ASSUME TypeOK, HandoverInv, [Next]_vars
  PROVE  HandoverInv'
<1>0. target \in Daemons \cup {None} /\ None \notin Daemons
  BY LoopAssumption DEF TypeOK, ReloadTypes
<1>1. ASSUME NEW d \in Daemons, Process(d), UNCHANGED <<installed, reloadVars, subscriberVars>>
      PROVE  HandoverInv'
  <2>1. UNCHANGED <<rpc, target, undrained, beside>>
    BY <1>1, ProcessAlive DEF reloadVars
  <2>2. (target # None => proc'[target] # "unused") /\ (~Alive(target) => ~Alive(target)')
    BY <1>0, <1>1, <2>1, ProcessAlive DEF HandoverInv, Alive
  <2>3. ASSUME ~undrained, ~beside
        PROVE  /\ \A x, y \in Daemons : Alive(x)' /\ Alive(y)' => x = y
               /\ \A x \in Daemons : proc'[x] = "serving" => sock' = x
               /\ \A x \in Daemons : Serving(x)' => memory'[x] >= saved'
               /\ disk' >= saved'
    <3>1. \A x \in Daemons : Alive(x) => x = d
      BY <1>1, <2>3, ProcessAlive DEF HandoverInv
    <3>2. \A x \in Daemons : Alive(x)' => x = d
      BY <1>1, <3>1, ProcessAlive
    <3>3. \A x \in Daemons : proc'[x] = "serving" \/ Serving(x)' => Alive(x)'
      BY <1>0 DEF Serving, Alive
    <3>4. /\ proc'[d] = "serving" => sock' = d
          /\ Serving(d)' => memory'[d] >= saved'
          /\ disk' >= saved'
      BY <1>1, <2>3, AloneKept
    <3> QED BY <3>2, <3>3, <3>4
  <2> QED BY <2>1, <2>2, <2>3 DEF HandoverInv, Alive
<1>2. CASE StartByHand
  <2>1. Unused # {} /\ Spawn(NextDaemon, None) /\ UNCHANGED <<rpc, target, undrained>>
    BY <1>2 DEF StartByHand, reloadVars
  <2>2. ~Alive(None)
    BY DEF Alive
  <2> QED BY <1>0, <2>1, <2>2, SpawnAlone DEF HandoverInv, Alive
<1>3. CASE Launch
  <2>1. rpc = "launch" /\ UNCHANGED undrained /\ target' \in {target, None}
    BY <1>3 DEF Launch, Finish
  <2>2. CASE UNCHANGED processVars
    BY <1>0, <1>3, <2>1, <2>2 DEF HandoverInv, Serving, Alive, processVars
  <2>3. CASE Unused # {} /\ Spawn(NextDaemon, target)
    <3>1. ~undrained => ~Alive(target)
      BY <2>1 DEF HandoverInv
    <3> QED BY <1>0, <2>1, <2>3, <3>1, SpawnAlone DEF HandoverInv, Alive
  <2> QED BY <1>3, <2>2, <2>3 DEF Launch
<1>4. ASSUME UNCHANGED <<proc, sock, memory, disk, saved, beside>>, undrained => undrained',
             target' # None => proc[target'] # "unused",
             rpc' \in {"launch", "poll"} /\ ~undrained' => ~Alive(target)' 
      PROVE  HandoverInv'
  BY <1>4 DEF HandoverInv, Serving, Alive
<1>5. CASE Start
  BY <1>5, <1>4 DEF Start, processVars, HandoverInv
<1>6. CASE Preflight
  <2>1. FindDaemon # None => proc[FindDaemon] # "unused"
    BY FoundDaemon DEF Alive
  <2> QED BY <1>4, <1>6, <2>1 DEF Preflight, Goto, Finish, processVars
<1>7. CASE Snapshot \/ Build
  <2>1. target' \in {target, None} /\ (rpc' = "launch" => target' = None) /\ rpc' # "poll"
    BY <1>7 DEF Snapshot, Build, Bounce, Goto, Finish
  <2>2. ~Alive(None)'
    BY DEF Alive
  <2>3. UNCHANGED <<processVars, undrained>>
    BY <1>7 DEF Snapshot, Build
  <2> QED BY <1>4, <2>1, <2>2, <2>3 DEF HandoverInv, processVars
<1>8. CASE Kill
  <2>1. rpc' \in {"wait", "idle"} /\ target' \in {target, None}
        /\ UNCHANGED <<proc, sock, memory, disk, saved, beside, undrained>>
    BY <1>8 DEF Kill, Goto, Finish
  <2> QED BY <1>4, <2>1 DEF HandoverInv
<1>9. CASE Wait
  <2>1. undrained' = (undrained \/ ~Gone(target)) /\ UNCHANGED <<processVars, target>>
    BY <1>9 DEF Wait
  <2>2. (undrained => undrained') /\ (~undrained' => ~Alive(target))
    BY <2>1 DEF Gone
  <2> QED BY <1>4, <2>1, <2>2 DEF HandoverInv, processVars, Alive
<1>10. CASE Poll
  BY <1>4, <1>10 DEF Poll, Finish, processVars
<1>11. CASE UNCHANGED <<processVars, reloadVars>>
  BY <1>4, <1>11 DEF processVars, reloadVars, HandoverInv, Alive
<1>12. ASSUME NEW s \in Subscribers, Loop(s) \/ Leave(s),
              UNCHANGED <<image, visible, signalled, memory, disk, beside, saved, installed,
                          reloadVars>>
       PROVE  HandoverInv'
  BY <1>4, <1>12, LoopAlone DEF reloadVars, HandoverInv, Alive
<1> QED BY <1>1, <1>2, <1>3, <1>5, <1>6, <1>7, <1>8, <1>9, <1>10, <1>11, <1>12
        DEF Next, Command, Install, vars, processVars, reloadVars

\* What is inductive.
ReloadInv == TypeOK /\ EarlyInv /\ HandoverInv

\* It holds in every reachable state.
THEOREM ReloadInvariant == Spec => []ReloadInv
<1>1. Init => ReloadInv
  BY TypeInit, EarlyInit, HandoverInit DEF ReloadInv
<1>2. ReloadInv /\ [Next]_vars => ReloadInv'
  BY TypeStep, EarlyStep, HandoverStep DEF ReloadInv
<1> QED BY <1>1, <1>2, PTL DEF Spec

\* Unless a reload gave up waiting or somebody started a daemon beside another, a serving
\* daemon that is alone has the socket path, in whatever order the old daemon removed its
\* file and the new one bound its own, and whoever sends the signals.
THEOREM SocketHandover == Spec => []SoleService
<1>1. ReloadInv => SoleService
  BY DEF ReloadInv, HandoverInv, SoleService
<1> QED BY ReloadInvariant, <1>1, PTL

\* Under the same condition a serving daemon knows all that any daemon before it saved
\* by its final flush, whether or not other flushes failed.
THEOREM JournalHandover == Spec => []HandoverComplete
<1>1. ReloadInv => HandoverComplete
  BY DEF ReloadInv, HandoverInv, HandoverComplete
<1> QED BY ReloadInvariant, <1>1, PTL

\* A reload that says "reloaded", had sessions to bring back and saw its target end
\* leaves another daemon serving at the socket path.
THEOREM SuccessMeansService == Spec => ReloadedMeansService
<1>1. ASSUME ReloadInv, [Next]_vars, rpc = "poll", status' = "reloaded", before # {}, ~undrained
      PROVE  \E d \in Daemons \ {target} : proc[d] = "serving" /\ sock = d
  <2>1. status = "none"
    BY <1>1 DEF ReloadInv, EarlyInv
  <2>2. Poll
    <3>1. status' # status
      BY <1>1, <2>1
    <3> QED BY <1>1, <3>1 DEF Next, Command, Start, Preflight, Snapshot, Build, Kill, Wait, Launch,
                              StartByHand, Install, vars, reloadVars
  <2>3. Missing(Listed) = {}
    BY <1>1, <2>2 DEF Poll, Finish
  <2>4. Accepting(sock)
    BY <1>1, <2>3 DEF Missing, Listed
  <2>5. sock \in Daemons /\ proc[sock] = "serving"
    BY <1>1, <2>4 DEF Accepting, ReloadInv, TypeOK, ProcessTypes
  <2>6. sock # target
    BY <1>1, <2>4, <2>5 DEF ReloadInv, HandoverInv, Accepting, Alive
  <2> QED BY <2>5, <2>6
<1>2. ReloadInv /\ [Next]_vars =>
        [rpc = "poll" /\ status' = "reloaded" /\ before # {} /\ ~undrained
           => \E d \in Daemons \ {target} : proc[d] = "serving" /\ sock = d]_vars
  BY <1>1
<1> QED BY ReloadInvariant, <1>2, PTL DEF Spec, ReloadedMeansService

-----------------------------------------------------------------------------
(* The delay follows the failures *)

\* A power of two counts the subsets of an interval, so it is a number, and it grows
\* with its exponent.
LEMMA PowersGrow ==
  ASSUME NEW m \in Nat, NEW n \in Nat, m <= n
  PROVE  2 ^ m \in Nat /\ 2 ^ n \in Nat /\ 2 ^ m <= 2 ^ n
<1>1. IsFiniteSet(1..m) /\ Cardinality(1..m) = m /\ IsFiniteSet(1..n) /\ Cardinality(1..n) = n
  BY FS_Interval
<1>2. IsFiniteSet(SUBSET (1..m)) /\ Cardinality(SUBSET (1..m)) = 2 ^ m
  BY <1>1, FS_SUBSET
<1>3. IsFiniteSet(SUBSET (1..n)) /\ Cardinality(SUBSET (1..n)) = 2 ^ n
  BY <1>1, FS_SUBSET
<1>4. SUBSET (1..m) \in SUBSET SUBSET (1..n)
  <2>1. 1..m \subseteq 1..n
    OBVIOUS
  <2> QED BY <2>1
<1>5. Cardinality(SUBSET (1..m)) <= Cardinality(SUBSET (1..n))
  BY <1>3, <1>4, FS_Subset
<1>6. 2 ^ m \in Nat /\ 2 ^ n \in Nat
  BY <1>2, <1>3, FS_CardinalityType
<1> QED BY <1>2, <1>3, <1>5, <1>6

\* The delay that base_ms allows grows with the exponent.
LEMMA DelaysGrow ==
  ASSUME NEW m \in Nat, NEW n \in Nat, m <= n
  PROVE  /\ BaseMs * 2 ^ m \in Nat /\ BaseMs * 2 ^ n \in Nat
         /\ BaseMs * 2 ^ m <= BaseMs * 2 ^ n
<1>1. \A a, b, c \in Nat : b <= c => a * b \in Nat /\ a * c \in Nat /\ a * b <= a * c
  <2> SUFFICES ASSUME NEW a \in Nat, NEW b \in Nat, NEW c \in Nat, b <= c
               PROVE  a * b \in Nat /\ a * c \in Nat /\ a * b <= a * c
    OBVIOUS
  <2>1. PICK d \in Nat : c = b + d
    <3>1. c - b \in Nat /\ c = b + (c - b)
      OBVIOUS
    <3> QED BY <3>1
  <2>2. a * c = a * b + a * d
    BY <2>1
  <2>3. a * b \in Nat /\ a * d \in Nat
    OBVIOUS
  <2> QED BY <2>2, <2>3
<1> QED BY <1>1, PowersGrow, LoopAssumption

\* The window never exceeds the delay that its exponent allows, nor the cap; and
\* it is the smaller of the two when the exponent's limit lies beyond the cap.
LEMMA WindowBounded ==
  ASSUME NEW n \in Nat
  PROVE  /\ Window(n) <= Least(CapMs, BaseMs * 2 ^ n)
         /\ NarrowCap => Window(n) = Least(CapMs, BaseMs * 2 ^ n)
<1> DEFINE limit == Width - 2
           top == 2 ^ Width
           full == BaseMs * 2 ^ n
           most == BaseMs * 2 ^ limit
<1>1. limit \in Nat /\ CapMs \in Nat /\ top \in Nat /\ CapMs < top
  BY LoopAssumption, PowersGrow
<1>2. full \in Nat /\ most \in Nat
  BY <1>1, DelaysGrow
<1>3. CASE n <= limit
  <2>1. Window(n) = Least(CapMs, Least(full, top - 1))
    <3>1. Least(n, limit) = n
      BY <1>1, <1>3 DEF Least
    <3> QED BY <3>1 DEF Window, SaturatingMul
  <2> HIDE DEF full, top
  <2>2. Least(CapMs, Least(full, top - 1)) = Least(CapMs, full)
    BY <1>1, <1>2 DEF Least
  <2> QED BY <1>1, <1>2, <2>1, <2>2 DEF Least, full
<1>4. CASE ~(n <= limit)
  <2>1. Window(n) = Least(CapMs, Least(most, top - 1))
    <3>1. Least(n, limit) = limit
      BY <1>1, <1>4 DEF Least
    <3> QED BY <3>1 DEF Window, SaturatingMul
  <2>2. most <= full
    BY <1>1, <1>4, DelaysGrow
  <2>3. NarrowCap => CapMs <= most \/ (most = 0 /\ full = 0)
    BY <1>1, <1>2, PowersGrow DEF NarrowCap
  <2> HIDE DEF full, most, top, limit
  <2>4. Window(n) <= Least(CapMs, full)
    BY <1>1, <1>2, <2>1, <2>2 DEF Least
  <2>5. NarrowCap => Window(n) = Least(CapMs, full)
    BY <1>1, <1>2, <2>1, <2>2, <2>3 DEF Least
  <2> QED BY <2>4, <2>5 DEF full
<1> QED BY <1>3, <1>4

\* The exponent is the number of failures before the last one, except that a counter
\* which is full stays full.
BackoffInv ==
  \A s \in Subscribers :
    /\ spc[s] \in {"connecting", "handshake", "streaming"} => attempt[s] = failures[s]
    /\ spc[s] = "backoff" => \/ failures[s] = attempt[s] + 1
                             \/ (failures[s] = MaxCount /\ attempt[s] = MaxCount)

\* A failure moves a loop that counts alike to the delay.
LEMMA FailureCounted ==
  ASSUME TypeOK, BackoffInv, NEW s \in Subscribers, Fail(s), UNCHANGED attempt,
         spc[s] \in {"connecting", "handshake", "streaming"}
  PROVE  BackoffInv'
<1>1. attempt[s] = failures[s] /\ failures[s] \in 0..MaxCount /\ MaxCount \in Nat
  BY LoopAssumption DEF BackoffInv, TypeOK, LoopTypes
<1>2. failures'[s] = SaturatingInc(failures[s]) /\ attempt'[s] = attempt[s]
  BY DEF Fail, TypeOK, LoopTypes
<1>3. failures'[s] = attempt'[s] + 1 \/ (failures'[s] = MaxCount /\ attempt'[s] = MaxCount)
  BY <1>1, <1>2 DEF SaturatingInc, Least
<1>4. spc'[s] \in {"ended", "backoff"}
  BY DEF Fail, At, TypeOK, LoopTypes
<1>5. \A t \in Subscribers \ {s} :
        spc'[t] = spc[t] /\ failures'[t] = failures[t] /\ attempt'[t] = attempt[t]
  BY DEF Fail, At, TypeOK, LoopTypes
<1> QED BY <1>3, <1>4, <1>5 DEF BackoffInv

\* Every step of a subscriber counts in both counters or in neither.
LEMMA BackoffStep == TypeOK /\ BackoffInv /\ [Next]_vars => BackoffInv'
<1> SUFFICES ASSUME TypeOK, BackoffInv, [Next]_vars PROVE BackoffInv'
  OBVIOUS
<1>1. CASE UNCHANGED subscriberVars
  BY <1>1 DEF subscriberVars, BackoffInv
<1>2. CASE \E s \in Subscribers : Loop(s) \/ Leave(s)
  <2> PICK s \in Subscribers : Loop(s) \/ Leave(s)
    BY <1>2
  <2>0. /\ spc[s] \in {"connecting", "handshake", "streaming", "backoff", "ended"}
        /\ attempt[s] \in 0..MaxCount /\ failures[s] \in 0..MaxCount /\ MaxCount \in Nat
    BY LoopAssumption DEF TypeOK, LoopTypes
  <2>1. CASE Connect(s)
    <3>1. CASE Accepting(sock)
      <4>1. UNCHANGED <<attempt, failures>> /\ spc' = [spc EXCEPT ![s] = "handshake"]
        BY <2>1, <3>1 DEF Connect, At
      <4> QED BY <2>1, <4>1 DEF BackoffInv, Connect, TypeOK, LoopTypes
    <3>2. CASE ~Accepting(sock)
      BY <2>1, <3>2, FailureCounted DEF Connect
    <3> QED BY <3>1, <3>2
  <2>2. CASE Handshake(s)
    BY <2>2 DEF Handshake, ResetAttempt, At, BackoffInv, TypeOK, LoopTypes
  <2>3. CASE HandshakeFails(s)
    BY <2>3, FailureCounted DEF HandshakeFails
  <2>4. CASE Eof(s)
    BY <2>4, FailureCounted DEF Eof
  <2>5. CASE Again(s)
    <3>1. \/ failures[s] = attempt[s] + 1
          \/ (failures[s] = MaxCount /\ attempt[s] = MaxCount)
      BY <2>5 DEF Again, BackoffInv
    <3>2. SaturatingInc(attempt[s]) = failures[s]
      BY <2>0, <3>1 DEF SaturatingInc, Least
    <3>3. spc'[s] = "connecting" /\ attempt'[s] = failures'[s]
      BY <2>5, <3>2 DEF Again, At, TypeOK, LoopTypes
    <3>4. \A t \in Subscribers \ {s} :
            spc'[t] = spc[t] /\ failures'[t] = failures[t] /\ attempt'[t] = attempt[t]
      BY <2>5 DEF Again, At, TypeOK, LoopTypes
    <3> QED BY <3>3, <3>4 DEF BackoffInv
  <2>6. CASE Leave(s)
    BY <2>6 DEF Leave, At, BackoffInv, TypeOK, LoopTypes
  <2> QED BY <2>1, <2>2, <2>3, <2>4, <2>5, <2>6 DEF Loop
<1> QED BY <1>1, <1>2 DEF Next, vars, loopVars

\* The loops count alike in every reachable state.
LEMMA CountedAlike == Spec => []BackoffInv
<1>1. Init => BackoffInv
  BY DEF Init, LoopInit, BackoffInv
<1> QED BY <1>1, BackoffStep, TypeCorrect, PTL DEF Spec

\* A loop that counts alike waits no longer than it should.
LEMMA WindowExpected == TypeOK /\ BackoffInv => BackoffFollowsFailures
<1> SUFFICES ASSUME TypeOK, BackoffInv, NEW s \in Subscribers, spc[s] = "backoff"
             PROVE  LET expected == Least(CapMs, BaseMs * 2 ^ (failures[s] - 1))
                    IN  /\ Window(attempt[s]) <= expected
                        /\ NarrowCap => Window(attempt[s]) = expected
  BY DEF BackoffFollowsFailures
<1>0. attempt[s] \in Nat /\ MaxCount \in Nat \ {0} /\ CapMs \in Nat
  BY LoopAssumption DEF TypeOK, LoopTypes
<1>1. CASE failures[s] = attempt[s] + 1
  <2>1. failures[s] - 1 = attempt[s]
    BY <1>0, <1>1
  <2> QED BY <1>0, <2>1, WindowBounded
<1>2. CASE failures[s] = MaxCount /\ attempt[s] = MaxCount
  <2> DEFINE below == BaseMs * 2 ^ (MaxCount - 1)
             full == BaseMs * 2 ^ MaxCount
  <2>1. below \in Nat /\ full \in Nat /\ below <= full
    BY <1>0, DelaysGrow
  <2>2. BaseMs = 0 => below = 0 /\ full = 0
    BY <1>0, PowersGrow
  <2>3. BaseMs = 0 \/ CapMs <= below
    BY LoopAssumption
  <2>4. Least(CapMs, below) = Least(CapMs, full)
    <3> HIDE DEF below, full
    <3> QED BY <1>0, <2>1, <2>2, <2>3 DEF Least
  <2> QED BY <1>0, <1>2, <2>4, WindowBounded
<1> QED BY <1>1, <1>2, <1>0 DEF BackoffInv

\* The delay before the n-th retry in a row is below the cap and the base times
\* 2^(n-1), and its window is as wide as that, for every base, cap and width.
THEOREM DelayFollowsFailures == Spec => []BackoffFollowsFailures
BY CountedAlike, WindowExpected, TypeCorrect, PTL
=============================================================================
