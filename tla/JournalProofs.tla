--------------------------- MODULE JournalProofs ---------------------------
(***************************************************************************)
(* Proofs about Journal, for every set of writers and values, every length *)
(* function and every bound: the type invariant, that until the final      *)
(* flush the state file stays readable whatever crashes and fails, and     *)
(* that without failures no change of the durable slice is forgotten.      *)
(***************************************************************************)
EXTENDS Journal, TLAPS

\* Each thread has its own labels, and a thread about to write has a file open.
ThreadsOK ==
  /\ pc["persist"] \in {"recv", "debounce", "snapshot", "open", "write", "chmod", "rename"}
  /\ pc["main"] \in {"run", "join", "open", "write", "chmod", "rename", "await", "exited",
                     "dead"}
  /\ \A t \in Savers : pc[t] = "write" => fd[t] \in Inodes

TypeInv == TypeOK /\ ThreadsOK

\* What a write leaves is the content of a file.
LEMMA OverwriteTyped ==
  ASSUME NEW old \in Content, NEW v \in Values
  PROVE  Overwrite(old, v) \in Content
BY ValuesAssumption DEF Overwrite, Content

\* The first start is well typed.
THEOREM TypeInit == Init => TypeInv
<1> SUFFICES ASSUME Init PROVE TypeInv
  OBVIOUS
<1>1. failed \in BOOLEAN
  BY Zenon DEF Init
<1> QED
  BY <1>1, ValuesAssumption, CapacityAssumption
     DEF Init, TypeInv, TypeOK, ThreadsOK, Savers, Content, Truncated

\* Every step of the writers, the two saving threads, a failure, a crash or a restart
\* keeps the strengthened type invariant.
THEOREM TypeStep == TypeInv /\ [Next]_vars => TypeInv'
<1> SUFFICES ASSUME TypeInv, [Next]_vars PROVE TypeInv'
  OBVIOUS
<1> USE DEF TypeInv, TypeOK, ThreadsOK
<1>1. ASSUME NEW w \in Writers, Change(w) PROVE TypeInv'
  BY <1>1 DEF Change, fileVars
<1>2. ASSUME NEW w \in Writers, Signal(w) PROVE TypeInv'
  BY <1>2, CapacityAssumption DEF Signal, fileVars, recordVars
<1>3. CASE PersistRecv \/ PersistDrain
  BY <1>3, CapacityAssumption
     DEF PersistRecv, PersistDrain, Goto, Savers, fileVars, recordVars
<1>4. CASE PersistSnapshot
  BY <1>4 DEF PersistSnapshot, Goto, Savers, fileVars, recordVars
<1>5. ASSUME NEW t \in Savers, Open(t) PROVE TypeInv'
  <2>1. Truncated \in Content
    BY DEF Truncated, Content
  <2>2. PICK i \in Inodes : /\ fd' = [fd EXCEPT ![t] = i]
                            /\ content' = [content EXCEPT ![i] = Truncated]
                            /\ tmp' = i
    BY <1>5 DEF Open
  <2> QED BY <1>5, <2>1, <2>2 DEF Open, At, Goto, Savers, recordVars
<1>6. ASSUME NEW t \in Savers, Write(t) PROVE TypeInv'
  <2>1. fd[t] \in Inodes /\ Overwrite(content[fd[t]], snap[t]) \in Content
    BY <1>6, OverwriteTyped DEF Write, At
  <2> QED BY <1>6, <2>1 DEF Write, At, Goto, Savers, recordVars
<1>7. ASSUME NEW t \in Savers, Chmod(t) \/ Rename(t) PROVE TypeInv'
  BY <1>7 DEF Chmod, Rename, At, Goto, AfterSave, Savers, fileVars, recordVars
<1>8. ASSUME NEW t \in Savers, Fault(t) PROVE TypeInv'
  <2>1. content' \in [Inodes -> Content]
    <3>1. CASE UNCHANGED content
      BY <3>1
    <3>2. CASE pc[t] = "write" /\ content' = [content EXCEPT ![fd[t]].data = Garbled]
      BY <3>2 DEF Content
    <3> QED BY <1>8, <3>1, <3>2 DEF Fault
  <2> QED BY <1>8, <2>1 DEF Fault, Goto, AfterSave, Savers
<1>9. CASE Shutdown \/ Crash
  BY <1>9 DEF Shutdown, Crash, Goto, Savers, fileVars
<1>10. CASE FinalSnapshot
  BY <1>10 DEF FinalSnapshot, Goto, Savers, fileVars, recordVars
<1>11. CASE Exit
  BY <1>11 DEF Exit, Goto, Savers, fileVars, recordVars
<1>12. CASE Start
  <2>1. Load \in Values
    BY ValuesAssumption DEF Load, Content
  <2>2. failed' \in BOOLEAN
    BY <1>12, Zenon DEF Start
  <2> QED BY <1>12, <2>1, <2>2, ValuesAssumption, CapacityAssumption DEF Start, Savers
<1>13. CASE UNCHANGED vars
  BY <1>13 DEF vars, fileVars, recordVars
<1>14. "persist" \in Savers /\ "main" \in Savers
  BY DEF Savers
<1> QED BY <1>1, <1>2, <1>3, <1>4, <1>5, <1>6, <1>7, <1>8, <1>9, <1>10, <1>11, <1>12,
           <1>13, <1>14
        DEF Next, PersistTask, Main, Save

\* Every reachable state satisfies the strengthened type invariant.
THEOREM TypeInvariant == Spec => []TypeInv
BY TypeInit, TypeStep, PTL DEF Spec

\* Every reachable state of the journal is well typed.
THEOREM TypeCorrect == Spec => []TypeOK
<1>1. TypeInv => TypeOK
  BY DEF TypeInv
<1> QED BY TypeInvariant, <1>1, PTL

-----------------------------------------------------------------------------
(* The state file stays readable until the final flush *)

\* As long as the persist task saves alone, the temporary file is not the state file,
\* what it writes to is the temporary file it truncated, and what it renames is whole;
\* a save that failed is over.
SoloInv ==
  pc["main"] \in {"run", "join"} =>
    /\ tmp # None => tmp # state
    /\ pc["persist"] = "write" =>
         tmp # None /\ fd["persist"] = tmp /\ content[tmp].len = 0
    /\ pc["persist"] \in {"chmod", "rename"} => tmp # None /\ content[tmp].data # Garbled
    /\ failed => pc["persist"] \in {"recv", "debounce", "snapshot"}

Readable == pc["main"] \in {"run", "join"} /\ Parseable => Parseable'

\* One step of the persist task alone; it is the only one that touches the files then.
LEMMA SoloSave ==
  ASSUME TypeInv, SoloInv, pc["main"] \in {"run", "join"}, Save("persist")
  PROVE  SoloInv' /\ Readable
<1> USE DEF TypeInv, TypeOK, ThreadsOK
<1> "persist" \in Savers /\ "main" \in Savers /\ "persist" # "main"
  BY DEF Savers
<1>1. CASE Open("persist")
  <2>1. PICK i \in Inodes : /\ fd' = [fd EXCEPT !["persist"] = i]
                            /\ content' = [content EXCEPT ![i] = Truncated]
                            /\ tmp' = i
                            /\ i # state
    BY <1>1 DEF Open, SoloInv
  <2>2. i # None /\ content'[i].len = 0 /\ (state # None => content'[state] = content[state])
    BY <2>1, ValuesAssumption DEF Truncated
  <2>3. pc' = [pc EXCEPT !["persist"] = "write"] /\ state' = state
    BY <1>1 DEF Open, Goto
  <2>4. ~failed'
    BY <1>1 DEF Open, At, SoloInv, recordVars
  <2> QED BY <2>1, <2>2, <2>3, <2>4 DEF SoloInv, Readable, Parseable
<1>2. CASE Write("persist")
  <2>1. /\ fd["persist"] = tmp /\ tmp \in Inodes \ {None} /\ tmp # state
        /\ content[tmp] \in Content /\ content[tmp].len = 0
        /\ snap["persist"] \in Values
    BY <1>2, ValuesAssumption DEF Write, At, SoloInv
  <2>2. Overwrite(content[tmp], snap["persist"]).data # Garbled
    BY <2>1, ValuesAssumption DEF Overwrite
  <2>3. /\ content' = [content EXCEPT ![tmp] = Overwrite(content[tmp], snap["persist"])]
        /\ pc' = [pc EXCEPT !["persist"] = "chmod"]
        /\ state' = state /\ tmp' = tmp
    BY <1>2, <2>1 DEF Write, Goto
  <2>4. content'[tmp].data # Garbled /\ (state # None => content'[state] = content[state])
    BY <2>1, <2>2, <2>3
  <2>5. ~failed'
    BY <1>2 DEF Write, At, SoloInv, recordVars
  <2> QED BY <2>1, <2>3, <2>4, <2>5 DEF SoloInv, Readable, Parseable
<1>3. CASE Chmod("persist")
  BY <1>3 DEF Chmod, At, Goto, AfterSave, SoloInv, Readable, Parseable, fileVars, recordVars
<1>4. CASE Rename("persist")
  BY <1>4 DEF Rename, At, Goto, AfterSave, SoloInv, Readable, Parseable
<1> QED BY <1>1, <1>2, <1>3, <1>4 DEF Save

\* Every step keeps SoloInv, and leaves a readable state file readable.
THEOREM SoloStep == TypeInv /\ SoloInv /\ [Next]_vars => SoloInv' /\ Readable
<1> SUFFICES ASSUME TypeInv, SoloInv, [Next]_vars PROVE SoloInv' /\ Readable
  OBVIOUS
<1> USE DEF TypeInv, TypeOK, ThreadsOK
<1> "persist" \in Savers /\ "main" \in Savers /\ "persist" # "main"
  BY DEF Savers
<1>1. ASSUME UNCHANGED fileVars, UNCHANGED fd,
             pc'["persist"] \in {"write", "chmod", "rename"} => pc'["persist"] = pc["persist"],
             failed' => failed /\ pc'["persist"] \in {pc["persist"], "debounce", "snapshot"},
             pc'["main"] \in {"run", "join"} => pc["main"] \in {"run", "join"}
      PROVE  SoloInv' /\ Readable
  BY <1>1 DEF SoloInv, Readable, Parseable, fileVars
<1>2. ASSUME pc["main"] \notin {"run", "join"}, pc'["main"] \notin {"run", "join"}
      PROVE  SoloInv' /\ Readable
  BY <1>2 DEF SoloInv, Readable
<1>3. ASSUME NEW w \in Writers, Change(w) \/ Signal(w) PROVE SoloInv' /\ Readable
  BY <1>1, <1>3 DEF Change, Signal, recordVars
<1>4. CASE PersistRecv \/ PersistDrain \/ PersistSnapshot
  <2>1. CASE pc["main"] \in {"run", "join"}
    BY <1>1, <1>4, <2>1 DEF PersistRecv, PersistDrain, PersistSnapshot, Goto, recordVars
  <2>2. CASE pc["main"] \notin {"run", "join"}
    BY <1>2, <1>4, <2>2 DEF PersistRecv, PersistDrain, PersistSnapshot, Goto
  <2> QED BY <2>1, <2>2
<1>5. CASE Save("persist")
  <2>1. pc'["main"] = pc["main"]
    BY <1>5 DEF Save, Open, Write, Chmod, Rename, Goto
  <2> QED BY <1>2, <1>5, <2>1, SoloSave
<1>6. CASE FinalSnapshot \/ Shutdown \/ Crash
  BY <1>1, <1>6 DEF FinalSnapshot, Shutdown, Crash, Goto
<1>7. CASE Save("main") \/ Exit
  BY <1>2, <1>7 DEF Save, Open, Write, Chmod, Rename, Exit, At, Goto, AfterSave
<1>8. ASSUME NEW t \in Savers, Fault(t) PROVE SoloInv' /\ Readable
  <2>1. CASE pc["main"] \in {"run", "join"}
    <3>1. t = "persist"
      BY <1>8, <2>1 DEF Fault, Savers
    <3>2. pc' = [pc EXCEPT !["persist"] = "recv"] /\ state' = state /\ tmp' = tmp
      BY <1>8, <3>1 DEF Fault, Goto, AfterSave
    <3>3. state # None => content'[state] = content[state]
      BY <1>8, <2>1, <3>1 DEF Fault, SoloInv
    <3> QED BY <2>1, <3>2, <3>3 DEF SoloInv, Readable, Parseable
  <2>2. CASE pc["main"] \notin {"run", "join"}
    <3>1. pc'["main"] \notin {"run", "join"}
      BY <1>8, <2>2 DEF Fault, Goto, AfterSave, Savers
    <3> QED BY <1>2, <2>2, <3>1
  <2> QED BY <2>1, <2>2
<1>9. CASE Start
  BY <1>9 DEF Start, SoloInv, Readable
<1>10. CASE UNCHANGED vars
  BY <1>1, <1>10 DEF vars, recordVars
<1> QED BY <1>3, <1>4, <1>5, <1>6, <1>7, <1>8, <1>9, <1>10 DEF Next, PersistTask, Main

\* The invariant holds from the first start on.
THEOREM SoloInvariant == Spec => []SoloInv
<1>1. Init => SoloInv
  BY DEF Init, SoloInv, Savers
<1>2. TypeInv /\ SoloInv /\ [Next]_vars => SoloInv'
  BY SoloStep
<1> QED BY <1>1, <1>2, TypeInvariant, PTL DEF Spec

\* No step before the final flush, a crash or a failed write among them, makes a
\* readable state file unreadable.
THEOREM StaysReadable == Spec => StaysParseable
<1>1. TypeInv /\ SoloInv /\ [Next]_vars =>
        [pc["main"] \in {"run", "join"} /\ Parseable => Parseable']_vars
  BY SoloStep DEF Readable
<1> QED BY <1>1, SoloInvariant, TypeInvariant, PTL DEF Spec, StaysParseable

-----------------------------------------------------------------------------
(* Nothing is forgotten *)

\* What a file holds once v is written to it and nothing else is left there.
Whole(v) == [data |-> v, len |-> Length[v]]

\* The persist task is saving a slice that has changed since.
Stale == Saving("persist") /\ snap["persist"] # mem

\* Once both threads save the current slice: i holds it, or a thread will write it there.
OkFile(i) ==
  /\ i \in Inodes
  /\ content[i].len <= Length[mem]
  /\ content[i] = Whole(mem) \/ \E t \in Savers : pc[t] = "write" /\ fd[t] = i

\* Until the final flush: the persist task's file is the temporary one, whatever was
\* left in it, and nothing is forgotten.
SoloPart ==
  pc["main"] \in {"run", "join"} =>
    /\ pc["persist"] = "write" =>
         tmp # None /\ fd["persist"] = tmp /\ content[tmp].len = 0
    /\ pc["persist"] \in {"chmod", "rename"} =>
         tmp # None /\ content[tmp] = Whole(snap["persist"])
    /\ \/ Load = mem
       \/ signals > 0
       \/ \E w \in Writers : writer[w] = "signal"
       \/ pc["persist"] \in {"debounce", "snapshot"}
       \/ Saving("persist") /\ snap["persist"] = mem

\* The final flush is under way, or waits for the persist task to end.
Final == pc["main"] \in {"open", "write", "chmod", "rename", "await"}

\* The persist task needs no other round.
Covered ==
  (pc["persist"] = "recv" /\ signals = 0) \/ (Saving("persist") /\ ~Stale)

\* The temporary file, if there is one, is what a save that failed has left behind.
Leftover ==
  pc["main"] = "open" /\ pc["persist"] \in {"recv", "debounce", "snapshot", "open"}

\* From the final flush on the slice does not change any more.  Unless the persist
\* task is at work on an older one, the temporary file is or will be whole; and once
\* it needs no other round, so is the state file, or a file that will replace it.
FinalPart ==
  Final =>
    /\ snap["main"] = mem
    /\ \A w \in Writers : writer[w] = "idle"
    /\ ~Stale /\ ~Leftover /\ tmp # None => OkFile(tmp)
    /\ Covered =>
         \/ OkFile(state)
         \/ \E t \in Savers : pc[t] = "open"
         \/ tmp # None /\ \E t \in Savers : pc[t] \in {"write", "chmod", "rename"}

\* A stale save is always followed by another one.
UpdateInv ==
  ~failed =>
    /\ Alive =>
         /\ Stale => signals > 0 \/ \E w \in Writers : writer[w] = "signal"
         /\ tmp # None => tmp # state
         /\ SoloPart
         /\ FinalPart
    /\ pc["main"] = "exited" => Load = mem

\* What a restart would load depends on the state file alone.
LEMMA SameLoad ==
  ASSUME state' = state, state # None => content'[state] = content[state]
  PROVE  Load' = Load
BY DEF Load

\* A file that is whole gives back its value.
LEMMA WholeLoad ==
  ASSUME NEW v \in Values, state' \in Inodes, content'[state'] = Whole(v)
  PROVE  Load' = v
BY ValuesAssumption DEF Load, Whole

\* A write of the current slice leaves good files good.
LEMMA WriteOk ==
  ASSUME TypeInv, NEW t \in Savers, Write(t), snap[t] = mem,
         NEW i \in Inodes, OkFile(i)
  PROVE  OkFile(i)'
<1> USE DEF TypeInv, TypeOK, ThreadsOK
<1>1. /\ pc' = [pc EXCEPT ![t] = "chmod"] /\ fd' = [fd EXCEPT ![t] = None]
      /\ mem' = mem /\ pc[t] = "write"
      /\ content' = [content EXCEPT ![fd[t]] = Overwrite(content[fd[t]], mem)]
  BY DEF Write, At, Goto
<1>2. content[i].len <= Length[mem] /\ content[i] \in Content
  BY DEF OkFile
<1>3. CASE fd[t] = i
  <2>1. content'[i] = Whole(mem)
    BY <1>1, <1>2, <1>3 DEF Overwrite, Whole
  <2>2. Whole(mem).len <= Length[mem]
    BY ValuesAssumption DEF Whole
  <2> QED BY <1>1, <2>1, <2>2 DEF OkFile, Whole
<1>4. CASE fd[t] # i
  <2>1. content'[i] = content[i]
    BY <1>1, <1>4
  <2>2. \A u \in Savers : pc[u] = "write" /\ fd[u] = i => pc'[u] = "write" /\ fd'[u] = i
    BY <1>1, <1>4
  <2> QED BY <1>1, <2>1, <2>2 DEF OkFile, Whole
<1> QED BY <1>3, <1>4

\* Moving a thread that is not about to write changes no file.
LEMMA MoveOk ==
  ASSUME TypeInv, NEW t \in Savers, pc[t] # "write", NEW l, pc' = [pc EXCEPT ![t] = l],
         UNCHANGED <<content, fd, mem>>, NEW i \in Inodes, OkFile(i)
  PROVE  OkFile(i)'
<1>1. \A u \in Savers : pc[u] = "write" => pc'[u] = "write"
  BY DEF TypeInv, TypeOK
<1> QED BY <1>1 DEF OkFile, Whole

\* One step of a save of the final flush, or of the persist task beside it.
LEMMA FinalSave ==
  ASSUME TypeInv, UpdateInv, ~failed, Final, NEW t \in Savers, Save(t)
  PROVE  Final' /\ UpdateInv'
<1> USE DEF TypeInv, TypeOK, ThreadsOK
<1>0. /\ "persist" \in Savers /\ "main" \in Savers /\ "persist" # "main"
      /\ t = "persist" \/ t = "main"
  BY DEF Savers
<1>1. /\ UNCHANGED <<mem, writer, signals, snap, failed>>
      /\ pc[t] \in {"open", "write", "chmod", "rename"}
      /\ \E l \in {"open", "write", "chmod", "rename", AfterSave(t)} : pc' = [pc EXCEPT ![t] = l]
  BY DEF Save, Open, Write, Chmod, Rename, At, Goto, fileVars, recordVars
<1>2. /\ Stale => signals > 0
      /\ tmp # None => tmp # state
      /\ snap["main"] = mem
      /\ \A w \in Writers : writer[w] = "idle"
      /\ ~Stale /\ ~Leftover /\ tmp # None => OkFile(tmp)
      /\ Covered =>
           \/ OkFile(state)
           \/ \E u \in Savers : pc[u] = "open"
           \/ tmp # None /\ \E u \in Savers : pc[u] \in {"write", "chmod", "rename"}
  BY DEF UpdateInv, Final, FinalPart, Covered, Alive
<1>3. Final' /\ pc'["main"] # "exited"
  BY <1>0, <1>1 DEF Final, AfterSave
<1>4. /\ Stale' => Stale
      /\ Stale /\ ~Stale' => pc'["persist"] = "recv"
      /\ ~Stale => snap[t] = mem
  BY <1>0, <1>1, <1>2 DEF Stale, Saving, AfterSave
<1>5. Covered' => Covered
  BY <1>0, <1>1, <1>2, <1>4 DEF Covered, Stale, Saving, AfterSave
<1>6. SUFFICES /\ tmp' # None => tmp' # state'
               /\ ~Stale' /\ ~Leftover' /\ tmp' # None => OkFile(tmp)'
               /\ Covered' =>
                    \/ OkFile(state)'
                    \/ \E u \in Savers : pc'[u] = "open"
                    \/ tmp' # None /\ \E u \in Savers : pc'[u] \in {"write", "chmod", "rename"}
  BY <1>1, <1>2, <1>3, <1>4 DEF UpdateInv, Final, SoloPart, FinalPart, Covered, Alive
<1>11. pc[t] \in {"write", "chmod", "rename"} => ~Leftover
  BY <1>0 DEF Leftover
<1>7. CASE Open(t)
  <2>1. PICK i \in Inodes : /\ fd' = [fd EXCEPT ![t] = i]
                            /\ content' = [content EXCEPT ![i] = Truncated]
                            /\ tmp' = i /\ i # state /\ state' = state
                            /\ pc' = [pc EXCEPT ![t] = "write"]
    BY <1>2, <1>7 DEF Open, Goto
  <2>2. OkFile(i)'
    BY <1>1, <2>1, ValuesAssumption DEF OkFile, Truncated
  <2>3. tmp' # state' /\ pc'[t] = "write" /\ OkFile(tmp)'
    BY <2>1, <2>2 DEF OkFile
  <2>4. tmp' # None
    BY <2>1, ValuesAssumption
  <2> QED BY <2>3, <2>4
<1>8. CASE Write(t)
  <2>1. UNCHANGED <<state, tmp>> /\ pc' = [pc EXCEPT ![t] = "chmod"]
    BY <1>8 DEF Write, Goto
  <2>2. ~Stale => \A i \in Inodes : OkFile(i) => OkFile(i)'
    BY <1>4, <1>8, WriteOk
  <2>3. Stale' <=> Stale
    BY <1>0, <1>1, <2>1 DEF Stale, Saving
  <2>4. Covered => ~Stale
    BY DEF Covered, Stale, Saving
  <2>5. OkFile(tmp) => tmp \in Inodes
    BY DEF OkFile
  <2>6. OkFile(state) => state \in Inodes
    BY DEF OkFile
  <2>7. ~Stale /\ tmp # None => OkFile(tmp)'
    BY <1>2, <1>8, <1>11, <2>1, <2>2, <2>5 DEF Write, At
  <2>8. Covered => OkFile(state)' \/ (\E u \in Savers : pc'[u] = "open") \/ tmp' # None
    BY <1>1, <1>2, <1>8, <2>1, <2>2, <2>4, <2>6 DEF Write, At
  <2> QED BY <1>2, <1>5, <2>1, <2>3, <2>7, <2>8
<1>9. CASE Chmod(t) \/ (Rename(t) /\ tmp = None)
  <2>1. UNCHANGED <<state, tmp, content, fd>> /\ pc[t] \in {"chmod", "rename"}
    BY <1>9 DEF Chmod, Rename, At, fileVars
  <2>2. \A i \in Inodes : OkFile(i) => OkFile(i)'
    BY <1>1, <2>1, MoveOk
  <2>3. \A u \in Savers : pc[u] = "open" => pc'[u] = "open"
    BY <1>1, <2>1
  <2>4. tmp # None => pc'[t] = "rename"
    BY <1>9 DEF Chmod, Goto
  <2>5. ~Stale' /\ tmp # None => ~Stale
    BY <1>0, <1>1, <1>4, <2>4 DEF Stale, Saving
  <2>6. OkFile(tmp) => tmp \in Inodes
    BY DEF OkFile
  <2>7. OkFile(state) => state \in Inodes
    BY DEF OkFile
  <2>8. ~Stale' /\ tmp # None => OkFile(tmp)'
    BY <1>2, <1>11, <2>1, <2>2, <2>5, <2>6
  <2>9. Covered => OkFile(state)' \/ (\E u \in Savers : pc'[u] = "open") \/ tmp' # None
    BY <1>2, <2>1, <2>2, <2>3, <2>7
  <2> QED BY <1>2, <1>5, <2>1, <2>4, <2>8, <2>9
<1>10. CASE Rename(t) /\ tmp # None
  <2>1. state' = tmp /\ tmp' = None /\ UNCHANGED <<content, fd>> /\ pc[t] = "rename"
    BY <1>10 DEF Rename, At
  <2>2. \A i \in Inodes : OkFile(i) => OkFile(i)'
    BY <1>1, <2>1, MoveOk
  <2>3. Covered => ~Stale
    BY DEF Covered, Stale, Saving
  <2>4. ASSUME Covered PROVE OkFile(state)'
    <3>1. OkFile(tmp) /\ tmp \in Inodes
      BY <1>2, <1>10, <1>11, <2>1, <2>3, <2>4 DEF OkFile
    <3>2. PICK k \in Inodes : k = tmp
      BY <3>1
    <3>3. OkFile(k)' /\ state' = k
      BY <2>1, <2>2, <3>1, <3>2 DEF OkFile
    <3> QED BY <3>3 DEF OkFile
  <2> QED BY <1>5, <2>1, <2>4
<1> QED BY <1>7, <1>8, <1>9, <1>10 DEF Save

\* One step of a save of the persist task while it saves alone.
LEMMA SoloUpdate ==
  ASSUME TypeInv, UpdateInv, ~failed, pc["main"] \in {"run", "join"}, Save("persist")
  PROVE  UpdateInv'
<1> USE DEF TypeInv, TypeOK, ThreadsOK
<1>0. "persist" \in Savers /\ "main" \in Savers /\ "persist" # "main"
  BY DEF Savers
<1>1. /\ UNCHANGED <<mem, writer, signals, snap, failed>>
      /\ pc'["main"] = pc["main"]
  BY <1>0 DEF Save, Open, Write, Chmod, Rename, At, Goto, fileVars, recordVars
<1> DEFINE Woken == signals > 0 \/ \E w \in Writers : writer[w] = "signal"
           Fresh == snap["persist"] = mem
<1>2. /\ Saving("persist")
      /\ ~Fresh => Woken
      /\ tmp # None => tmp # state
      /\ pc["persist"] = "write" =>
           tmp # None /\ fd["persist"] = tmp /\ content[tmp].len = 0
      /\ pc["persist"] \in {"chmod", "rename"} =>
           tmp # None /\ content[tmp] = Whole(snap["persist"])
  BY DEF UpdateInv, SoloPart, Alive, Stale, Saving, Save, Open, Write, Chmod, Rename, At
<1>3. SUFFICES /\ tmp' # None => tmp' # state'
               /\ pc'["persist"] = "recv" => Load' = mem' \/ Woken
               /\ pc'["persist"] \in {"recv", "write", "chmod", "rename"}
               /\ pc'["persist"] = "write" =>
                    tmp' # None /\ fd'["persist"] = tmp' /\ content'[tmp'].len = 0
               /\ pc'["persist"] \in {"chmod", "rename"} =>
                    tmp' # None /\ content'[tmp'] = Whole(snap["persist"])
  BY <1>1, <1>2 DEF UpdateInv, SoloPart, FinalPart, Final, Covered, Alive, Stale, Saving, Whole
<1>4. CASE Open("persist")
  <2>1. PICK i \in Inodes : /\ fd' = [fd EXCEPT !["persist"] = i]
                            /\ content' = [content EXCEPT ![i] = Truncated]
                            /\ tmp' = i /\ i # state /\ state' = state
                            /\ pc' = [pc EXCEPT !["persist"] = "write"]
    BY <1>2, <1>4 DEF Open, Goto
  <2>2. tmp' # None /\ content'[tmp'].len = 0 /\ fd'["persist"] = tmp'
    BY <1>0, <2>1, ValuesAssumption DEF Truncated
  <2> QED BY <1>0, <2>1, <2>2
<1>5. CASE Write("persist")
  <2>1. /\ content' = [content EXCEPT ![tmp] = Overwrite(content[tmp], snap["persist"])]
        /\ pc' = [pc EXCEPT !["persist"] = "chmod"]
        /\ UNCHANGED <<state, tmp>>
        /\ tmp \in Inodes /\ tmp # None /\ content[tmp].len = 0
    BY <1>2, <1>5 DEF Write, At, Goto
  <2>2. Overwrite(content[tmp], snap["persist"]) = Whole(snap["persist"])
    BY <1>0, <2>1, ValuesAssumption DEF Overwrite, Whole
  <2> QED BY <1>0, <1>2, <2>1, <2>2
<1>6. CASE Chmod("persist")
  <2>1. /\ UNCHANGED <<state, tmp, content>> /\ tmp # None
        /\ pc' = [pc EXCEPT !["persist"] = "rename"]
        /\ content[tmp] = Whole(snap["persist"])
    BY <1>2, <1>6 DEF Chmod, At, Goto, fileVars
  <2> QED BY <1>0, <1>2, <2>1
<1>7. CASE Rename("persist")
  <2>1. /\ state' = tmp /\ tmp' = None /\ content' = content /\ tmp \in Inodes
        /\ pc' = [pc EXCEPT !["persist"] = "recv"]
        /\ content[tmp] = Whole(snap["persist"])
    BY <1>2, <1>7 DEF Rename, At, Goto, AfterSave
  <2>2. Load' = snap["persist"]
    BY <1>0, <2>1, WholeLoad
  <2> QED BY <1>0, <1>1, <1>2, <2>1, <2>2
<1> QED BY <1>4, <1>5, <1>6, <1>7 DEF Save

\* The final flush begins: both threads may have a file of their own from here on.
\* If the last save failed, it has left nothing but a temporary file that will be
\* truncated.
LEMMA FlushBegins ==
  ASSUME TypeInv, SoloInv, UpdateInv, FinalSnapshot
  PROVE  UpdateInv'
<1> USE DEF TypeInv, TypeOK, ThreadsOK
<1>0. "persist" \in Savers /\ "main" \in Savers /\ "persist" # "main"
  BY DEF Savers
<1>1. /\ UNCHANGED <<mem, writer, signals, fd, state, tmp, content>>
      /\ snap' = [snap EXCEPT !["main"] = mem] /\ pc' = [pc EXCEPT !["main"] = "open"]
      /\ pc["main"] = "join" /\ \A w \in Writers : writer[w] = "idle"
  BY DEF FinalSnapshot, Goto, fileVars
<1>2. /\ Stale => signals > 0
      /\ tmp # None => tmp # state
      /\ Saving("persist") => ~failed
      /\ pc["persist"] = "write" => fd["persist"] = tmp /\ content[tmp].len = 0
      /\ pc["persist"] \in {"chmod", "rename"} => content[tmp] = Whole(snap["persist"])
  BY <1>1 DEF UpdateInv, SoloPart, SoloInv, Alive, Stale, Saving
<1>3. Stale' <=> Stale
  BY <1>0, <1>1 DEF Stale, Saving
<1>4. ASSUME ~Stale, tmp # None, pc["persist"] \in {"write", "chmod", "rename"}
      PROVE  OkFile(tmp)
  <2>1. snap["persist"] = mem /\ tmp \in Inodes
    BY <1>2, <1>4 DEF Stale, Saving
  <2>2. CASE pc["persist"] = "write"
    BY <1>0, <1>2, <2>1, <2>2, ValuesAssumption DEF OkFile
  <2>3. CASE pc["persist"] \in {"chmod", "rename"}
    BY <1>2, <2>1, <2>3, ValuesAssumption DEF OkFile, Whole
  <2> QED BY <1>4, <2>2, <2>3
<1>5. OkFile(tmp) => OkFile(tmp)'
  BY <1>0, <1>1 DEF OkFile, Whole
<1>6. ~Leftover' => pc["persist"] \in {"write", "chmod", "rename"}
  BY <1>0, <1>1 DEF Leftover
<1> QED BY <1>0, <1>1, <1>2, <1>3, <1>4, <1>5, <1>6
        DEF UpdateInv, SoloPart, FinalPart, Final, Covered, Alive

\* The persist task takes a new slice; what an earlier save has left does not matter.
LEMMA SnapshotTaken ==
  ASSUME TypeInv, SoloInv, PersistSnapshot, pc["main"] \in {"run", "join"}
  PROVE  UpdateInv'
<1> USE DEF TypeInv, TypeOK, ThreadsOK
<1>0. "persist" \in Savers /\ "main" \in Savers /\ "persist" # "main"
  BY DEF Savers
<1>1. /\ UNCHANGED <<mem, writer, signals, fd, state, tmp, content>>
      /\ snap'["persist"] = mem /\ pc'["persist"] = "open" /\ pc'["main"] = pc["main"]
      /\ tmp # None => tmp # state
  BY <1>0 DEF PersistSnapshot, Goto, fileVars, SoloInv
<1>2. ~Stale' /\ Saving("persist")'
  BY <1>1 DEF Stale, Saving
<1> QED BY <1>1, <1>2 DEF UpdateInv, SoloPart, FinalPart, Final, Alive, Saving

\* Every step keeps the invariant.
THEOREM UpdateStep == TypeInv /\ SoloInv /\ UpdateInv /\ [Next]_vars => UpdateInv'
<1> SUFFICES ASSUME TypeInv, SoloInv, UpdateInv, [Next]_vars, ~failed' PROVE UpdateInv'
  BY DEF UpdateInv
<1> USE DEF TypeInv, TypeOK, ThreadsOK
<1>0. "persist" \in Savers /\ "main" \in Savers /\ "persist" # "main"
  BY DEF Savers
<1>11. /\ \A t \in Savers : ~Fault(t)
       /\ \A t \in Savers : Save(t) => ~failed
  BY DEF Fault, Save, Open, Write, Chmod, Rename, recordVars
<1>1. ASSUME NEW w \in Writers, Change(w) PROVE UpdateInv'
  <2>1. /\ UNCHANGED <<signals, pc, snap, fd, state, tmp, content>>
        /\ writer'[w] = "signal" /\ pc["main"] \in {"run", "join"} /\ ~failed
    BY <1>1 DEF Change, fileVars
  <2> QED BY <2>1
      DEF UpdateInv, SoloPart, FinalPart, Final, Covered, Alive, Stale, Saving, Whole
<1>2. ASSUME NEW w \in Writers, Signal(w) PROVE UpdateInv'
  <2>1. /\ UNCHANGED <<mem, pc, snap, fd, state, tmp, content>>
        /\ signals' > 0 /\ pc["main"] \in {"run", "join"} /\ ~failed
    BY <1>2, CapacityAssumption DEF Signal, fileVars, recordVars
  <2> QED BY <2>1
      DEF UpdateInv, SoloPart, FinalPart, Final, Covered, Alive, Stale, Saving, Whole
<1>12. ASSUME PersistSnapshot, pc["main"] \in {"run", "join"} PROVE UpdateInv'
  BY <1>12, SnapshotTaken
<1>3. ASSUME Alive, PersistRecv \/ PersistDrain \/ (PersistSnapshot /\ Final) PROVE UpdateInv'
  <2>1. /\ UNCHANGED <<mem, writer, fd, state, tmp, content>>
        /\ pc'["main"] = pc["main"] /\ snap'["main"] = snap["main"]
        /\ pc["persist"] \in {"recv", "debounce", "snapshot"}
        /\ \E l \in {"debounce", "snapshot", "open"} : pc' = [pc EXCEPT !["persist"] = l]
        /\ pc'["persist"] = "open" => snap'["persist"] = mem
        /\ ~failed
    BY <1>0, <1>3 DEF PersistRecv, PersistDrain, PersistSnapshot, Goto, fileVars, recordVars, Final
  <2>2. ~Stale /\ ~Stale' /\ Load' = Load
    BY <1>0, <2>1, SameLoad DEF Stale, Saving
  <2>3. pc'["persist"] \in {"debounce", "snapshot", "open"}
    BY <1>0, <2>1
  <2>4. CASE pc["main"] \in {"run", "join"}
    BY <1>0, <1>3, <2>1, <2>2, <2>3, <2>4
       DEF UpdateInv, SoloPart, FinalPart, Final, Covered, Alive, Saving
  <2>5. CASE Final
    <3>1. \A i \in Inodes : OkFile(i) => OkFile(i)'
      BY <2>1, MoveOk, <1>0
    <3>2. Leftover' <=> Leftover
      BY <1>0, <2>1, <2>3 DEF Leftover
    <3>3. tmp # None /\ ~Leftover => OkFile(tmp)'
      BY <1>3, <2>1, <2>2, <2>5, <3>1 DEF UpdateInv, FinalPart, Covered, Final, OkFile
    <3> QED BY <1>0, <1>3, <2>1, <2>2, <2>3, <2>5, <3>2, <3>3
            DEF UpdateInv, SoloPart, FinalPart, Covered, Alive, Final, Saving
  <2> QED BY <1>3, <2>4, <2>5 DEF Alive, Final
<1>4. ASSUME Alive, Save("persist") PROVE UpdateInv'
  BY <1>0, <1>4, <1>11, SoloUpdate, FinalSave DEF Alive, Final
<1>5. ASSUME Save("main") PROVE UpdateInv'
  <2>1. Final
    BY <1>5 DEF Save, Open, Write, Chmod, Rename, At, Final
  <2> QED BY <1>0, <1>5, <1>11, <2>1, FinalSave
<1>6. ASSUME FinalSnapshot PROVE UpdateInv'
  BY <1>6, <1>11, FlushBegins
<1>7. ASSUME Exit PROVE UpdateInv'
  <2>1. /\ pc["main"] = "await" /\ pc["persist"] = "recv" /\ signals = 0
        /\ UNCHANGED <<mem, state, tmp, content>> /\ pc'["main"] = "exited" /\ ~failed
    BY <1>0, <1>7 DEF Exit, Goto, fileVars, recordVars
  <2>2. OkFile(state)
    BY <1>0, <2>1 DEF UpdateInv, FinalPart, Final, Covered, Alive, Savers
  <2>3. content[state] = Whole(mem) /\ state \in Inodes
    BY <2>1, <2>2 DEF OkFile, Savers
  <2>4. Load' = mem
    <3>1. state' \in Inodes /\ content'[state'] = Whole(mem)
      BY <2>1, <2>3
    <3> QED BY <3>1, WholeLoad
  <2> QED BY <2>1, <2>4 DEF UpdateInv, Alive
<1>8. ASSUME Shutdown \/ Crash PROVE UpdateInv'
  <2>1. /\ UNCHANGED <<mem, writer, signals, snap, fd, state, tmp, content>>
        /\ pc'["persist"] = pc["persist"]
        /\ \/ pc["main"] = "run" /\ pc'["main"] = "join"
           \/ pc'["main"] = "dead"
        /\ ~failed
    BY <1>0, <1>8 DEF Shutdown, Crash, Goto, fileVars
  <2> QED BY <2>1, SameLoad
      DEF UpdateInv, SoloPart, FinalPart, Final, Covered, Alive, Stale, Saving, Whole
<1>9. ASSUME Start PROVE UpdateInv'
  <2>1. /\ mem' = Load /\ tmp' = None /\ UNCHANGED <<state, content>>
        /\ pc'["persist"] = "recv" /\ pc'["main"] = "run"
    BY <1>0, <1>9 DEF Start
  <2> QED BY <2>1, SameLoad
      DEF UpdateInv, SoloPart, FinalPart, Final, Covered, Alive, Stale, Saving
<1>10. ASSUME UNCHANGED vars PROVE UpdateInv'
  BY <1>10 DEF vars, fileVars, recordVars, UpdateInv, SoloPart, FinalPart, Final, Covered,
     Leftover, Alive, Stale, Saving, OkFile, Whole, Load
<1>13. Alive => pc["main"] \in {"run", "join"} \/ Final
  BY DEF Alive, Final
<1> QED BY <1>11, <1>1, <1>2, <1>3, <1>4, <1>5, <1>6, <1>7, <1>8, <1>9, <1>10, <1>12, <1>13
        DEF Next, PersistTask, Main

\* The invariant holds from the first start on.
THEOREM UpdateInvariant == Spec => []UpdateInv
<1>1. Init => UpdateInv
  BY DEF Init, UpdateInv, SoloPart, FinalPart, Final, Covered, Alive, Stale, Saving, Load,
     Savers
<1> QED BY <1>1, UpdateStep, SoloInvariant, TypeInvariant, PTL DEF Spec

\* No change is forgotten, by the debounce, a full channel, a stale snapshot or the two
\* threads' fight over one temporary file; and a save that fails costs only itself.
THEOREM NothingForgotten == Spec => []NoLostUpdate
<1>1. TypeInv /\ UpdateInv => NoLostUpdate
  <2> SUFFICES ASSUME TypeInv, UpdateInv, Alive, ~failed,
                      signals = 0, \A w \in Writers : writer[w] # "signal",
                      pc["persist"] \notin {"debounce", "snapshot"},
                      \A t \in Savers : ~(Saving(t) /\ snap[t] = mem)
               PROVE  Load = mem
    BY DEF NoLostUpdate, TypeInv, TypeOK
  <2> "persist" \in Savers /\ "main" \in Savers
    BY DEF Savers
  <2>1. CASE pc["main"] \in {"run", "join"}
    BY <2>1 DEF UpdateInv, SoloPart
  <2>2. CASE pc["main"] \notin {"run", "join"}
    <3>1. pc["main"] = "await" /\ pc["persist"] = "recv"
      BY <2>2 DEF UpdateInv, FinalPart, Final, Covered, Alive, Saving, Stale, TypeInv, ThreadsOK
    <3>2. OkFile(state)
      BY <3>1 DEF UpdateInv, FinalPart, Final, Covered, Savers
    <3>3. content[state] = Whole(mem) /\ state \in Inodes /\ mem \in Values
      BY <3>1, <3>2 DEF OkFile, Savers, TypeInv, TypeOK
    <3> QED BY <3>3, ValuesAssumption DEF Load, Whole
  <2> QED BY <2>1, <2>2
<1> QED BY <1>1, TypeInvariant, UpdateInvariant, PTL

\* After an orderly exit whose saves did not fail the state file holds the last slice,
\* whatever failed before.
THEOREM CleanExit == Spec => []CleanExitSaved
<1>1. UpdateInv => CleanExitSaved
  BY DEF UpdateInv, CleanExitSaved
<1> QED BY <1>1, UpdateInvariant, PTL
=============================================================================
