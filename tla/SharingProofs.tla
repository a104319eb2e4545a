---------------------------- MODULE SharingProofs ----------------------------
(***************************************************************************)
(* Proofs about ConfigSharing, for every number of commands, readers and   *)
(* TUIs and every number of edits.                                         *)
(*                                                                         *)
(* The first part needs no lock: whoever writes, a file is complete before *)
(* it is renamed to config_path, so whatever is opened there can be read.  *)
(* The second part is the refinement of AtomicConfig by programs that get  *)
(* the lock and share a file that exists, in the format of this version.   *)
(***************************************************************************)
EXTENDS ConfigSharing, TLAPS

----------------------------------------------------------------------------
(* Files are whole                                                         *)

\* A TUI that has the lock, or is about to, has an edit to save.
LockInv ==
    \A p \in Tuis :
      /\ pc[p] = "lock" => copy[p] # {}
      /\ lock = p => pc[p] \in {"save", "write", "rename", "unlock"} /\ copy[p] # {}

\* Readers never take the lock.
ReaderInv ==
    \A p \in Readers : lock # p /\ pc[p] # "lock"

FileInv ==
    /\ path # NoFile => files[path].state # "partial"
    /\ \A p \in Procs :
         /\ pc[p] = "read" => handle[p] # NoFile /\ files[handle[p]].state # "partial"
         /\ pc[p] \in {"write", "rename"} => tmp[p] # NoFile
         /\ pc[p] = "rename" => files[tmp[p]].state = "complete"

\* The inductive invariant of the first part.
WholeInv == TypeOK /\ LockInv /\ ReaderInv /\ FileInv

\* A file that is appended leaves the others as they are.
LEMMA Appended ==
    ASSUME NEW s \in Seq(File), NEW f \in File
    PROVE  /\ Append(s, f) \in Seq(File) /\ Len(Append(s, f)) = Len(s) + 1
           /\ Len(s) \in Nat /\ Append(s, f)[Len(s) + 1] = f
           /\ \A i \in 1 .. Len(s) : Append(s, f)[i] = s[i]
  OBVIOUS

\* Writing completes a file and leaves its contents and the others alone.
LEMMA Completed ==
    ASSUME NEW s \in Seq(File), NEW i \in 1 .. Len(s)
    PROVE  LET n == [s EXCEPT ![i].state = "complete"] IN
           /\ n \in Seq(File) /\ Len(n) = Len(s)
           /\ n[i].state = "complete" /\ n[i].edits = s[i].edits
           /\ \A j \in 1 .. Len(s) \ {i} : n[j] = s[j]
  <1>1. PICK f : f = [s[i] EXCEPT !.state = "complete"]
    OBVIOUS
  <1>2. f \in File /\ f.state = "complete" /\ f.edits = s[i].edits
    <2>1. s[i] \in File
      OBVIOUS
    <2> QED
      BY <1>1, <2>1 DEF File
  <1>3. PICK n : n = [s EXCEPT ![i] = f]
    OBVIOUS
  <1>4. /\ n \in Seq(File) /\ Len(n) = Len(s) /\ n[i] = f
        /\ \A j \in 1 .. Len(s) \ {i} : n[j] = s[j]
    BY <1>2, <1>3
  <1>5. n = [s EXCEPT ![i].state = "complete"]
    BY <1>1, <1>3
  <1> QED
    BY <1>2, <1>4, <1>5

LEMMA InitIsWhole == Init => WholeInv
  <1> SUFFICES ASSUME Init PROVE WholeInv
    OBVIOUS
  <1>1. PICK start \in Starts : files = FilesAtStart(start)
    BY DEF Init
  <1>2. /\ files \in Seq(File) /\ path = Len(files) /\ Len(files) \in {0, 1}
        /\ path # NoFile => files[path].state # "partial"
    <2>1. CASE start # "none"
      <3>1. PICK f \in File : files = <<f>> /\ f.state # "partial"
        BY <1>1, <2>1 DEF FilesAtStart, File
      <3> QED
        BY <3>1 DEF Init, NoFile
    <2>2. CASE start = "none"
      BY <1>1, <2>2 DEF Init, FilesAtStart, NoFile
    <2> QED
      BY <2>1, <2>2
  <1>3. TypeOK
    BY <1>2, SavesAssumption DEF Init, TypeOK, NoFile
  <1>4. LockInv /\ ReaderInv /\ FileInv
    BY <1>2, ProcsAreDistinct DEF Init, LockInv, ReaderInv, FileInv, Procs
  <1> QED
    BY <1>3, <1>4 DEF WholeInv

\* Steps that neither write a file nor move config_path.
LEMMA QuietStepsStayWhole ==
    ASSUME WholeInv, NEW p \in Procs,
           \/ Lock(p) \/ LockFails(p) \/ Unlock(p)
           \/ Open(p) \/ OpenNothing(p) \/ Read(p) \/ Upgrade(p) \/ ReadFails(p)
           \/ Edit(p) \/ Refuse(p) \/ WriteFails(p) \/ Crash(p)
    PROVE  WholeInv'
  <1> USE DEF WholeInv
  <1>1. files' = files /\ path' = path /\ tmp' = tmp /\ saves' = saves
    BY DEF Lock, LockFails, Unlock, Open, OpenNothing, Read, Upgrade, ReadFails, Edit,
           Refuse, WriteFails, Crash, local
  <1>2. /\ Len(files) \in Nat
        /\ \A i \in 1 .. Len(files) : files[i].edits \subseteq Edits
    <2>1. \A i \in 1 .. Len(files) : files[i] \in File
      BY DEF TypeOK
    <2>2. files \in Seq(File)
      BY DEF TypeOK
    <2> QED
      BY <2>1, <2>2 DEF File
  <1>3. CASE Lock(p)
    <2>1. TypeOK'
      BY <1>1, <1>3 DEF TypeOK, Lock, Goto, local
    <2>2. LockInv' /\ ReaderInv'
      BY <1>3, ProcsAreDistinct DEF TypeOK, Lock, Goto, local, LockInv, ReaderInv, Procs
    <2>3. FileInv'
      BY <1>1, <1>3 DEF TypeOK, Lock, Goto, local, FileInv
    <2> QED
      BY <2>1, <2>2, <2>3
  <1>4. CASE LockFails(p)
    <2>1. TypeOK'
      BY <1>1, <1>4 DEF TypeOK, LockFails, Goto, local
    <2>2. LockInv' /\ ReaderInv'
      BY <1>4, ProcsAreDistinct
         DEF TypeOK, LockFails, Goto, local, LockInv, ReaderInv, Procs
    <2>3. FileInv'
      BY <1>1, <1>4 DEF TypeOK, LockFails, Goto, local, FileInv
    <2> QED
      BY <2>1, <2>2, <2>3
  <1>5. CASE Unlock(p)
    <2>1. TypeOK'
      BY <1>1, <1>5 DEF TypeOK, Unlock, Released, Goto, local
    <2>2. LockInv' /\ ReaderInv'
      BY <1>5, ProcsAreDistinct
         DEF TypeOK, Unlock, Released, Goto, local, LockInv, ReaderInv, Procs
    <2>3. FileInv'
      BY <1>1, <1>5 DEF TypeOK, Unlock, Goto, local, FileInv
    <2> QED
      BY <2>1, <2>2, <2>3
  <1>6. CASE Open(p)
    <2>1. TypeOK'
      BY <1>1, <1>6 DEF TypeOK, Open, Goto
    <2>2. LockInv' /\ ReaderInv'
      BY <1>6, ProcsAreDistinct DEF TypeOK, Open, Goto, LockInv, ReaderInv, Procs
    <2>3. FileInv'
      BY <1>1, <1>6 DEF TypeOK, Open, Goto, FileInv
    <2> QED
      BY <2>1, <2>2, <2>3
  <1>7. CASE OpenNothing(p)
    <2>1. TypeOK'
      BY <1>1, <1>7 DEF TypeOK, OpenNothing, Goto
    <2>2. LockInv' /\ ReaderInv'
      BY <1>7, ProcsAreDistinct DEF TypeOK, OpenNothing, Goto, LockInv, ReaderInv, Procs
    <2>3. FileInv'
      BY <1>1, <1>7 DEF TypeOK, OpenNothing, Goto, FileInv
    <2> QED
      BY <2>1, <2>2, <2>3
  <1>8. ASSUME Read(p) \/ ReadFails(p)
        PROVE  WholeInv'
    <2>1. /\ pc[p] = "read" /\ lock' = lock /\ handle' = handle
          /\ copy' \in {copy, [copy EXCEPT ![p] = files[handle[p]].edits]}
          /\ Remember(p)
      BY <1>8 DEF Read, ReadFails
    <2>2. PICK step \in {"edit", "done", "ready", "stat", "unlock"} :
            /\ pc' = [pc EXCEPT ![p] = step]
            /\ step = "done" => p \notin Editors
      BY <1>8 DEF Read, ReadFails, AfterLoad, Goto
    <2>3. handle[p] \in 1 .. Len(files)
      BY <2>1 DEF TypeOK, FileInv, NoFile
    <2>4. p \notin Editors => lock # p
      BY <2>1, ProcsAreDistinct DEF LockInv, ReaderInv, Procs
    <2>5. seen' \in [Tuis -> 0 .. Len(files)] /\ noticed' \in [Tuis -> 0 .. Len(files)]
      <3>1. 0 \in 0 .. Len(files)
        BY <1>2
      <3>2. CASE p \in Tuis /\ noticed[p] # NoFile
        BY <2>1, <3>1, <3>2 DEF TypeOK, Remember, NoFile
      <3>3. CASE ~(p \in Tuis /\ noticed[p] # NoFile)
        BY <2>1, <3>3 DEF TypeOK, Remember
      <3> QED
        BY <3>2, <3>3
    <2>6. copy' \in [Procs -> SUBSET Edits]
      BY <1>2, <2>1, <2>3 DEF TypeOK
    <2>7. TypeOK'
      BY <1>1, <2>1, <2>2, <2>4, <2>5, <2>6 DEF TypeOK
    <2>8. LockInv' /\ ReaderInv'
      BY <2>1, <2>2, ProcsAreDistinct DEF TypeOK, LockInv, ReaderInv, Procs
    <2>9. FileInv'
      BY <1>1, <2>1, <2>2 DEF TypeOK, FileInv
    <2> QED
      BY <2>7, <2>8, <2>9
  <1>9. CASE Edit(p)
    <2>1. TypeOK'
      BY <1>1, <1>9 DEF TypeOK, Edit, Goto, Edits
    <2>2. LockInv' /\ ReaderInv'
      BY <1>9, ProcsAreDistinct DEF TypeOK, Edit, Goto, LockInv, ReaderInv, Procs
    <2>3. FileInv'
      BY <1>1, <1>9 DEF TypeOK, Edit, Goto, FileInv
    <2> QED
      BY <2>1, <2>2, <2>3
  <1>10. CASE Refuse(p)
    <2>1. TypeOK'
      BY <1>1, <1>10 DEF TypeOK, Refuse, Goto, local
    <2>2. LockInv' /\ ReaderInv'
      BY <1>10, ProcsAreDistinct DEF TypeOK, Refuse, Goto, local, LockInv, ReaderInv, Procs
    <2>3. FileInv'
      BY <1>1, <1>10 DEF TypeOK, Refuse, Goto, local, FileInv
    <2> QED
      BY <2>1, <2>2, <2>3
  <1>11. CASE WriteFails(p)
    <2>1. PICK step \in {"edit", "done", "ready", "stat", "unlock"} :
            /\ pc' = [pc EXCEPT ![p] = step]
            /\ step = "done" => p \notin Editors
            /\ p \in Tuis => step # "done" /\ (copy[p] # {} => step = "unlock")
      BY <1>11, ProcsAreDistinct DEF WriteFails, AfterSave, Creating, AfterLoad, Goto
    <2>2. UNCHANGED <<lock, local>>
      BY <1>11 DEF WriteFails
    <2>3. step = "done" => lock # p
      BY <2>1 DEF ReaderInv, Procs
    <2>4. TypeOK'
      BY <1>1, <2>1, <2>2, <2>3 DEF TypeOK, local
    <2>5. LockInv' /\ ReaderInv'
      BY <2>1, <2>2, ProcsAreDistinct DEF TypeOK, local, LockInv, ReaderInv, Procs
    <2>6. FileInv'
      BY <1>1, <2>1, <2>2 DEF TypeOK, local, FileInv
    <2> QED
      BY <2>4, <2>5, <2>6
  <1>12. CASE Crash(p)
    <2>1. TypeOK'
      BY <1>1, <1>12 DEF TypeOK, Crash, Released, Goto, local
    <2>2. LockInv' /\ ReaderInv'
      BY <1>12, ProcsAreDistinct
         DEF TypeOK, Crash, Released, Goto, local, LockInv, ReaderInv, Procs
    <2>3. FileInv'
      BY <1>1, <1>12 DEF TypeOK, Crash, Goto, local, FileInv
    <2> QED
      BY <2>1, <2>2, <2>3
  <1>13. CASE Upgrade(p)
    <2>1. /\ pc[p] = "read" /\ pc' = [pc EXCEPT ![p] = "save"]
          /\ copy' = [copy EXCEPT ![p] = files[handle[p]].edits]
          /\ UNCHANGED <<lock, handle, seen, noticed>>
      BY <1>13 DEF Upgrade, Goto
    <2>2. handle[p] \in 1 .. Len(files)
      BY <2>1 DEF TypeOK, FileInv, NoFile
    <2>3. copy' \in [Procs -> SUBSET Edits]
      BY <1>2, <2>1, <2>2 DEF TypeOK
    <2>4. TypeOK'
      BY <1>1, <2>1, <2>3 DEF TypeOK
    <2>5. LockInv' /\ ReaderInv'
      BY <2>1, ProcsAreDistinct DEF TypeOK, LockInv, ReaderInv, Procs
    <2>6. FileInv'
      BY <1>1, <2>1 DEF TypeOK, FileInv
    <2> QED
      BY <2>4, <2>5, <2>6
  <1> QED
    BY <1>3, <1>4, <1>5, <1>6, <1>7, <1>8, <1>9, <1>10, <1>11, <1>12, <1>13

\* A file is created, completed, and only then renamed to config_path.
LEMMA SavingStaysWhole ==
    ASSUME WholeInv, NEW p \in Procs, CreateTmp(p) \/ WriteTmp(p) \/ Rename(p)
    PROVE  WholeInv'
  <1> USE DEF WholeInv
  <1>1. files \in Seq(File) /\ Len(files) \in Nat /\ path \in 0 .. Len(files)
    BY DEF TypeOK
  <1>2. CASE CreateTmp(p)
    <2>1. PICK f : f = Begun(copy[p])
      OBVIOUS
    <2>2. f \in File
      BY <2>1 DEF Begun, File, TypeOK
    <2>3. /\ files' = Append(files, f) /\ path' = path /\ lock' = lock
          /\ tmp' = [tmp EXCEPT ![p] = Len(files')]
          /\ pc' = [pc EXCEPT ![p] = "write"]
          /\ UNCHANGED <<handle, copy, seen, noticed, saves>>
      BY <1>2, <2>1 DEF CreateTmp, Goto
    <2>4. /\ files' \in Seq(File) /\ Len(files') = Len(files) + 1
          /\ \A i \in 1 .. Len(files) : files'[i] = files[i]
      BY <1>1, <2>2, <2>3, Appended
    <2>5. 0 .. Len(files) \subseteq 0 .. Len(files') /\ Len(files') \in 1 .. Len(files')
      BY <1>1, <2>4
    <2>6. TypeOK'
      BY <2>3, <2>4, <2>5 DEF TypeOK
    <2>7. LockInv' /\ ReaderInv'
      BY <2>3, ProcsAreDistinct DEF TypeOK, LockInv, ReaderInv, Procs
    <2>8. FileInv'
      <3>1. path' # NoFile => files'[path'].state # "partial"
        BY <1>1, <2>3, <2>4 DEF FileInv, NoFile
      <3>2. ASSUME NEW q \in Procs
            PROVE  /\ pc'[q] = "read" =>
                        handle'[q] # NoFile /\ files'[handle'[q]].state # "partial"
                   /\ pc'[q] \in {"write", "rename"} => tmp'[q] # NoFile
                   /\ pc'[q] = "rename" => files'[tmp'[q]].state = "complete"
        <4>1. handle[q] \in 0 .. Len(files) /\ tmp[q] \in 0 .. Len(files)
          BY DEF TypeOK
        <4>2. pc'[q] \in {"read", "rename"} => pc'[q] = pc[q] /\ q # p /\ tmp'[q] = tmp[q]
          BY <2>3 DEF TypeOK
        <4> QED
          BY <2>3, <2>4, <2>5, <4>1, <4>2 DEF TypeOK, FileInv, NoFile
      <3> QED
        BY <3>1, <3>2 DEF FileInv
    <2> QED
      BY <2>6, <2>7, <2>8
  <1>3. CASE WriteTmp(p)
    <2>1. /\ files' = [files EXCEPT ![tmp[p]].state = "complete"]
          /\ pc[p] = "write" /\ pc' = [pc EXCEPT ![p] = "rename"]
          /\ path' = path /\ lock' = lock
          /\ UNCHANGED <<handle, copy, tmp, seen, noticed, saves>>
      BY <1>3 DEF WriteTmp, Goto, local
    <2>2. tmp[p] \in 1 .. Len(files)
      BY <2>1 DEF TypeOK, FileInv, NoFile
    <2>3. /\ files' \in Seq(File) /\ Len(files') = Len(files)
          /\ files'[tmp[p]].state = "complete"
          /\ \A i \in 1 .. Len(files) \ {tmp[p]} : files'[i] = files[i]
      BY <1>1, <2>1, <2>2, Completed
    <2>4. TypeOK'
      BY <2>1, <2>3 DEF TypeOK
    <2>5. LockInv' /\ ReaderInv'
      BY <2>1, ProcsAreDistinct DEF TypeOK, LockInv, ReaderInv, Procs
    <2>6. FileInv'
      <3>1. path' # NoFile => files'[path'].state # "partial"
        BY <1>1, <2>1, <2>3 DEF FileInv, NoFile
      <3>2. ASSUME NEW q \in Procs
            PROVE  /\ pc'[q] = "read" =>
                        handle'[q] # NoFile /\ files'[handle'[q]].state # "partial"
                   /\ pc'[q] \in {"write", "rename"} => tmp'[q] # NoFile
                   /\ pc'[q] = "rename" => files'[tmp'[q]].state = "complete"
        <4>1. handle[q] \in 0 .. Len(files) /\ tmp[q] \in 0 .. Len(files)
          BY DEF TypeOK
        <4>2. pc'[q] = IF q = p THEN "rename" ELSE pc[q]
          BY <2>1 DEF TypeOK
        <4> QED
          BY <2>1, <2>2, <2>3, <4>1, <4>2 DEF FileInv, NoFile
      <3> QED
        BY <3>1, <3>2 DEF FileInv
    <2> QED
      BY <2>4, <2>5, <2>6
  <1>4. CASE Rename(p)
    <2>1. PICK step \in {"edit", "done", "ready", "stat", "unlock"} :
            /\ pc' = [pc EXCEPT ![p] = step]
            /\ step = "done" => p \notin Editors
            /\ p \in Tuis => step # "done" /\ (copy[p] # {} => step = "unlock")
      BY <1>4, ProcsAreDistinct DEF Rename, AfterSave, Creating, AfterLoad, Goto
    <2>2. /\ pc[p] = "rename" /\ path' = tmp[p] /\ files' = files
          /\ UNCHANGED <<lock, handle, copy, tmp, seen, noticed, saves>>
      BY <1>4 DEF Rename, local
    <2>3. step = "done" => lock # p
      BY <2>1 DEF ReaderInv, Procs
    <2>4. tmp[p] \in 0 .. Len(files) /\ files[tmp[p]].state = "complete"
      BY <2>2 DEF TypeOK, FileInv
    <2>5. TypeOK'
      BY <2>1, <2>2, <2>3, <2>4 DEF TypeOK
    <2>6. LockInv' /\ ReaderInv'
      BY <2>1, <2>2, ProcsAreDistinct DEF TypeOK, LockInv, ReaderInv, Procs
    <2>7. FileInv'
      BY <2>1, <2>2, <2>4 DEF TypeOK, FileInv
    <2> QED
      BY <2>5, <2>6, <2>7
  <1> QED
    BY <1>2, <1>3, <1>4

\* What only a TUI does.
LEMMA TuiStepsStayWhole ==
    ASSUME WholeInv, NEW t \in Tuis, TuiStep(t) \/ KeyPress(t)
    PROVE  WholeInv'
  <1> USE DEF WholeInv
  <1>1. t \in Procs /\ files' = files /\ path' = path /\ lock' = lock /\ tmp' = tmp
    BY DEF Procs, TuiStep, Stat, ReloadIfChanged, KeyPress, Change, OpenDialog,
           CloseDialog, local
  <1>2. CASE Stat(t)
    <2>1. TypeOK'
      BY <1>1, <1>2 DEF TypeOK, Stat, Goto
    <2>2. LockInv' /\ ReaderInv' /\ FileInv'
      BY <1>1, <1>2, ProcsAreDistinct
         DEF TypeOK, Stat, Goto, LockInv, ReaderInv, FileInv, Procs
    <2> QED
      BY <2>1, <2>2
  <1>3. CASE ReloadIfChanged(t)
    <2>1. TypeOK'
      BY <1>1, <1>3 DEF TypeOK, ReloadIfChanged, Goto
    <2>2. LockInv' /\ ReaderInv' /\ FileInv'
      BY <1>1, <1>3, ProcsAreDistinct
         DEF TypeOK, ReloadIfChanged, Goto, LockInv, ReaderInv, FileInv, Procs
    <2> QED
      BY <2>1, <2>2
  <1>4. CASE Change(t)
    <2>1. saves[t] + 1 \in 1 .. TuiSaves
      BY <1>4, SavesAssumption DEF Change, TypeOK
    <2>2. PICK e \in Edits : e = <<t, saves[t] + 1>>
      BY <2>1 DEF Edits, TuiEdits
    <2>3. /\ pc' = [pc EXCEPT ![t] = "lock"] /\ copy' = [copy EXCEPT ![t] = @ \cup {e}]
          /\ saves' = [saves EXCEPT ![t] = saves[t] + 1]
          /\ UNCHANGED <<handle, seen, noticed>> /\ pc[t] \in {"ready", "dialog"}
      BY <1>4, <2>2 DEF Change, Goto
    <2>4. TypeOK'
      BY <1>1, <2>1, <2>3 DEF TypeOK
    <2>5. LockInv' /\ ReaderInv' /\ FileInv'
      BY <1>1, <2>3, ProcsAreDistinct DEF TypeOK, LockInv, ReaderInv, FileInv, Procs
    <2> QED
      BY <2>4, <2>5
  <1>5. CASE OpenDialog(t) \/ CloseDialog(t)
    <2>1. PICK step \in {"ready", "dialog"} : pc' = [pc EXCEPT ![t] = step]
      BY <1>5 DEF OpenDialog, CloseDialog, Goto
    <2>2. /\ pc[t] \in {"ready", "dialog"}
          /\ UNCHANGED <<handle, copy, seen, noticed, saves>>
      BY <1>5 DEF OpenDialog, CloseDialog, local
    <2>3. TypeOK'
      BY <1>1, <2>1, <2>2 DEF TypeOK
    <2>4. LockInv' /\ ReaderInv' /\ FileInv'
      BY <1>1, <2>1, <2>2, ProcsAreDistinct
         DEF TypeOK, LockInv, ReaderInv, FileInv, Procs
    <2> QED
      BY <2>3, <2>4
  <1> QED
    BY <1>2, <1>3, <1>4, <1>5 DEF TuiStep, KeyPress

\* The user's editor leaves a file that does not parse, but no partial one.
LEMMA UserKeepsItWhole ==
    ASSUME WholeInv, UserBreaksFile
    PROVE  WholeInv'
  <1> USE DEF WholeInv
  <1>1. files \in Seq(File) /\ Len(files) \in Nat /\ path \in 0 .. Len(files)
    BY DEF TypeOK
  <1>2. PICK f : f = [edits |-> {}, state |-> "invalid"]
    OBVIOUS
  <1>3. f \in File /\ f.state = "invalid"
    BY <1>2 DEF File
  <1>4. /\ files' = Append(files, f) /\ path' = Len(files') /\ lock' = lock /\ pc' = pc
        /\ UNCHANGED <<handle, copy, tmp, seen, noticed, saves>>
    BY <1>2 DEF UserBreaksFile, local
  <1>5. /\ files' \in Seq(File) /\ Len(files') = Len(files) + 1
        /\ files'[Len(files) + 1] = f
        /\ \A i \in 1 .. Len(files) : files'[i] = files[i]
    BY <1>1, <1>3, <1>4, Appended
  <1>6. 0 .. Len(files) \subseteq 0 .. Len(files') /\ Len(files') \in 1 .. Len(files')
    BY <1>1, <1>5
  <1>7. TypeOK'
    BY <1>4, <1>5, <1>6 DEF TypeOK
  <1>8. LockInv' /\ ReaderInv'
    BY <1>4 DEF LockInv, ReaderInv
  <1>9. FileInv'
    <2>1. \A q \in Procs : handle[q] \in 0 .. Len(files) /\ tmp[q] \in 0 .. Len(files)
      BY DEF TypeOK
    <2> QED
      BY <1>3, <1>4, <1>5, <2>1 DEF FileInv, NoFile
  <1> QED
    BY <1>7, <1>8, <1>9

\* Every step keeps the files whole.
LEMMA NextStaysWhole ==
    ASSUME WholeInv, [Next]_vars
    PROVE  WholeInv'
  <1>1. CASE UNCHANGED vars
    BY <1>1 DEF vars, WholeInv, TypeOK, LockInv, ReaderInv, FileInv
  <1> QED
    BY <1>1, QuietStepsStayWhole, SavingStaysWhole, TuiStepsStayWhole, UserKeepsItWhole
       DEF Next, Step, Answer

\* The invariant of the first part holds in every reachable state.
LEMMA WholeIsInvariant == Spec => []WholeInv
  BY InitIsWhole, NextStaysWhole, PTL DEF Spec

\* Type correctness; a process that has ended does not hold the lock.
THEOREM TypeCorrect == Spec => []TypeOK
  BY WholeIsInvariant, PTL DEF WholeInv

\* However many programs load and save, with the lock or without it, and
\* whoever is killed where, no load meets a half-written file.
THEOREM LoadsAreWhole == Spec => []NoPartialLoad
  <1>1. WholeInv => NoPartialLoad
    BY DEF WholeInv, FileInv, NoPartialLoad
  <1> QED
    BY <1>1, WholeIsInvariant, PTL

----------------------------------------------------------------------------
(* Edits are atomic                                                        *)

\* No file holds the edit; none of these programs has it in memory.
Unsaved(e) == \A f \in 1 .. Len(files) : e \notin files[f].edits
UnknownTo(others, e) == \A q \in others : e \notin copy[q]

\* Whoever is between its lock and its unlock holds the lock.
HolderInv(p) ==
    /\ p \in Editors => pc[p] \in {"lock", "done"} \/ lock = p
    /\ pc[p] \in {"save", "write", "rename"} => lock = p /\ copy[p] # {}
    /\ pc[p] \in {"write", "rename"} => files[tmp[p]].edits = copy[p]

\* A command works on the contents it will replace, which lack its edit; the
\* edit is its own until it is saved.
EditorInv(p) ==
    p \in Editors =>
      /\ pc[p] \in {"lock", "load", "read", "edit"} => Unsaved(p) /\ UnknownTo(Procs, p)
      /\ pc[p] = "read" => handle[p] = path
      /\ pc[p] = "edit" => copy[p] = Contents
      /\ pc[p] \in {"save", "write", "rename"} =>
           copy[p] = Contents \cup {p} /\ p \notin Contents

Newest(t) == <<t, saves[t]>>

\* What a TUI is about to save has an edit that the file has not.
TuiInv(t) ==
    t \in Tuis =>
      /\ \A k \in 1 .. TuiSaves :
           k > saves[t] => Unsaved(<<t, k>>) /\ UnknownTo(Procs, <<t, k>>)
      /\ pc[t] \in {"lock", "save", "write", "rename"} =>
           saves[t] >= 1 /\ Newest(t) \in copy[t]
      /\ pc[t] = "lock" => Unsaved(Newest(t)) /\ UnknownTo(Procs \ {t}, Newest(t))
      /\ pc[t] \in {"save", "write", "rename"} => Newest(t) \notin Contents

ProcInv(p) == HolderInv(p) /\ EditorInv(p) /\ TuiInv(p)

\* No load finds a file to upgrade, so none saves.
NoLegacy == \A f \in 1 .. Len(files) : files[f].state # "legacy"

\* The inductive invariant of the second part.
SharedInv == WholeInv /\ path # NoFile /\ NoLegacy /\ \A p \in Procs : ProcInv(p)

\* What the theorem is about: the lock can be had, the file is there, in the
\* format of this version, and only the programs write it.
Cooperative == Starts = {"current"} /\ ~LockMayFail /\ ~UserBreaks

LEMMA InitIsShared ==
    ASSUME Cooperative, Init
    PROVE  SharedInv
  <1>1. WholeInv
    BY InitIsWhole
  <1>2. files = FilesAtStart("current") /\ path = Len(files)
    BY DEF Init, Cooperative
  <1>3. Len(files) = 1 /\ files[1].edits = {} /\ files[1].state = "complete"
    BY <1>2 DEF FilesAtStart
  <1>4. \A e : Unsaved(e) /\ UnknownTo(Procs, e)
    BY <1>3 DEF Unsaved, UnknownTo, Init
  <1>5. ASSUME NEW p \in Procs
        PROVE  ProcInv(p)
    <2>1. pc[p] = IF p \in Editors THEN "lock" ELSE "load"
      BY DEF Init
    <2>2. HolderInv(p) /\ EditorInv(p)
      BY <1>4, <2>1 DEF HolderInv, EditorInv
    <2>3. TuiInv(p)
      BY <1>4, <2>1, ProcsAreDistinct DEF TuiInv
    <2> QED
      BY <2>2, <2>3 DEF ProcInv
  <1> QED
    BY <1>1, <1>2, <1>3, <1>5 DEF SharedInv, NoLegacy, NoFile

\* A step of p that only moves its pc, its handle or the lock keeps what the
\* invariant says of the others.
LEMMA OthersStay ==
    ASSUME SharedInv, WholeInv', NEW p \in Procs, NEW step,
           pc' = [pc EXCEPT ![p] = step],
           UNCHANGED <<files, path, copy, tmp, saves>>,
           \A q \in Procs \ {p} : /\ lock = q => lock' = q
                                  /\ handle'[q] = handle[q],
           ProcInv(p)'
    PROVE  SharedInv' /\ Contents' = Contents
  <1>1. Contents' = Contents
    BY DEF Contents
  <1>2. ASSUME NEW q \in Procs, q # p
        PROVE  ProcInv(q)'
    <2>1. pc'[q] = pc[q]
      BY <1>2 DEF SharedInv, WholeInv, TypeOK
    <2>2. ProcInv(q)
      BY DEF SharedInv
    <2>3. \A e, o : (Unsaved(e)' <=> Unsaved(e)) /\ (UnknownTo(o, e)' <=> UnknownTo(o, e))
      BY DEF Unsaved, UnknownTo
    <2>4. HolderInv(q)'
      BY <1>2, <2>1, <2>2 DEF ProcInv, HolderInv
    <2>5. EditorInv(q)'
      BY <1>1, <1>2, <2>1, <2>2, <2>3 DEF ProcInv, EditorInv
    <2>6. TuiInv(q)'
      BY <1>1, <2>1, <2>2, <2>3 DEF ProcInv, TuiInv, Newest
    <2> QED
      BY <2>4, <2>5, <2>6 DEF ProcInv
  <1> QED
    BY <1>1, <1>2 DEF SharedInv, NoLegacy

\* The steps of OthersStay.
LEMMA QuietStepsStayShared ==
    ASSUME Cooperative, SharedInv, WholeInv', NEW p \in Procs,
           \/ Lock(p) \/ LockFails(p) \/ Unlock(p) \/ Open(p) \/ ReadFails(p)
           \/ Refuse(p) \/ WriteFails(p) \/ Crash(p)
           \/ p \in Tuis /\ (TuiStep(p) \/ OpenDialog(p) \/ CloseDialog(p))
    PROVE  SharedInv' /\ Contents' = Contents
  <1>1. ~LockFails(p)
    BY DEF LockFails, Cooperative
  <1>2. /\ UNCHANGED <<files, path, copy, tmp, saves>>
        /\ \A q \in Procs \ {p} : /\ lock = q => lock' = q
                                  /\ handle'[q] = handle[q]
    <2>1. UNCHANGED <<files, path, copy, tmp, saves>>
      BY <1>1 DEF Lock, Unlock, Open, ReadFails, Refuse, WriteFails, Crash, TuiStep,
                  Stat, ReloadIfChanged, OpenDialog, CloseDialog, local
    <2>2. \A q \in Procs \ {p} : lock = q => lock' = q
      BY <1>1, ProcsAreDistinct
         DEF Lock, Unlock, Open, ReadFails, Refuse, WriteFails, Crash, Released, TuiStep,
             Stat, ReloadIfChanged, OpenDialog, CloseDialog, Procs
    <2>3. handle' = handle \/ handle' = [handle EXCEPT ![p] = path]
      BY <1>1 DEF Lock, Unlock, Open, ReadFails, Refuse, WriteFails, Crash, TuiStep,
                  Stat, ReloadIfChanged, OpenDialog, CloseDialog, local
    <2> QED
      BY <2>1, <2>2, <2>3 DEF SharedInv, WholeInv, TypeOK
  <1>3. /\ Contents' = Contents
        /\ \A e, o : (Unsaved(e)' <=> Unsaved(e)) /\ (UnknownTo(o, e)' <=> UnknownTo(o, e))
    BY <1>2 DEF Contents, Unsaved, UnknownTo
  <1>4. /\ ProcInv(p) /\ pc \in [Procs -> {"lock", "load", "read", "edit", "save", "write",
                                "rename", "unlock", "stat", "ready", "dialog", "done"}]
        /\ handle \in [Procs -> 0 .. Len(files)]
    BY DEF SharedInv, WholeInv, TypeOK
  <1>5. SUFFICES ASSUME NEW step, pc' = [pc EXCEPT ![p] = step]
                 PROVE  ProcInv(p)'
    <2>1. \E step : pc' = [pc EXCEPT ![p] = step]
      BY <1>1 DEF Lock, Unlock, Open, ReadFails, Refuse, WriteFails, Crash, TuiStep,
                  Stat, ReloadIfChanged, OpenDialog, CloseDialog, Goto
    <2> QED
      BY <1>2, <1>5, <2>1, OthersStay
  <1>6. pc'[p] = step
    BY <1>4, <1>5
  <1>7. CASE Lock(p)
    <2>1. /\ pc[p] = "lock" /\ lock' = p
          /\ step = IF p \in Editors THEN "load" ELSE "save"
      BY <1>4, <1>5, <1>7 DEF Lock, Goto
    <2>2. CASE p \in Editors
      BY <1>3, <1>4, <1>6, <2>1, <2>2, ProcsAreDistinct
         DEF ProcInv, HolderInv, EditorInv, TuiInv
    <2>3. CASE p \notin Editors
      <3>1. p \in Tuis /\ copy[p] # {}
        BY <2>1, <2>3 DEF SharedInv, WholeInv, LockInv, ReaderInv, Procs
      <3>2. Newest(p) \notin Contents
        BY <1>4, <2>1, <3>1
           DEF SharedInv, WholeInv, TypeOK, ProcInv, TuiInv, Unsaved, Contents, NoFile
      <3>3. Newest(p)' = Newest(p) /\ saves' = saves /\ copy' = copy
        BY <1>2 DEF Newest
      <3>4. HolderInv(p)' /\ EditorInv(p)'
        BY <1>6, <2>1, <2>3, <3>1, <3>3 DEF HolderInv, EditorInv
      <3>5. TuiInv(p)'
        BY <1>3, <1>4, <1>6, <2>1, <2>3, <3>1, <3>2, <3>3 DEF ProcInv, TuiInv
      <3> QED
        BY <3>4, <3>5 DEF ProcInv
    <2> QED
      BY <2>2, <2>3
  <1>8. CASE Open(p)
    <2>1. step = "read" /\ pc[p] = "load" /\ lock' = lock /\ handle'[p] = path /\ path' = path
      BY <1>4, <1>5, <1>8 DEF Open, Goto
    <2> QED
      BY <1>2, <1>3, <1>4, <1>6, <2>1 DEF ProcInv, HolderInv, EditorInv, TuiInv
  <1>9. CASE Unlock(p) \/ Crash(p)
    <2>1. step \in {"stat", "done"} /\ (p \in Editors => step = "done")
      BY <1>4, <1>5, <1>9, ProcsAreDistinct DEF Unlock, Crash, Goto
    <2> QED
      BY <1>2, <1>3, <1>4, <1>6, <2>1 DEF ProcInv, HolderInv, EditorInv, TuiInv
  <1>10. CASE ReadFails(p) \/ Refuse(p) \/ WriteFails(p)
    <2>1. /\ step \in {"unlock", "ready", "done"} /\ (p \in Editors => step = "unlock")
          /\ lock' = lock /\ pc[p] # "lock" /\ pc[p] # "done"
      BY <1>4, <1>5, <1>10, ProcsAreDistinct
         DEF ReadFails, Refuse, WriteFails, AfterSave, Creating, Goto, ProcInv, HolderInv
    <2> QED
      BY <1>2, <1>3, <1>4, <1>6, <2>1 DEF ProcInv, HolderInv, EditorInv, TuiInv
  <1>11. CASE p \in Tuis /\ (TuiStep(p) \/ OpenDialog(p) \/ CloseDialog(p))
    <2>1. step \in {"ready", "load", "dialog"} /\ p \notin Editors
      BY <1>4, <1>5, <1>11, ProcsAreDistinct
         DEF TuiStep, Stat, ReloadIfChanged, OpenDialog, CloseDialog, Goto
    <2> QED
      BY <1>2, <1>3, <1>4, <1>6, <2>1 DEF ProcInv, HolderInv, EditorInv, TuiInv
  <1> QED
    BY <1>1, <1>7, <1>8, <1>9, <1>10, <1>11

\* The edits a program makes are its own.
Own(p) == {e \in Edits : \/ p \in Editors /\ e = p
                         \/ p \in Tuis /\ \E k \in 1 .. TuiSaves : e = <<p, k>>}

LEMMA OwnIsOwn ==
    ASSUME NEW p \in Procs, NEW q \in Procs, q # p
    PROVE  /\ q \in Editors => q \in Edits \ Own(p)
           /\ q \in Tuis => \A k \in 1 .. TuiSaves : <<q, k>> \in Edits \ Own(p)
  BY ProcsAreDistinct DEF Own, Edits, TuiEdits

\* A step that changes only the copy of p, and only by edits of its own and by
\* ones that are in some file, keeps what the invariant says of the others.
LEMMA OthersKeepTheirEdits ==
    ASSUME SharedInv, WholeInv', NEW p \in Procs, NEW step, NEW c,
           pc' = [pc EXCEPT ![p] = step], copy' = [copy EXCEPT ![p] = c],
           UNCHANGED <<files, path, lock, handle, tmp>>,
           \A q \in Tuis \ {p} : saves'[q] = saves[q],
           \A e \in Edits \ Own(p) : Unsaved(e) /\ e \notin copy[p] => e \notin c
    PROVE  \A q \in Procs \ {p} : ProcInv(q)'
  <1> SUFFICES ASSUME NEW q \in Procs, q # p
               PROVE  ProcInv(q)'
    OBVIOUS
  <1>1. /\ pc'[q] = pc[q] /\ copy'[q] = copy[q] /\ copy'[p] = c
        /\ path \in 0 .. Len(files)
        /\ \A r \in Procs \ {p} : copy'[r] = copy[r]
    BY DEF SharedInv, WholeInv, TypeOK
  <1>2. ProcInv(q) /\ Contents' = Contents /\ \A e : Unsaved(e)' <=> Unsaved(e)
    BY DEF SharedInv, Contents, Unsaved
  <1>3. HolderInv(q)'
    BY <1>1, <1>2 DEF ProcInv, HolderInv
  <1>4. ASSUME NEW e \in Edits \ Own(p), NEW o \in SUBSET Procs, p \in o,
               Unsaved(e), UnknownTo(o, e)
        PROVE  UnknownTo(o, e)'
    BY <1>1, <1>4 DEF UnknownTo
  <1>5. EditorInv(q)'
    <2>1. q \in Editors /\ Unsaved(q) /\ UnknownTo(Procs, q) => UnknownTo(Procs, q)'
      BY <1>4, OwnIsOwn
    <2> QED
      BY <1>1, <1>2, <2>1 DEF ProcInv, EditorInv
  <1>6. TuiInv(q)'
    <2>1. CASE q \in Tuis
      <3>1. saves'[q] = saves[q] /\ Newest(q)' = Newest(q) /\ saves[q] \in 0 .. TuiSaves
        BY <2>1 DEF Newest, SharedInv, WholeInv, TypeOK
      <3>2. ASSUME NEW k \in 1 .. TuiSaves, Unsaved(<<q, k>>), UnknownTo(Procs, <<q, k>>)
            PROVE  UnknownTo(Procs, <<q, k>>)'
        BY <1>4, <2>1, <3>2, OwnIsOwn
      <3>3. ASSUME pc[q] = "lock"
            PROVE  UnknownTo(Procs \ {q}, Newest(q))'
        <4>1. /\ saves[q] \in 1 .. TuiSaves /\ Unsaved(Newest(q))
              /\ UnknownTo(Procs \ {q}, Newest(q))
          BY <1>2, <2>1, <3>1, <3>3 DEF ProcInv, TuiInv
        <4>2. PICK e : e = Newest(q)
          OBVIOUS
        <4>3. e \in Edits \ Own(p)
          BY <2>1, <4>1, <4>2, OwnIsOwn DEF Newest
        <4>4. UnknownTo(Procs \ {q}, e)'
          BY <1>4, <4>1, <4>2, <4>3
        <4> QED
          BY <3>1, <4>2, <4>4
      <3> QED
        BY <1>1, <1>2, <2>1, <3>1, <3>2, <3>3 DEF ProcInv, TuiInv
    <2>2. CASE q \notin Tuis
      BY <2>2 DEF TuiInv
    <2> QED
      BY <2>1, <2>2
  <1> QED
    BY <1>3, <1>5, <1>6 DEF ProcInv

\* A record is loaded from config_path: by a command, whose lock keeps the file
\* there, or by a reader or a TUI, from what the path named when it was opened.
LEMMA ReadStaysShared ==
    ASSUME SharedInv, WholeInv', NEW p \in Procs, Read(p)
    PROVE  SharedInv' /\ Contents' = Contents
  <1>1. /\ pc[p] = "read" /\ pc' = [pc EXCEPT ![p] = AfterLoad(p)]
        /\ copy' = [copy EXCEPT ![p] = files[handle[p]].edits]
        /\ UNCHANGED <<files, path, lock, handle, tmp, saves>>
    BY DEF Read, Goto
  <1>2. handle[p] \in 1 .. Len(files) /\ ProcInv(p)
    BY <1>1 DEF SharedInv, WholeInv, TypeOK, FileInv, NoFile
  <1>3. \A e : Unsaved(e) => e \notin files[handle[p]].edits
    BY <1>2 DEF Unsaved
  <1>4. \A q \in Procs \ {p} : ProcInv(q)'
    BY <1>1, <1>3, OthersKeepTheirEdits
  <1>5. /\ Contents' = Contents /\ \A e : Unsaved(e)' <=> Unsaved(e)
        /\ \A o, e : Unsaved(e) /\ UnknownTo(o, e) => UnknownTo(o, e)'
    BY <1>1, <1>3 DEF Contents, Unsaved, UnknownTo, SharedInv, WholeInv, TypeOK
  <1>6. /\ pc'[p] = AfterLoad(p) /\ copy'[p] = files[handle[p]].edits
        /\ AfterLoad(p) \in {"edit", "done", "ready", "stat"}
        /\ p \in Editors => AfterLoad(p) = "edit"
        /\ p \notin Editors => AfterLoad(p) # "edit"
    BY <1>1 DEF AfterLoad, SharedInv, WholeInv, TypeOK
  <1>7. HolderInv(p)'
    BY <1>1, <1>2, <1>6 DEF ProcInv, HolderInv
  <1>8. EditorInv(p)'
    <2>1. p \in Editors => files[handle[p]].edits = Contents
      BY <1>1, <1>2 DEF ProcInv, EditorInv, Contents, NoFile
    <2> QED
      BY <1>1, <1>2, <1>5, <1>6, <2>1 DEF ProcInv, EditorInv
  <1>9. TuiInv(p)'
    BY <1>1, <1>2, <1>5, <1>6 DEF ProcInv, TuiInv
  <1> QED
    BY <1>1, <1>4, <1>5, <1>7, <1>8, <1>9 DEF SharedInv, NoLegacy, ProcInv

\* A command changes its record, which no one has seen yet.
LEMMA EditStaysShared ==
    ASSUME SharedInv, WholeInv', NEW p \in Procs, Edit(p)
    PROVE  SharedInv' /\ Contents' = Contents
  <1>1. /\ p \in Editors /\ pc[p] = "edit" /\ pc' = [pc EXCEPT ![p] = "save"]
        /\ copy' = [copy EXCEPT ![p] = copy[p] \cup {p}]
        /\ UNCHANGED <<files, path, lock, handle, tmp, saves>>
    BY DEF Edit, Goto
  <1>2. /\ ProcInv(p) /\ path \in 0 .. Len(files) /\ path # 0
        /\ pc'[p] = "save" /\ copy'[p] = copy[p] \cup {p}
    BY <1>1 DEF SharedInv, WholeInv, TypeOK, NoFile
  <1>3. p \in Own(p)
    BY <1>1 DEF Own, Edits
  <1>4. \A q \in Procs \ {p} : ProcInv(q)'
    <2>1. PICK c : c = copy[p] \cup {p}
      OBVIOUS
    <2>2. \A e \in Edits \ Own(p) : Unsaved(e) /\ e \notin copy[p] => e \notin c
      BY <1>3, <2>1
    <2>3. copy' = [copy EXCEPT ![p] = c] /\ \A q \in Tuis \ {p} : saves'[q] = saves[q]
      BY <1>1, <2>1
    <2> QED
      BY <1>1, <2>2, <2>3, OthersKeepTheirEdits
  <1>5. Contents' = Contents
    BY <1>1 DEF Contents
  <1>6. copy[p] = Contents /\ p \notin Contents
    BY <1>1, <1>2 DEF ProcInv, EditorInv, Unsaved, Contents, NoFile
  <1>7. HolderInv(p)' /\ EditorInv(p)'
    BY <1>1, <1>2, <1>5, <1>6 DEF ProcInv, HolderInv, EditorInv
  <1>8. TuiInv(p)'
    BY <1>1, ProcsAreDistinct DEF TuiInv
  <1> QED
    BY <1>1, <1>4, <1>5, <1>7, <1>8 DEF SharedInv, NoLegacy, ProcInv

\* A TUI makes an edit that is new to everyone.
LEMMA ChangeStaysShared ==
    ASSUME SharedInv, WholeInv', NEW t \in Tuis, Change(t)
    PROVE  SharedInv' /\ Contents' = Contents
  <1>1. t \in Procs /\ t \notin Editors
    BY ProcsAreDistinct DEF Procs
  <1>2. /\ saves \in [Tuis -> 0 .. TuiSaves] /\ saves[t] < TuiSaves
        /\ saves[t] \in Nat /\ saves[t] + 1 \in 1 .. TuiSaves
    BY SavesAssumption DEF Change, SharedInv, WholeInv, TypeOK
  <1>3. PICK e : e = <<t, saves[t] + 1>>
    OBVIOUS
  <1>4. /\ pc[t] \in {"ready", "dialog"} /\ pc' = [pc EXCEPT ![t] = "lock"]
        /\ copy' = [copy EXCEPT ![t] = copy[t] \cup {e}]
        /\ saves' = [saves EXCEPT ![t] = saves[t] + 1]
        /\ UNCHANGED <<files, path, lock, handle, tmp>>
    BY <1>3 DEF Change, Goto
  <1>5. /\ ProcInv(t) /\ pc'[t] = "lock" /\ copy'[t] = copy[t] \cup {e}
        /\ saves'[t] = saves[t] + 1 /\ Newest(t)' = e
        /\ \A q \in Procs \ {t} : copy'[q] = copy[q]
    BY <1>1, <1>2, <1>3, <1>4 DEF SharedInv, WholeInv, TypeOK, Newest
  <1>6. e \in Own(t)
    BY <1>2, <1>3 DEF Own, Edits, TuiEdits
  <1>7. \A q \in Procs \ {t} : ProcInv(q)'
    <2>1. \A q \in Tuis \ {t} : saves'[q] = saves[q]
      BY <1>2, <1>4
    <2>2. PICK c : c = copy[t] \cup {e}
      OBVIOUS
    <2>3. \A f \in Edits \ Own(t) : Unsaved(f) /\ f \notin copy[t] => f \notin c
      BY <1>6, <2>2
    <2>4. copy' = [copy EXCEPT ![t] = c]
      BY <1>4, <2>2
    <2> QED
      BY <1>1, <1>4, <2>1, <2>3, <2>4, OthersKeepTheirEdits
  <1>8. Contents' = Contents /\ \A f : Unsaved(f)' <=> Unsaved(f)
    BY <1>4 DEF Contents, Unsaved
  <1>9. HolderInv(t)' /\ EditorInv(t)'
    BY <1>1, <1>5 DEF HolderInv, EditorInv
  <1>10. Unsaved(e) /\ UnknownTo(Procs, e)
    BY <1>2, <1>3, <1>5 DEF ProcInv, TuiInv
  <1>11. ASSUME NEW k \in 1 .. TuiSaves, k > saves[t] + 1
         PROVE  Unsaved(<<t, k>>)' /\ UnknownTo(Procs, <<t, k>>)'
    <2>1. Unsaved(<<t, k>>) /\ UnknownTo(Procs, <<t, k>>) /\ <<t, k>> # e
      BY <1>2, <1>3, <1>5, <1>11 DEF ProcInv, TuiInv
    <2> QED
      BY <1>5, <1>8, <2>1 DEF UnknownTo
  <1>12. UnknownTo(Procs \ {t}, e)'
    BY <1>5, <1>10 DEF UnknownTo
  <1>13. TuiInv(t)'
    <2>1. saves'[t] >= 1
      BY <1>2, <1>5
    <2> QED
      BY <1>5, <1>8, <1>10, <1>11, <1>12, <2>1 DEF TuiInv
  <1> QED
    BY <1>4, <1>7, <1>8, <1>9, <1>13 DEF SharedInv, NoLegacy, ProcInv

\* A temporary file is created and completed: config_path is as it was.
LEMMA TmpStaysShared ==
    ASSUME SharedInv, WholeInv', NEW p \in Procs, CreateTmp(p) \/ WriteTmp(p)
    PROVE  SharedInv' /\ Contents' = Contents
  <1>1. /\ files \in Seq(File) /\ Len(files) \in Nat /\ path \in 1 .. Len(files)
        /\ \A q \in Procs : tmp[q] \in 0 .. Len(files)
        /\ pc[p] \in {"save", "write"} /\ ProcInv(p)
    <2>1. TypeOK /\ path # 0 /\ ProcInv(p)
      BY DEF SharedInv, WholeInv, NoFile
    <2>2. pc[p] \in {"save", "write"}
      BY DEF CreateTmp, WriteTmp
    <2>3. files \in Seq(File) /\ path \in 0 .. Len(files)
      BY <2>1 DEF TypeOK
    <2>4. \A q \in Procs : tmp[q] \in 0 .. Len(files)
      BY <2>1 DEF TypeOK
    <2> QED
      BY <2>1, <2>2, <2>3, <2>4
  <1>2. lock = p
    BY <1>1 DEF ProcInv, HolderInv
  \* Both steps keep the edits of every file there was, and a new one has p's.
  <1>3. PICK step \in {"write", "rename"} :
          /\ pc' = [pc EXCEPT ![p] = step] /\ path' = path
          /\ UNCHANGED <<lock, handle, copy, seen, noticed, saves>>
          /\ \A q \in Procs \ {p} : tmp'[q] = tmp[q]
          /\ files'[tmp'[p]].edits = copy[p]
          /\ \A f \in 1 .. Len(files) : files'[f].edits = files[f].edits
          /\ \A f \in 1 .. Len(files') :
               f \in 1 .. Len(files) \/ files'[f].edits = copy[p]
          /\ NoLegacy'
    <2>1. CASE CreateTmp(p)
      <3>1. PICK f : f = Begun(copy[p])
        OBVIOUS
      <3>2. f \in File /\ f.edits = copy[p] /\ f.state = "partial"
        BY <3>1 DEF Begun, File, SharedInv, WholeInv, TypeOK
      <3>3. /\ files' = Append(files, f) /\ path' = path
            /\ tmp' = [tmp EXCEPT ![p] = Len(files')]
            /\ pc' = [pc EXCEPT ![p] = "write"]
            /\ UNCHANGED <<lock, handle, copy, seen, noticed, saves>>
        BY <2>1, <3>1 DEF CreateTmp, Goto
      <3>4. /\ Len(files') = Len(files) + 1 /\ files'[Len(files')] = f
            /\ \A i \in 1 .. Len(files) : files'[i] = files[i]
        BY <1>1, <3>2, <3>3, Appended
      <3>5. tmp'[p] = Len(files') /\ \A q \in Procs \ {p} : tmp'[q] = tmp[q]
        BY <3>3 DEF SharedInv, WholeInv, TypeOK
      <3>6. \A i \in 1 .. Len(files') : i \in 1 .. Len(files) \/ i = Len(files')
        BY <1>1, <3>4
      <3>7. NoLegacy'
        BY <3>2, <3>4, <3>6 DEF SharedInv, NoLegacy
      <3> QED
        BY <3>2, <3>3, <3>4, <3>5, <3>6, <3>7
    <2>2. CASE WriteTmp(p)
      <3>1. /\ files' = [files EXCEPT ![tmp[p]].state = "complete"]
            /\ pc[p] = "write" /\ pc' = [pc EXCEPT ![p] = "rename"] /\ path' = path
            /\ UNCHANGED <<lock, handle, copy, tmp, seen, noticed, saves>>
        BY <2>2 DEF WriteTmp, Goto, local
      <3>2. tmp[p] \in 1 .. Len(files) /\ files[tmp[p]].edits = copy[p]
        BY <1>1, <3>1 DEF SharedInv, WholeInv, TypeOK, FileInv, NoFile, ProcInv, HolderInv
      <3>3. /\ Len(files') = Len(files) /\ files'[tmp[p]].edits = files[tmp[p]].edits
            /\ \A i \in 1 .. Len(files) \ {tmp[p]} : files'[i] = files[i]
        BY <1>1, <3>1, <3>2, Completed
      <3>4. NoLegacy'
        BY <1>1, <3>1, <3>2, <3>3, Completed DEF SharedInv, NoLegacy
      <3> QED
        BY <3>1, <3>2, <3>3, <3>4
    <2> QED
      BY <2>1, <2>2
  <1>4. /\ Contents' = Contents
        /\ \A e : Unsaved(e) /\ e \notin copy[p] => Unsaved(e)'
        /\ \A e, o : UnknownTo(o, e)' <=> UnknownTo(o, e)
    BY <1>1, <1>3 DEF Contents, Unsaved, UnknownTo, NoFile
  <1>5. ASSUME NEW q \in Procs
        PROVE  ProcInv(q)'
    <2>1. CASE q = p
      <3>1. pc'[p] = step
        BY <1>3 DEF SharedInv, WholeInv, TypeOK
      <3>2. HolderInv(p)'
        BY <1>1, <1>2, <1>3, <3>1 DEF ProcInv, HolderInv
      <3>3. EditorInv(p)'
        BY <1>1, <1>3, <1>4, <3>1 DEF ProcInv, EditorInv
      <3>4. TuiInv(p)'
        <4>1. ASSUME p \in Tuis, NEW k \in 1 .. TuiSaves, k > saves[p]
              PROVE  Unsaved(<<p, k>>)'
          BY <1>1, <1>4, <4>1 DEF ProcInv, TuiInv, UnknownTo
        <4> QED
          BY <1>1, <1>3, <1>4, <3>1, <4>1 DEF ProcInv, TuiInv, Newest
      <3> QED
        BY <2>1, <3>2, <3>3, <3>4 DEF ProcInv
    <2>2. CASE q # p
      <3>1. pc'[q] = pc[q] /\ ProcInv(q) /\ lock # q
        BY <1>2, <1>3, <2>2 DEF SharedInv, WholeInv, TypeOK
      <3>2. pc[q] \notin {"save", "write", "rename"}
        BY <3>1 DEF ProcInv, HolderInv
      <3>3. HolderInv(q)'
        BY <1>3, <3>1, <3>2 DEF ProcInv, HolderInv
      <3>4. EditorInv(q)'
        BY <1>3, <1>4, <3>1, <3>2 DEF ProcInv, EditorInv, UnknownTo
      <3>5. TuiInv(q)'
        <4>1. ASSUME q \in Tuis, NEW k \in 1 .. TuiSaves, k > saves[q]
              PROVE  Unsaved(<<q, k>>)'
          BY <1>4, <3>1, <4>1 DEF ProcInv, TuiInv, UnknownTo
        <4>2. q \in Tuis /\ pc[q] = "lock" => Unsaved(Newest(q))'
          BY <1>3, <1>4, <2>2, <3>1 DEF ProcInv, TuiInv, UnknownTo, Newest
        <4> QED
          BY <1>3, <1>4, <3>1, <3>2, <4>1, <4>2 DEF ProcInv, TuiInv, Newest
      <3> QED
        BY <3>3, <3>4, <3>5 DEF ProcInv
    <2> QED
      BY <2>1, <2>2
  <1> QED
    BY <1>1, <1>3, <1>4, <1>5 DEF SharedInv

\* The file takes the place of the old one: the contents become the copy of
\* the program that holds the lock, which is the step of AtomicConfig.
LEMMA RenameStaysShared ==
    ASSUME SharedInv, WholeInv', NEW p \in Procs, Rename(p)
    PROVE  SharedInv' /\ Atomic!Next
  <1> USE DEF NoFile
  <1>1. /\ pc[p] = "rename" /\ path' = tmp[p]
        /\ UNCHANGED <<files, lock, handle, copy, tmp, seen, noticed, saves>>
    BY DEF Rename, local
  <1>2. WholeInv /\ ProcInv(p) /\ path # 0
    BY DEF SharedInv
  <1>3. tmp[p] \in 1 .. Len(files) /\ path \in 1 .. Len(files)
    <2>1. files \in Seq(File) /\ path \in 0 .. Len(files) /\ tmp[p] \in 0 .. Len(files)
      BY <1>2 DEF WholeInv, TypeOK
    <2>2. tmp[p] # 0
      BY <1>1, <1>2 DEF WholeInv, FileInv
    <2> QED
      BY <1>2, <2>1, <2>2
  <1>4. /\ lock = p /\ copy[p] # {} /\ files[tmp[p]].edits = copy[p]
        /\ p \in Editors \cup Tuis
    <2>1. lock = p /\ copy[p] # {} /\ files[tmp[p]].edits = copy[p]
      BY <1>1, <1>2 DEF ProcInv, HolderInv
    <2> QED
      BY <1>2, <2>1 DEF WholeInv, ReaderInv, Procs
  <1>5. /\ pc' = [pc EXCEPT ![p] = "unlock"] /\ pc'[p] = "unlock"
        /\ \A q \in Procs \ {p} : pc'[q] = pc[q]
    BY <1>2, <1>4 DEF Rename, AfterSave, Creating, Goto, WholeInv, TypeOK
  <1>6. Contents' = copy[p] /\ path' # 0
    BY <1>1, <1>3, <1>4 DEF Contents
  <1>7. /\ \A e, o : (Unsaved(e)' <=> Unsaved(e)) /\ (UnknownTo(o, e)' <=> UnknownTo(o, e))
        /\ \A q : Newest(q)' = Newest(q)
    BY <1>1 DEF Unsaved, UnknownTo, Newest
  <1>8. ASSUME NEW q \in Procs
        PROVE  ProcInv(q)'
    <2>1. /\ pc'[q] \notin {"save", "write", "rename"}
          /\ pc'[q] = "lock" => pc[q] = "lock" /\ q # p
          /\ q \in Editors => pc'[q] \in {"lock", "done"} \/ q = p
      <3>1. CASE q = p
        BY <1>5, <3>1
      <3>2. CASE q # p
        <4>1. pc'[q] = pc[q] /\ ProcInv(q) /\ lock # q
          BY <1>4, <1>5, <3>2 DEF SharedInv
        <4> QED
          BY <3>2, <4>1 DEF ProcInv, HolderInv
      <3> QED
        BY <3>1, <3>2
    <2>2. ProcInv(q)
      BY DEF SharedInv
    <2>3. HolderInv(q)'
      BY <1>1, <1>4, <2>1 DEF HolderInv
    <2>4. EditorInv(q)'
      BY <1>5, <1>7, <2>1, <2>2 DEF ProcInv, EditorInv
    <2>5. TuiInv(q)'
      BY <1>1, <1>7, <2>1, <2>2 DEF ProcInv, TuiInv
    <2> QED
      BY <2>3, <2>4, <2>5 DEF ProcInv
  <1>9. SharedInv'
    BY <1>1, <1>6, <1>8 DEF SharedInv, NoLegacy
  <1>10. CASE p \in Editors
    <2>1. copy[p] = Contents \cup {p} /\ p \notin Contents
      BY <1>1, <1>2, <1>10 DEF ProcInv, EditorInv
    <2>2. Atomic!Apply(p)
      BY <1>6, <1>10, <2>1 DEF Atomic!Apply
    <2> QED
      BY <1>9, <1>10, <2>2 DEF Atomic!Next
  <1>11. CASE p \in Tuis
    <2>1. /\ Newest(p) \in copy[p] /\ Newest(p) \notin Contents
          /\ saves[p] \in 1 .. TuiSaves
      BY <1>1, <1>2, <1>11 DEF ProcInv, TuiInv, SharedInv, WholeInv, TypeOK
    <2>2. Newest(p) \in TuiEdits
      BY <1>11, <2>1 DEF Newest, TuiEdits
    <2>3. copy[p] \in SUBSET Atomic!Edits
      BY DEF SharedInv, WholeInv, TypeOK, Edits, Atomic!Edits
    <2>4. Atomic!Replace(copy[p])
      BY <1>6, <2>1, <2>2 DEF Atomic!Replace
    <2> QED
      BY <1>9, <2>3, <2>4 DEF Atomic!Next
  <1> QED
    BY <1>4, <1>10, <1>11

\* Every step keeps the invariant, and is a step of AtomicConfig or a stutter.
LEMMA NextStaysShared ==
    ASSUME Cooperative, SharedInv, [Next]_vars
    PROVE  SharedInv' /\ [Atomic!Next]_Contents
  <1>1. WholeInv'
    BY NextStaysWhole DEF SharedInv
  <1>2. ASSUME NEW p \in Procs, Step(p) \/ Answer(p) \/ WriteFails(p) \/ Crash(p)
        PROVE  SharedInv' /\ [Atomic!Next]_Contents
    <2>1. ~OpenNothing(p)
      BY DEF OpenNothing, SharedInv
    <2>2. ~Upgrade(p)
      <3>1. ASSUME pc[p] = "read"
            PROVE  files[handle[p]].state # "legacy"
        <4>1. handle[p] \in 1 .. Len(files)
          BY <3>1 DEF SharedInv, WholeInv, TypeOK, FileInv, NoFile
        <4> QED
          BY <4>1 DEF SharedInv, NoLegacy
      <3> QED
        BY <3>1 DEF Upgrade
    <2> QED
      BY <1>1, <1>2, <2>1, <2>2, QuietStepsStayShared, ReadStaysShared,
         EditStaysShared, TmpStaysShared, RenameStaysShared DEF Step, Answer
  <1>3. ASSUME NEW t \in Tuis, TuiStep(t) \/ KeyPress(t)
        PROVE  SharedInv' /\ Contents' = Contents
    <2>1. t \in Procs
      BY DEF Procs
    <2> QED
      BY <1>1, <1>3, <2>1, QuietStepsStayShared, ChangeStaysShared DEF KeyPress
  <1>4. ~UserBreaksFile
    BY DEF UserBreaksFile, Cooperative
  <1>5. CASE UNCHANGED vars
    <2>1. Contents' = Contents
      BY <1>5 DEF vars, local, Contents
    <2> QED
      BY <1>1, <1>5, <2>1 DEF vars, SharedInv, NoLegacy, ProcInv, HolderInv,
                              EditorInv, TuiInv, Unsaved, UnknownTo, Newest, Contents
  <1> QED
    BY <1>2, <1>3, <1>4, <1>5 DEF Next

\* Commands, daemons and TUIs that share a file of this version and get the lock
\* implement AtomicConfig, however many they are and whoever is killed: every
\* command adds its edit to the contents it replaces.  (A load that upgrades an
\* older file saves without the lock, and breaks this.)
THEOREM SharingImplementsAtomicConfig ==
    ASSUME Cooperative
    PROVE  Spec => EditsAreAtomic
  <1>1. Init => SharedInv /\ Atomic!Init
    <2> SUFFICES ASSUME Init PROVE SharedInv /\ Atomic!Init
      OBVIOUS
    <2>1. SharedInv
      BY InitIsShared
    <2>2. Contents = {}
      BY DEF Init, Cooperative, Contents, NoFile, FilesAtStart
    <2> QED
      BY <2>1, <2>2 DEF Atomic!Init
  <1>2. SharedInv /\ [Next]_vars => SharedInv' /\ [Atomic!Next]_Contents
    BY NextStaysShared
  <1> QED
    BY <1>1, <1>2, PTL DEF Spec, EditsAreAtomic, Atomic!Spec
=============================================================================
