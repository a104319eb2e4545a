---------------------------- MODULE ConfigSharing ----------------------------
(***************************************************************************)
(* The processes that share config.json, one step per system call that     *)
(* another process can observe.                                            *)
(*                                                                         *)
(*   Editors  commands of main.c between begin_edit and end_edit, and the  *)
(*            daemon's cycle_next: lock, load, change, save, unlock        *)
(*   Readers  show, list, get, the daemon's own loads: load, no lock       *)
(*   Tuis     load once, then lock, save the copy in memory, unlock; and   *)
(*            load again when the file's mtime is not the one remembered   *)
(*                                                                         *)
(* Loading a file that does not exist creates it, and loading one of the   *)
(* format without a version rewrites it, under whatever lock the caller    *)
(* has or has not.  Saving writes a new file and renames it over the old   *)
(* one, so a file that was ever written is never written again: files      *)
(* lists them all, and a position in it is a file, an open handle of it    *)
(* and its mtime alike (two saves within one tick of the file system's     *)
(* clock are not modelled).  The contents of a file are the edits that are *)
(* in it; a program leaves it partial until the last write, the user's     *)
(* editor may leave something that does not parse.                         *)
(***************************************************************************)
EXTENDS Integers, Sequences, FiniteSets

CONSTANTS
    Editors, Readers, Tuis,
    Asking,         \* commands that ask for an answer before they save
    Nobody,         \* no process: the lock is free
    TuiSaves,       \* bound on the edits one TUI makes
    Starts,         \* what there may be to begin with: no file ("none"), one
                    \* without a version ("legacy"), one of today ("current")
    LockMayFail,    \* the lock file cannot be opened (config_lock gives -1)
    UserBreaks      \* the user's editor saves invalid JSON, once

ASSUME SavesAssumption == TuiSaves \in Nat
ASSUME FlagsAssumption == /\ Starts \subseteq {"none", "legacy", "current"}
                          /\ LockMayFail \in BOOLEAN
                          /\ UserBreaks \in BOOLEAN
ASSUME AskingAssumption == Asking \subseteq Editors
ASSUME ProcsAreDistinct == /\ Editors \cap Readers = {}
                           /\ Editors \cap Tuis = {}
                           /\ Readers \cap Tuis = {}
                           /\ Nobody \notin Editors \cup Readers \cup Tuis
                           /\ Editors \cap (Tuis \X (1 .. TuiSaves)) = {}

Procs == Editors \cup Readers \cup Tuis
TuiEdits == Tuis \X (1 .. TuiSaves)
Edits == Editors \cup TuiEdits

NoFile == 0

VARIABLES
    files,    \* every config file written so far
    path,     \* the one at config_path, or NoFile
    lock,     \* the holder of the lock, or Nobody
    pc,
    handle,   \* the file a process has open
    copy,     \* the edits in its configuration record
    tmp,      \* the file it is writing
    seen,     \* cfg_mtime of a TUI
    noticed,  \* m of reload_if_changed, NoFile outside of it
    saves     \* edits a TUI has made

vars == <<files, path, lock, pc, handle, copy, tmp, seen, noticed, saves>>
local == <<handle, copy, tmp, seen, noticed, saves>>

File == [edits : SUBSET Edits, state : {"partial", "complete", "legacy", "invalid"}]

FilesAtStart(start) ==
    IF start = "none" THEN << >>
    ELSE <<[edits |-> {}, state |-> IF start = "legacy" THEN "legacy" ELSE "complete"]>>
Begun(edits) == [edits |-> edits, state |-> "partial"]

Init == /\ \E start \in Starts : files = FilesAtStart(start)
        /\ path = Len(files)
        /\ lock = Nobody
        /\ pc = [p \in Procs |-> IF p \in Editors THEN "lock" ELSE "load"]
        /\ handle = [p \in Procs |-> NoFile]
        /\ copy = [p \in Procs |-> {}]
        /\ tmp = [p \in Procs |-> NoFile]
        /\ seen = [t \in Tuis |-> NoFile]
        /\ noticed = [t \in Tuis |-> NoFile]
        /\ saves = [t \in Tuis |-> 0]

Goto(p, step) == pc' = [pc EXCEPT ![p] = step]

----------------------------------------------------------------------------
(* The lock                                                                *)

\* Mutant of Lock: the lock is taken while another process holds it.
LockShared(p) ==
    /\ pc[p] = "lock"
    /\ lock' = p
    /\ Goto(p, IF p \in Editors THEN "load" ELSE "save")
    /\ UNCHANGED <<files, path, local>>

Lock(p) ==
    /\ pc[p] = "lock"
    /\ lock = Nobody
    /\ lock' = p
    /\ Goto(p, IF p \in Editors THEN "load" ELSE "save")
    /\ UNCHANGED <<files, path, local>>

\* config_lock returns -1 and its callers go on.
LockFails(p) ==
    /\ LockMayFail
    /\ pc[p] = "lock"
    /\ Goto(p, IF p \in Editors THEN "load" ELSE "save")
    /\ UNCHANGED <<files, path, lock, local>>

Released(p) == IF lock = p THEN Nobody ELSE lock

Unlock(p) ==
    /\ pc[p] = "unlock"
    /\ lock' = Released(p)
    /\ Goto(p, IF p \in Tuis THEN "stat" ELSE "done")
    /\ UNCHANGED <<files, path, local>>

----------------------------------------------------------------------------
(* config_load                                                             *)

AfterLoad(p) == IF p \in Editors THEN "edit"
                ELSE IF p \in Readers THEN "done"
                ELSE IF noticed[p] # NoFile THEN "ready" ELSE "stat"

\* Mutant of Remember: the mtime is read after the load.
RememberNow(p) == IF p \in Tuis /\ noticed[p] # NoFile
                  THEN /\ seen' = [seen EXCEPT ![p] = path]
                       /\ noticed' = [noticed EXCEPT ![p] = NoFile]
                  ELSE UNCHANGED <<seen, noticed>>

\* What reload_if_changed does with the load's result: the mtime is the one
\* read before the load.
Remember(p) == IF p \in Tuis /\ noticed[p] # NoFile
               THEN /\ seen' = [seen EXCEPT ![p] = noticed[p]]
                    /\ noticed' = [noticed EXCEPT ![p] = NoFile]
               ELSE UNCHANGED <<seen, noticed>>

Open(p) ==
    /\ pc[p] = "load"
    /\ path # NoFile
    /\ handle' = [handle EXCEPT ![p] = path]
    /\ Goto(p, "read")
    /\ UNCHANGED <<files, path, lock, copy, tmp, seen, noticed, saves>>

\* No file: the defaults, and they are saved.
OpenNothing(p) ==
    /\ pc[p] = "load"
    /\ path = NoFile
    /\ copy' = [copy EXCEPT ![p] = {}]
    /\ Goto(p, "save")
    /\ UNCHANGED <<files, path, lock, handle, tmp, seen, noticed, saves>>

Read(p) ==
    /\ pc[p] = "read"
    /\ files[handle[p]].state = "complete"
    /\ copy' = [copy EXCEPT ![p] = files[handle[p]].edits]
    /\ Remember(p)
    /\ Goto(p, AfterLoad(p))
    /\ UNCHANGED <<files, path, lock, handle, tmp, saves>>

\* No version in it: the old settings, and they are saved in the new format,
\* whether or not the caller has the lock.  (A TUI that reloads because of an
\* mtime gets neither here nor to OpenNothing: what it notices is newer than
\* both.  The key R, which reloads at once, is in TuiEditing.)
Upgrade(p) ==
    /\ pc[p] = "read"
    /\ files[handle[p]].state = "legacy"
    /\ copy' = [copy EXCEPT ![p] = files[handle[p]].edits]
    /\ Goto(p, "save")
    /\ UNCHANGED <<files, path, lock, handle, tmp, seen, noticed, saves>>

\* Not valid JSON: commands and a starting TUI give up, a running TUI keeps its
\* copy and remembers the mtime all the same.
ReadFails(p) ==
    /\ pc[p] = "read"
    /\ files[handle[p]].state \notin {"complete", "legacy"}
    /\ Remember(p)
    /\ Goto(p, IF p \in Editors THEN "unlock"
               ELSE IF p \in Tuis /\ noticed[p] # NoFile THEN "ready" ELSE "done")
    /\ UNCHANGED <<files, path, lock, handle, copy, tmp, saves>>

----------------------------------------------------------------------------
(* config_save, in write_file_atomic                                       *)

\* The saves that config_load makes are those of a record without edits.
Creating(p) == copy[p] = {}

AfterSave(p) == IF Creating(p) THEN AfterLoad(p) ELSE "unlock"

\* Mutant of CreateTmp: the file is renamed before it has been written.
RenameFirst(p) ==
    /\ pc[p] = "save"
    /\ files' = Append(files, Begun(copy[p]))
    /\ tmp' = [tmp EXCEPT ![p] = Len(files')]
    /\ path' = Len(files')
    /\ Goto(p, "write")
    /\ UNCHANGED <<lock, handle, copy, seen, noticed, saves>>

CreateTmp(p) ==
    /\ pc[p] = "save"
    /\ files' = Append(files, Begun(copy[p]))
    /\ tmp' = [tmp EXCEPT ![p] = Len(files')]
    /\ Goto(p, "write")
    /\ UNCHANGED <<path, lock, handle, copy, seen, noticed, saves>>

WriteTmp(p) ==
    /\ pc[p] = "write"
    /\ files' = [files EXCEPT ![tmp[p]].state = "complete"]
    /\ Goto(p, "rename")
    /\ UNCHANGED <<path, lock, local>>

Rename(p) ==
    /\ pc[p] = "rename"
    /\ path' = tmp[p]
    /\ Goto(p, AfterSave(p))
    /\ UNCHANGED <<files, lock, local>>

\* A full disk: the temporary file is removed, the old file stays.  A failed
\* creation is not noticed, a failed edit ends in end_edit all the same.
WriteFails(p) ==
    /\ pc[p] \in {"save", "write", "rename"}
    /\ Goto(p, AfterSave(p))
    /\ UNCHANGED <<files, path, lock, local>>

----------------------------------------------------------------------------
(* Editors and TUIs                                                        *)

Edit(p) ==
    /\ p \in Editors
    /\ pc[p] = "edit"
    /\ copy' = [copy EXCEPT ![p] = @ \cup {p}]
    /\ Goto(p, "save")
    /\ UNCHANGED <<files, path, lock, handle, tmp, seen, noticed, saves>>

\* Mutant of Refuse: the command exits without end_edit but goes on living.
RefuseLocked(p) ==
    /\ p \in Editors
    /\ pc[p] = "edit"
    /\ Goto(p, "done")
    /\ UNCHANGED <<files, path, lock, local>>

\* The command has nothing to save or is refused (abort_edit), or the answer
\* to its question was no.
Refuse(p) ==
    /\ p \in Editors
    /\ pc[p] = "edit"
    /\ Goto(p, "unlock")
    /\ UNCHANGED <<files, path, lock, local>>

\* The answer to "Delete this location?" or "Reset ALL settings ...?", which is
\* waited for with the lock held.
Answer(p) == p \in Asking /\ (Edit(p) \/ Refuse(p))

\* A key press opens a dialog, which has its own loop and does not look at the
\* file, and another one closes it.
OpenDialog(t) ==
    /\ pc[t] = "ready"
    /\ Goto(t, "dialog")
    /\ UNCHANGED <<files, path, lock, local>>

CloseDialog(t) ==
    /\ pc[t] = "dialog"
    /\ Goto(t, "ready")
    /\ UNCHANGED <<files, path, lock, local>>

\* A key press changes the copy in memory, and save writes it out.
Change(t) ==
    /\ pc[t] \in {"ready", "dialog"}
    /\ saves[t] < TuiSaves
    /\ saves' = [saves EXCEPT ![t] = @ + 1]
    /\ copy' = [copy EXCEPT ![t] = @ \cup {<<t, saves[t] + 1>>}]
    /\ Goto(t, "lock")
    /\ UNCHANGED <<files, path, lock, handle, tmp, seen, noticed>>

\* After the first load, and after unlocking a save.
Stat(t) ==
    /\ pc[t] = "stat"
    /\ seen' = [seen EXCEPT ![t] = path]
    /\ Goto(t, "ready")
    /\ UNCHANGED <<files, path, lock, handle, copy, tmp, noticed, saves>>

ReloadIfChanged(t) ==
    /\ pc[t] = "ready"
    /\ path # seen[t]
    /\ noticed' = [noticed EXCEPT ![t] = path]
    /\ Goto(t, "load")
    /\ UNCHANGED <<files, path, lock, handle, copy, tmp, seen, saves>>

\* The process is killed, wherever it is; the kernel drops its lock.
Crash(p) ==
    /\ pc[p] # "done"
    /\ lock' = Released(p)
    /\ Goto(p, "done")
    /\ UNCHANGED <<files, path, local>>

\* The user's editor, which asks for no lock, saves something invalid.
UserBreaksFile ==
    /\ UserBreaks
    /\ \A f \in 1 .. Len(files) : files[f].state # "invalid"
    /\ files' = Append(files, [edits |-> {}, state |-> "invalid"])
    /\ path' = Len(files')
    /\ UNCHANGED <<lock, pc, local>>

----------------------------------------------------------------------------

Step(p) == \/ Lock(p) \/ LockFails(p) \/ Unlock(p)
           \/ Open(p) \/ OpenNothing(p) \/ Read(p) \/ Upgrade(p) \/ ReadFails(p)
           \/ CreateTmp(p) \/ WriteTmp(p) \/ Rename(p)
           \/ p \notin Asking /\ (Edit(p) \/ Refuse(p))

TuiStep(t) == Stat(t) \/ ReloadIfChanged(t)

KeyPress(t) == Change(t) \/ OpenDialog(t) \/ CloseDialog(t)

Next == \/ \E p \in Procs : Step(p) \/ Answer(p) \/ WriteFails(p) \/ Crash(p)
        \/ \E t \in Tuis : TuiStep(t) \/ KeyPress(t)
        \/ UserBreaksFile

\* A process that can take a step of its own takes one; nobody is made to
\* answer a question, to press a key, to run out of disk or to die.  The TUI
\* looks at the file in every pass of its loop that is a second after the last
\* look, so also between two dialogs.
Fairness == /\ \A p \in Procs : WF_vars(Step(p))
            /\ \A t \in Tuis : WF_vars(Stat(t)) /\ SF_vars(ReloadIfChanged(t))

Spec == Init /\ [][Next]_vars /\ Fairness

----------------------------------------------------------------------------
(* Properties                                                              *)

Contents == IF path = NoFile THEN {} ELSE files[path].edits

Unreadable == path # NoFile /\ files[path].state = "invalid"

\* Among the types: a process that has ended does not hold the lock.
TypeOK == /\ files \in Seq(File)
          /\ path \in 0 .. Len(files)
          /\ lock \in {p \in Procs : pc[p] # "done"} \cup {Nobody}
          /\ pc \in [Procs -> {"lock", "load", "read", "edit", "save", "write",
                               "rename", "unlock", "stat", "ready", "dialog", "done"}]
          /\ handle \in [Procs -> 0 .. Len(files)]
          /\ copy \in [Procs -> SUBSET Edits]
          /\ tmp \in [Procs -> 0 .. Len(files)]
          /\ seen \in [Tuis -> 0 .. Len(files)]
          /\ noticed \in [Tuis -> 0 .. Len(files)]
          /\ saves \in [Tuis -> 0 .. TuiSaves]

\* No load meets a half-written file, with or without a lock, and whoever was
\* killed in the middle of a save (write_file_atomic).
NoPartialLoad == \A p \in Procs :
    pc[p] = "read" => files[handle[p]].state # "partial"

Atomic == INSTANCE AtomicConfig WITH contents <- Contents

\* Commands, daemons and TUIs that share a file of this version and get the lock
\* behave as if every edit happened at once: a command's save adds its edit to
\* the contents it replaces, and only a TUI's save replaces them by its copy.
EditsAreAtomic == Atomic!Spec

\* Every command ends, however the others end: the only thing that can keep the
\* lock for ever is a question that nobody answers (main.c:605, 1062).
CommandsEnd ==
    (\A q \in Asking : []<>(pc[q] # "edit"))
        => \A p \in Editors : <>(pc[p] = "done")

\* A TUI that remembers an mtime other than the file's comes to show the file,
\* unless it exits, the file cannot be parsed, the user stays in a dialog, or
\* makes a change first, which saves over it (reload_if_changed).
TuiNoticesChanges == \A t \in Tuis :
    []<>(pc[t] # "dialog") =>
        \A n \in 0 .. TuiSaves :
          (pc[t] = "ready" /\ path # seen[t] /\ saves[t] = n)
              ~> (\/ pc[t] = "done"
                  \/ copy[t] = Contents
                  \/ Unreadable
                  \/ saves[t] # n)

\* "Exclusive advisory lock for read-modify-write cycles" (config.h:82): what a
\* command saved stays saved, because every later save starts from it.
CommandEditsSurvive == [][Editors \cap Contents \subseteq Contents']_vars
=============================================================================
