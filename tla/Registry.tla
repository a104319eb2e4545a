------------------------------ MODULE Registry ------------------------------
(***************************************************************************)
(* The registry of running daemons (daemon.c): a file daemon.PID for each, *)
(* and daemon_signal_all, which goes through the files and sends a signal  *)
(* to every PID they name.  Nothing but the number ties a file to its      *)
(* daemon, and the kernel gives a number that has become free to any new   *)
(* process, so a file left by a killed daemon may come to name another.    *)
(* What a daemon does with the signal is in the module Daemon.             *)
(***************************************************************************)
EXTENDS Naturals

CONSTANTS
    Pid,       \* process numbers
    Scanner,   \* programs that call daemon_signal_all
    MaxScans   \* bound on the calls of each

ASSUME PidAssumption == Pid \subseteq Nat \ {0}
ASSUME ScansAssumption == MaxScans \in Nat

VARIABLES
    proc,    \* what runs under each number
    files,   \* the numbers that have a file
    scan,    \* where each scanner is in the directory
    orphan   \* history: numbers whose file a killed daemon has left

vars == <<proc, files, scan, orphan>>

\* "other" has not blocked the signals and may die of one: another program of
\* the user, or a daemon that is still starting.  "foreign" belongs to another
\* user.  "blocked" is a daemon before it registers, "unlisted" one that could
\* not, and "ending" one that has taken its file away.  A "zombie" has ended,
\* but its parent has not waited for it yet, and the number is taken.
Kind == {"free", "other", "foreign", "blocked", "running", "unlisted", "ending",
         "zombie"}

\* todo: the entries the directory had when it was opened and readdir has not
\* returned.  seen: those it has.  dead: the one to unlink next.  hit: those
\* kill succeeded on.  steady, stale: history, daemons that were registered and
\* files that had no process, from the opening of the directory until now;
\* listed: the files there have been since.
Resting == [pc |-> "idle", todo |-> {}, seen |-> {}, dead |-> 0, hit |-> {},
            steady |-> {}, stale |-> {}, listed |-> {}, scans |-> 0]

Init == /\ proc = [p \in Pid |-> "free"]
        /\ files = {}
        /\ scan = [s \in Scanner |-> Resting]
        /\ orphan = {}

Registered(procs, left) == {p \in left : procs[p] = "running"}
Abandoned(procs, left) == {p \in left : procs[p] = "free"}

\* The histories of a scan after a change of the processes and files.
Followed(r, procs, left) ==
    [r EXCEPT !.steady = @ \cap Registered(procs, left),
              !.stale  = @ \cap Abandoned(procs, left),
              !.listed = IF r.pc = "read" THEN @ \cup left ELSE @]

Becomes(p, kind, left) ==
    LET procs == [proc EXCEPT ![p] = kind] IN
    /\ proc' = procs
    /\ files' = left
    /\ scan' = [s \in Scanner |-> Followed(scan[s], procs, left)]

----------------------------------------------------------------------------
(* Processes                                                               *)

\* A program starts, of this user (maybe a daemon) or of another.
Starts(p) == /\ proc[p] = "free"
             /\ \E kind \in {"other", "foreign"} : Becomes(p, kind, files)
             /\ UNCHANGED orphan

\* It turns out to be a daemon: daemon_run blocks the signals first.
BlocksSignals(p) == /\ proc[p] = "other"
                    /\ Becomes(p, "blocked", files)
                    /\ UNCHANGED orphan

\* Mutant of RegistryAdd: the daemon registers before it blocks the signals.
RegistryAddEarly(p) == /\ proc[p] = "other"
                       /\ Becomes(p, "other", files \cup {p})
                       /\ orphan' = orphan \ {p}

\* registry_add takes over a file of the same number.
RegistryAdd(p) == /\ proc[p] = "blocked"
                  /\ Becomes(p, "running", files \cup {p})
                  /\ orphan' = orphan \ {p}

\* The directory or the file cannot be made; the daemon runs all the same.
RegistryAddFails(p) == /\ proc[p] = "blocked"
                       /\ Becomes(p, "unlisted", files)
                       /\ UNCHANGED orphan

\* Mutant of Remaining: the file is left.
RemainingAll(p) == files

Remaining(p) == files \ {p}

\* registry_remove, at exit.
RegistryRemove(p) == /\ proc[p] \in {"running", "unlisted"}
                     /\ Becomes(p, "ending", Remaining(p))
                     /\ orphan' = orphan \ {p}

\* What has ended, or was killed, stays a zombie until its parent waits for it;
\* another user's is out of reach all the same.
Ends(p) == /\ proc[p] \in {"ending", "other", "foreign"}
           /\ Becomes(p, IF proc[p] = "foreign" THEN "free" ELSE "zombie", files)
           /\ UNCHANGED orphan

\* A daemon is killed and its file stays.
Killed(p) == /\ proc[p] \in {"blocked", "running", "unlisted"}
             /\ Becomes(p, "zombie", files)
             /\ orphan' = IF proc[p] = "running" THEN orphan \cup (files \cap {p})
                          ELSE orphan

Reaped(p) == /\ proc[p] = "zombie"
             /\ Becomes(p, "free", files)
             /\ UNCHANGED orphan

----------------------------------------------------------------------------
(* daemon_signal_all                                                       *)

Opens(s) ==
    /\ scan[s].pc = "idle" /\ scan[s].scans < MaxScans
    /\ scan' = [scan EXCEPT ![s] = [scan[s] EXCEPT
         !.pc = "read", !.todo = files, !.scans = scan[s].scans + 1,
         !.steady = Registered(proc, files), !.stale = Abandoned(proc, files),
         !.listed = files]]
    /\ UNCHANGED <<proc, files, orphan>>

\* readdir returns what was there when the directory was opened, even if it is
\* gone by now, and perhaps what has been added since.
Returned(s) == scan[s].todo \cup (files \ scan[s].seen)

\* Mutants of Unlinkable: every file is taken for stale; none is.
UnlinkableAll(p) == TRUE
UnlinkableNone(p) == FALSE

\* kill fails with ESRCH; a zombie is still signalled, and counted.
Unlinkable(p) == proc[p] = "free"

Signalled(p) == proc[p] \notin {"free", "foreign"}

Reads(s, p) == [scan[s] EXCEPT !.todo = @ \ {p}, !.seen = @ \cup {p},
                               !.hit  = IF Signalled(p) THEN @ \cup {p} ELSE @,
                               !.dead = IF Unlinkable(p) THEN p ELSE 0]

\* One entry: kill it.  A process that has not blocked the signal may die.
Signals(s, p) ==
    LET r    == [scan EXCEPT ![s] = Reads(s, p)]
        dies == [proc EXCEPT ![p] = "zombie"]
    IN /\ scan[s].pc = "read" /\ scan[s].dead = 0 /\ p \in Returned(s)
       /\ \/ proc' = proc /\ scan' = r
          \/ /\ proc[p] = "other"
             /\ proc' = dies
             /\ scan' = [t \in Scanner |-> Followed(r[t], dies, files)]
       /\ UNCHANGED <<files, orphan>>

\* The stale file is unlinked, whoever has been given its number since.
Unlinks(s) ==
    LET left == files \ {scan[s].dead}
        r    == [scan EXCEPT ![s].dead = 0]
    IN /\ scan[s].dead # 0
       /\ files' = left
       /\ scan' = [t \in Scanner |-> Followed(r[t], proc, left)]
       /\ orphan' = orphan \ {scan[s].dead}
       /\ UNCHANGED proc

\* readdir has no more entries; the caller reports how many were hit.
Ended(s) == /\ scan[s].pc = "read" /\ scan[s].dead = 0 /\ scan[s].todo = {}
            /\ scan' = [scan EXCEPT ![s].pc = "counted"]
            /\ UNCHANGED <<proc, files, orphan>>

Returns(s) == /\ scan[s].pc = "counted"
              /\ scan' = [scan EXCEPT ![s] = [Resting EXCEPT !.scans = scan[s].scans]]
              /\ UNCHANGED <<proc, files, orphan>>

----------------------------------------------------------------------------

Process(p) == \/ Starts(p) \/ BlocksSignals(p)
              \/ RegistryAdd(p) \/ RegistryAddFails(p) \/ RegistryRemove(p)
              \/ Ends(p) \/ Killed(p) \/ Reaped(p)

Scan(s) == \/ Opens(s)
           \/ \E p \in Pid : Signals(s, p)
           \/ Unlinks(s) \/ Ended(s) \/ Returns(s)

Next == (\E p \in Pid : Process(p)) \/ (\E s \in Scanner : Scan(s))

Spec == Init /\ [][Next]_vars

----------------------------------------------------------------------------
(* Properties                                                              *)

\* Every variable keeps its type, and a file names a running daemon or was left
\* by one that was killed (registry_remove).
TypeOK ==
    /\ proc \in [Pid -> Kind]
    /\ files \subseteq Pid
    /\ files \subseteq orphan \cup {p \in Pid : proc[p] = "running"}
    /\ orphan \subseteq files
    /\ scan \in [Scanner -> [pc : {"idle", "read", "counted"},
                             todo : SUBSET Pid, seen : SUBSET Pid,
                             dead : Pid \cup {0}, hit : SUBSET Pid,
                             steady : SUBSET Pid, stale : SUBSET Pid,
                             listed : SUBSET Pid,
                             scans : 0 .. MaxScans]]

\* When a scan has ended, every daemon that was registered all the time has
\* got the signal, and the file of every process that was gone all the time is
\* gone too, whoever starts, ends, is killed or scans meanwhile ("Sends sig to
\* every running daemon of this user", daemon.h:22).
ScanIsComplete ==
    \A s \in Scanner : scan[s].pc = "counted" =>
      /\ scan[s].steady \subseteq scan[s].hit
      /\ scan[s].stale = {}

\* A scan never unlinks the file of a daemon that was registered when the scan
\* began.  Only a daemon that starts between kill and unlink, under the very
\* number of the dead one, can lose its file (daemon.c:65).
OnlyTheDeadAreUnlinked ==
    \A s \in Scanner : scan[s].dead \notin scan[s].steady

\* A scan signals nothing but numbers that a file names or has named since the
\* directory was opened, and a daemon has blocked the signals before it has a
\* file.  So a process that would die of the signal is hit only if it was given
\* the number of a daemon: one that was killed and whose file is still there,
\* or one whose file has been taken away since the opening, by itself or by
\* another scan (daemon.c:58-63, 137-150).
OnlyReusedPidsAreHit ==
    [][ \A s \in Scanner, p \in Pid :
          proc[p] = "other" /\ p \in scan'[s].hit \ scan[s].hit =>
            p \in orphan \/ p \in scan[s].listed \ files ]_vars
=============================================================================
