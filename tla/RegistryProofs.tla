--------------------------- MODULE RegistryProofs ---------------------------
(***************************************************************************)
(* Proofs about Registry, for every set of process numbers, every number   *)
(* of programs that scan side by side and every number of scans.           *)
(*                                                                         *)
(* What the three invariants leave out is how far a scan has come: until   *)
(* its directory is read, a daemon it must signal is either hit already or *)
(* still to be returned, and a file it must unlink is still to be returned *)
(* or is the one being unlinked.  ScanInv says so of one scan; nothing any *)
(* other process or scan does disturbs it, because the histories are cut   *)
(* to what is still registered, or still abandoned, at every step.         *)
(***************************************************************************)
EXTENDS Registry, TLAPS

\* Where a scan stands, in terms of the processes and files of now.
Standing(r) ==
    /\ r.steady \subseteq Registered(proc, files)
    /\ r.stale \subseteq Abandoned(proc, files)
    /\ r.dead \notin r.steady
    /\ r.pc = "read" => r.todo \cup files \subseteq r.listed

Progress(r) ==
    /\ r.pc # "read" => r.dead = 0
    /\ r.pc = "read" => /\ r.steady \subseteq r.todo \cup r.hit
                        /\ r.stale \subseteq r.todo \cup {r.dead}
    /\ r.pc = "counted" => r.steady \subseteq r.hit /\ r.stale = {}

ScanInv == \A s \in Scanner : Standing(scan[s]) /\ Progress(scan[s])

\* The inductive invariant.
Inv == TypeOK /\ ScanInv

ScanRecord == [pc : {"idle", "read", "counted"},
               todo : SUBSET Pid, seen : SUBSET Pid,
               dead : Pid \cup {0}, hit : SUBSET Pid,
               steady : SUBSET Pid, stale : SUBSET Pid,
               listed : SUBSET Pid,
               scans : 0 .. MaxScans]

\* Cutting the histories of a scan to the processes and files of now keeps its
\* type, what it says of its progress, and puts it in step with them.
LEMMA FollowedKeeps ==
    ASSUME NEW r \in ScanRecord, NEW procs, NEW left \in SUBSET Pid,
           Progress(r), r.dead \notin r.steady,
           r.pc = "read" => r.todo \subseteq r.listed
    PROVE  LET f == Followed(r, procs, left) IN
           /\ f \in ScanRecord
           /\ f.steady \subseteq Registered(procs, left)
           /\ f.stale \subseteq Abandoned(procs, left)
           /\ f.dead \notin f.steady
           /\ f.pc = "read" => f.todo \cup left \subseteq f.listed
           /\ Progress(f)
           /\ f.hit = r.hit
  <1> DEFINE f == Followed(r, procs, left)
  <1>1. f \in ScanRecord
    BY DEF ScanRecord, Followed
  <1>2. /\ f.pc = r.pc /\ f.todo = r.todo /\ f.hit = r.hit /\ f.dead = r.dead
        /\ f.steady = r.steady \cap Registered(procs, left)
        /\ f.stale = r.stale \cap Abandoned(procs, left)
        /\ f.listed = IF r.pc = "read" THEN r.listed \cup left ELSE r.listed
    BY DEF ScanRecord, Followed
  <1> HIDE DEF f
  <1> QED
    BY <1>1, <1>2 DEF Progress, f

\* A change of the processes and files with every scan cut accordingly keeps
\* ScanInv, from scans that may have moved by a step of their own (r).
LEMMA AllFollow ==
    ASSUME NEW r \in [Scanner -> ScanRecord],
           \A s \in Scanner : /\ Progress(r[s]) /\ r[s].dead \notin r[s].steady
                              /\ r[s].pc = "read" => r[s].todo \subseteq r[s].listed,
           files' \subseteq Pid,
           scan' = [s \in Scanner |-> Followed(r[s], proc', files')]
    PROVE  scan' \in [Scanner -> ScanRecord] /\ ScanInv'
  <1>1. ASSUME NEW s \in Scanner
        PROVE  /\ scan'[s] \in ScanRecord
               /\ Standing(scan[s])' /\ Progress(scan[s])'
    <2>1. scan'[s] = Followed(r[s], proc', files')
      OBVIOUS
    <2>2. r[s] \in ScanRecord /\ files' \in SUBSET Pid
      OBVIOUS
    <2>3. /\ Progress(r[s]) /\ r[s].dead \notin r[s].steady
          /\ r[s].pc = "read" => r[s].todo \subseteq r[s].listed
      OBVIOUS
    <2>4. PICK rec : rec = r[s]
      OBVIOUS
    <2>5. PICK f : f = Followed(rec, proc', files')
      OBVIOUS
    <2>6. /\ f \in ScanRecord
          /\ f.steady \subseteq Registered(proc', files')
          /\ f.stale \subseteq Abandoned(proc', files')
          /\ f.dead \notin f.steady
          /\ f.pc = "read" => f.todo \cup files' \subseteq f.listed
          /\ Progress(f)
      BY <2>2, <2>3, <2>4, <2>5, FollowedKeeps
    <2> QED
      BY <2>1, <2>4, <2>5, <2>6 DEF Standing, Progress
  <1>2. scan' = [s \in Scanner |-> scan'[s]]
    OBVIOUS
  <1> QED
    BY <1>1, <1>2 DEF ScanInv

LEMMA InitEstablishesInv == Init => Inv
  <1> SUFFICES ASSUME Init PROVE Inv
    OBVIOUS
  <1>1. Resting \in ScanRecord
    BY ScansAssumption DEF Resting, ScanRecord
  <1>2. TypeOK
    BY <1>1 DEF Init, TypeOK, Kind, ScanRecord
  <1>3. Standing(Resting) /\ Progress(Resting)
    BY DEF Resting, Standing, Progress
  <1> QED
    BY <1>2, <1>3 DEF Init, Inv, ScanInv

\* Programs start, end and are killed; daemons register and deregister.
LEMMA ProcessMaintainsInv ==
    ASSUME Inv, NEW p \in Pid, Process(p)
    PROVE  Inv'
  <1>1. ASSUME NEW kind \in Kind, NEW left \in SUBSET Pid, Becomes(p, kind, left)
        PROVE  /\ proc' = [proc EXCEPT ![p] = kind] /\ files' = left
               /\ proc' \in [Pid -> Kind]
               /\ scan' \in [Scanner -> ScanRecord] /\ ScanInv'
    <2>1. /\ proc' = [proc EXCEPT ![p] = kind] /\ files' = left
          /\ scan' = [s \in Scanner |-> Followed(scan[s], proc', files')]
      BY <1>1 DEF Becomes
    <2>2. /\ scan \in [Scanner -> ScanRecord]
          /\ \A s \in Scanner :
               /\ Progress(scan[s]) /\ scan[s].dead \notin scan[s].steady
               /\ scan[s].pc = "read" => scan[s].todo \subseteq scan[s].listed
      BY DEF Inv, TypeOK, ScanRecord, ScanInv, Standing
    <2>3. proc' \in [Pid -> Kind]
      BY <2>1 DEF Inv, TypeOK
    <2> QED
      BY <2>1, <2>2, <2>3, AllFollow
  <1>2. /\ proc \in [Pid -> Kind]
        /\ orphan \subseteq files /\ files \subseteq Pid
        /\ files \subseteq orphan \cup {q \in Pid : proc[q] = "running"}
    BY DEF Inv, TypeOK
  <1>3. SUFFICES ASSUME NEW kind \in Kind, NEW left \in SUBSET Pid,
                        Becomes(p, kind, left)
                 PROVE  /\ files' \subseteq orphan' \cup {q \in Pid : proc'[q] = "running"}
                        /\ orphan' \subseteq files' /\ files' \subseteq Pid
    <2>1. \E kind \in Kind : \E left \in SUBSET Pid : Becomes(p, kind, left)
      BY <1>2 DEF Process, Starts, BlocksSignals, RegistryAdd, RegistryAddFails,
             RegistryRemove, Remaining, Ends, Killed, Reaped, Kind
    <2> QED
      BY <1>1, <2>1, <1>3 DEF Inv, TypeOK, ScanRecord
  <1>4. proc' = [proc EXCEPT ![p] = kind] /\ files' = left
    BY <1>1, <1>3
  <1>5. CASE Starts(p)
    BY <1>2, <1>4, <1>5 DEF Starts, Becomes
  <1>6. CASE BlocksSignals(p)
    BY <1>2, <1>4, <1>6 DEF BlocksSignals, Becomes
  <1>7. CASE RegistryAdd(p)
    BY <1>2, <1>4, <1>7 DEF RegistryAdd, Becomes
  <1>8. CASE RegistryAddFails(p)
    BY <1>2, <1>4, <1>8 DEF RegistryAddFails, Becomes
  <1>9. CASE RegistryRemove(p)
    BY <1>2, <1>4, <1>9 DEF RegistryRemove, Remaining, Becomes
  <1>10. CASE Ends(p)
    BY <1>2, <1>4, <1>10 DEF Ends, Becomes
  <1>11. CASE Killed(p)
    BY <1>2, <1>4, <1>11 DEF Killed, Becomes
  <1>12. CASE Reaped(p)
    BY <1>2, <1>4, <1>12 DEF Reaped, Becomes
  <1> QED
    BY <1>5, <1>6, <1>7, <1>8, <1>9, <1>10, <1>11, <1>12 DEF Process

\* The directory is opened, read entry by entry, and the dead are unlinked.
LEMMA ScanMaintainsInv ==
    ASSUME Inv, NEW s \in Scanner, Scan(s)
    PROVE  Inv'
  <1>1. /\ proc \in [Pid -> Kind]
        /\ orphan \subseteq files /\ files \subseteq Pid
        /\ files \subseteq orphan \cup {q \in Pid : proc[q] = "running"}
        /\ scan \in [Scanner -> ScanRecord]
    BY DEF Inv, TypeOK, ScanRecord
  <1>2. \A t \in Scanner : Standing(scan[t]) /\ Progress(scan[t])
    BY DEF Inv, ScanInv
  <1>3. scan[s] \in ScanRecord /\ 0 \notin Pid
    BY <1>1, PidAssumption
  \* A step of this scan alone.
  <1>4. ASSUME NEW r \in ScanRecord, Standing(r), Progress(r),
               scan' = [scan EXCEPT ![s] = r], UNCHANGED <<proc, files, orphan>>
        PROVE  Inv'
    <2>1. scan' \in [Scanner -> ScanRecord]
      BY <1>1, <1>4
    <2>2. \A t \in Scanner : Standing(scan'[t]) /\ Progress(scan'[t])
      BY <1>1, <1>2, <1>4
    <2>3. ScanInv'
      BY <2>2, <1>4 DEF ScanInv, Standing, Progress, Registered, Abandoned
    <2> QED
      BY <1>1, <1>4, <2>1, <2>3 DEF Inv, TypeOK, ScanRecord
  <1>5. CASE Opens(s)
    <2> DEFINE r == [scan[s] EXCEPT !.pc = "read", !.todo = files,
                       !.scans = scan[s].scans + 1,
                       !.steady = Registered(proc, files),
                       !.stale = Abandoned(proc, files), !.listed = files]
    <2>1. scan' = [scan EXCEPT ![s] = r] /\ UNCHANGED <<proc, files, orphan>>
      BY <1>5 DEF Opens
    <2>2. /\ scan[s].scans + 1 \in 0 .. MaxScans /\ scan[s].dead = 0
      BY <1>2, <1>3, <1>5, ScansAssumption DEF Opens, ScanRecord, Progress
    <2>3. /\ r \in ScanRecord /\ r.pc = "read" /\ r.todo = files
          /\ r.dead = 0 /\ r.hit = scan[s].hit
          /\ r.steady = Registered(proc, files) /\ r.stale = Abandoned(proc, files)
          /\ r.listed = files
      BY <1>1, <1>3, <2>2 DEF ScanRecord, Registered, Abandoned
    <2> HIDE DEF r
    <2>4. Standing(r) /\ Progress(r)
      BY <1>1, <1>3, <2>3 DEF Standing, Progress, Registered, Abandoned
    <2> QED
      BY <1>4, <2>1, <2>3, <2>4
  <1>6. ASSUME NEW p \in Pid, Signals(s, p)
        PROVE  Inv'
    <2> DEFINE r == Reads(s, p)
    <2>1. /\ scan[s].pc = "read" /\ scan[s].dead = 0
          /\ UNCHANGED <<files, orphan>>
      BY <1>6 DEF Signals
    <2>2. /\ r \in ScanRecord /\ r.pc = "read" /\ r.todo = scan[s].todo \ {p}
          /\ r.hit = IF Signalled(p) THEN scan[s].hit \cup {p} ELSE scan[s].hit
          /\ r.dead = IF Unlinkable(p) THEN p ELSE 0
          /\ r.steady = scan[s].steady /\ r.stale = scan[s].stale
          /\ r.listed = scan[s].listed
      BY <1>3, <2>1 DEF Reads, ScanRecord
    <2> HIDE DEF r
    <2>3. Standing(r) /\ Progress(r)
      <3>1. /\ scan[s].steady \subseteq Registered(proc, files)
            /\ scan[s].stale \subseteq Abandoned(proc, files)
            /\ scan[s].steady \subseteq scan[s].todo \cup scan[s].hit
            /\ scan[s].stale \subseteq scan[s].todo \cup {scan[s].dead}
            /\ scan[s].todo \cup files \subseteq scan[s].listed
        BY <1>2, <2>1 DEF Standing, Progress
      <3>2. 0 \notin scan[s].steady /\ 0 \notin scan[s].stale
        BY <1>3 DEF ScanRecord
      <3>3. p \in scan[s].steady => proc[p] = "running"
        BY <3>1 DEF Registered
      <3>4. p \in scan[s].stale => proc[p] = "free"
        BY <3>1 DEF Abandoned
      <3>5. r.dead \notin r.steady
        BY <2>2, <3>2, <3>3 DEF Unlinkable
      <3>6. r.steady \subseteq r.todo \cup r.hit
        BY <2>2, <3>1, <3>3 DEF Signalled
      <3>7. r.stale \subseteq r.todo \cup {r.dead}
        BY <2>1, <2>2, <3>1, <3>2, <3>4 DEF Unlinkable
      <3> QED
        BY <2>2, <3>1, <3>5, <3>6, <3>7 DEF Standing, Progress
    <2>4. CASE proc' = proc /\ scan' = [scan EXCEPT ![s] = r]
      BY <1>4, <2>1, <2>2, <2>3, <2>4
    <2>5. CASE /\ proc[p] = "other" /\ proc' = [proc EXCEPT ![p] = "zombie"]
               /\ scan' = [t \in Scanner |->
                    Followed([scan EXCEPT ![s] = r][t], proc', files')]
      <3> DEFINE all == [scan EXCEPT ![s] = r]
      <3>1. all \in [Scanner -> ScanRecord]
        BY <1>1, <2>2
      <3>2. \A t \in Scanner : /\ Progress(all[t]) /\ all[t].dead \notin all[t].steady
                               /\ all[t].pc = "read" => all[t].todo \subseteq all[t].listed
        BY <1>1, <1>2, <2>3 DEF Standing
      <3>3. scan' = [t \in Scanner |-> Followed(all[t], proc', files')]
        BY <2>5
      <3> HIDE DEF all
      <3>4. scan' \in [Scanner -> ScanRecord] /\ ScanInv'
        BY <1>1, <2>1, <3>1, <3>2, <3>3, AllFollow
      <3>5. /\ proc' \in [Pid -> Kind]
            /\ {q \in Pid : proc[q] = "running"} = {q \in Pid : proc'[q] = "running"}
        BY <1>1, <2>5 DEF Kind
      <3> QED
        BY <1>1, <2>1, <3>4, <3>5 DEF Inv, TypeOK, ScanRecord
    <2> QED
      BY <1>6, <2>1, <2>4, <2>5 DEF Signals, r
  <1>7. CASE Unlinks(s)
    <2> DEFINE r   == [scan[s] EXCEPT !.dead = 0]
               all == [scan EXCEPT ![s] = r]
    <2>1. /\ scan[s].dead # 0 /\ proc' = proc
          /\ files' = files \ {scan[s].dead} /\ orphan' = orphan \ {scan[s].dead}
          /\ scan' = [t \in Scanner |-> Followed(all[t], proc', files')]
      BY <1>7 DEF Unlinks
    <2>2. /\ r \in ScanRecord /\ r.pc = scan[s].pc /\ r.dead = 0
          /\ r.todo = scan[s].todo /\ r.hit = scan[s].hit
          /\ r.steady = scan[s].steady /\ r.stale = scan[s].stale
          /\ r.listed = scan[s].listed
      BY <1>3 DEF ScanRecord
    <2>3. scan[s].pc = "read" /\ scan[s].dead \in Pid
      BY <1>2, <1>3, <2>1 DEF Progress, ScanRecord
    <2> HIDE DEF r
    <2>4. PICK f : f = Followed(r, proc', files')
      OBVIOUS
    <2>5. /\ f \in ScanRecord /\ f.pc = "read" /\ f.dead = 0 /\ f.todo = scan[s].todo
          /\ f.hit = scan[s].hit
          /\ f.steady = scan[s].steady \cap Registered(proc', files')
          /\ f.stale = scan[s].stale \cap Abandoned(proc', files')
          /\ f.listed = scan[s].listed \cup files'
      BY <1>1, <2>1, <2>2, <2>3, <2>4 DEF Followed, ScanRecord
    <2>6. scan'[s] = f
      BY <1>1, <2>1, <2>4
    <2>7. \A t \in Scanner \ {s} : scan'[t] = Followed(scan[t], proc', files')
      BY <1>1, <2>1
    <2>8. scan' = [t \in Scanner |-> scan'[t]]
      BY <2>1
    <2> HIDE DEF all
    \* The one unlinked leaves the history with the file.
    <2>9. Standing(f)' /\ Progress(f)'
      <3>1. scan[s].dead \notin f.stale
        BY <2>1, <2>5 DEF Abandoned
      <3>2. 0 \notin f.steady
        BY <1>3, <2>5 DEF ScanRecord
      <3>3. /\ scan[s].steady \subseteq scan[s].todo \cup scan[s].hit
            /\ scan[s].stale \subseteq scan[s].todo \cup {scan[s].dead}
            /\ scan[s].todo \subseteq scan[s].listed
        BY <1>2, <2>3 DEF Progress, Standing
      <3> QED
        BY <2>5, <3>1, <3>2, <3>3 DEF Standing, Progress
    <2>10. ASSUME NEW t \in Scanner
           PROVE  scan'[t] \in ScanRecord /\ Standing(scan[t])' /\ Progress(scan[t])'
      <3>1. CASE t = s
        BY <2>5, <2>6, <2>9, <3>1 DEF Standing, Progress
      <3>2. CASE t # s
        <4>1. /\ scan[t] \in ScanRecord /\ scan[t].dead \notin scan[t].steady
              /\ scan[t].pc = "read" => scan[t].todo \subseteq scan[t].listed
              /\ files' \in SUBSET Pid
          BY <1>1, <1>2, <2>1 DEF Standing
        <4> QED
          BY <1>2, <2>7, <3>2, <4>1, FollowedKeeps DEF Standing, Progress
      <3> QED
        BY <3>1, <3>2
    <2>11. scan' \in [Scanner -> ScanRecord] /\ ScanInv'
      BY <2>8, <2>10 DEF ScanInv
    <2> QED
      BY <1>1, <2>1, <2>11 DEF Inv, TypeOK, ScanRecord
  <1>8. CASE Ended(s)
    <2> DEFINE r == [scan[s] EXCEPT !.pc = "counted"]
    <2>1. /\ scan[s].pc = "read" /\ scan[s].dead = 0 /\ scan[s].todo = {}
          /\ scan' = [scan EXCEPT ![s] = r] /\ UNCHANGED <<proc, files, orphan>>
      BY <1>8 DEF Ended
    <2>2. /\ r \in ScanRecord /\ r.pc = "counted" /\ r.dead = 0
          /\ r.hit = scan[s].hit
          /\ r.steady = scan[s].steady /\ r.stale = scan[s].stale
      BY <1>3, <2>1 DEF ScanRecord
    <2> HIDE DEF r
    <2>3. Standing(r) /\ Progress(r)
      <3>1. 0 \notin scan[s].stale
        BY <1>3 DEF ScanRecord
      <3> QED
        BY <1>2, <2>1, <2>2, <3>1 DEF Standing, Progress
    <2> QED
      BY <1>4, <2>1, <2>2, <2>3
  <1>9. CASE Returns(s)
    <2> DEFINE r == [Resting EXCEPT !.scans = scan[s].scans]
    <2>1. scan' = [scan EXCEPT ![s] = r] /\ UNCHANGED <<proc, files, orphan>>
      BY <1>9 DEF Returns
    <2>2. /\ r \in ScanRecord /\ r.pc = "idle" /\ r.dead = 0
          /\ r.steady = {} /\ r.stale = {}
      BY <1>3 DEF ScanRecord, Resting
    <2> HIDE DEF r
    <2> QED
      BY <1>4, <2>1, <2>2 DEF Standing, Progress
  <1> QED
    BY <1>5, <1>6, <1>7, <1>8, <1>9 DEF Scan

\* Every step keeps the invariant.
LEMMA NextMaintainsInv ==
    ASSUME Inv, [Next]_vars
    PROVE  Inv'
  <1>1. CASE UNCHANGED vars
    BY <1>1 DEF vars, Inv, TypeOK, ScanInv, Standing, Progress, Registered, Abandoned
  <1> QED
    BY <1>1, ProcessMaintainsInv, ScanMaintainsInv DEF Next

\* The inductive invariant holds in every reachable state.
LEMMA InvIsInvariant == Spec => []Inv
  BY InitEstablishesInv, NextMaintainsInv, PTL DEF Spec

----------------------------------------------------------------------------
(* The theorems                                                            *)

\* Type correctness; every file is of a running daemon or of a killed one.
THEOREM TypeCorrect == Spec => []TypeOK
  BY InvIsInvariant, PTL DEF Inv

\* However many programs scan while daemons start, end and are killed, a scan
\* that has ended has hit every daemon registered all along and left no file
\* of a process that was gone all along.
THEOREM ScansAreComplete == Spec => []ScanIsComplete
  <1>1. Inv => ScanIsComplete
    BY DEF Inv, ScanInv, Progress, ScanIsComplete
  <1> QED
    BY <1>1, InvIsInvariant, PTL

\* The file about to be unlinked is never that of a daemon registered since
\* before the scan.
THEOREM LivingFilesStay == Spec => []OnlyTheDeadAreUnlinked
  <1>1. Inv => OnlyTheDeadAreUnlinked
    BY DEF Inv, ScanInv, Standing, OnlyTheDeadAreUnlinked
  <1> QED
    BY <1>1, InvIsInvariant, PTL

\* Only an entry that is returned is hit: every other step leaves hit alone, or
\* empties it.
LEMMA HitsAreReturned ==
    ASSUME Inv, [Next]_vars, NEW s \in Scanner, NEW p \in scan'[s].hit \ scan[s].hit
    PROVE  scan[s].pc = "read" /\ p \in Returned(s)
  <1>1. /\ scan \in [Scanner -> ScanRecord] /\ files \subseteq Pid
        /\ \A t \in Scanner : scan[t] \in ScanRecord
    BY DEF Inv, TypeOK, ScanRecord
  <1>2. \A t \in Scanner : \A procs, left : Followed(scan[t], procs, left).hit = scan[t].hit
    BY <1>1 DEF Followed, ScanRecord
  <1>3. ASSUME NEW q \in Pid, Process(q)
        PROVE  FALSE
    <2>1. \E kind, left : Becomes(q, kind, left)
      BY <1>3 DEF Process, Starts, BlocksSignals, RegistryAdd, RegistryAddFails,
                  RegistryRemove, Ends, Killed, Reaped
    <2> QED
      BY <1>2, <2>1 DEF Becomes
  <1>4. ASSUME NEW t \in Scanner, Scan(t)
        PROVE  scan[s].pc = "read" /\ p \in Returned(s)
    <2>1. CASE Opens(t)
      BY <1>1, <2>1 DEF Opens, ScanRecord
    <2>2. ASSUME NEW q \in Pid, Signals(t, q)
          PROVE  scan[s].pc = "read" /\ p \in Returned(s)
      <3> DEFINE r == [scan EXCEPT ![t] = Reads(t, q)]
      <3>1. /\ Reads(t, q) \in ScanRecord
            /\ Reads(t, q).hit \subseteq scan[t].hit \cup {q}
        BY <1>1, <2>2 DEF Reads, ScanRecord
      <3>2. /\ r \in [Scanner -> ScanRecord]
            /\ r[s].hit \subseteq scan[s].hit \cup (IF s = t THEN {q} ELSE {})
        BY <1>1, <3>1
      <3>3. \/ scan' = r
            \/ \E procs : scan' = [u \in Scanner |-> Followed(r[u], procs, files)]
        BY <2>2 DEF Signals
      <3> HIDE DEF r
      <3>4. scan'[s].hit = r[s].hit
        BY <3>2, <3>3 DEF Followed, ScanRecord
      <3> QED
        BY <2>2, <3>2, <3>4 DEF Signals
    <2>3. CASE Unlinks(t)
      <3> DEFINE r == [scan EXCEPT ![t].dead = 0]
      <3>1. r \in [Scanner -> ScanRecord] /\ r[s].hit = scan[s].hit
        BY <1>1 DEF ScanRecord
      <3>2. \E left : scan' = [u \in Scanner |-> Followed(r[u], proc, left)]
        BY <2>3 DEF Unlinks
      <3> HIDE DEF r
      <3> QED
        BY <3>1, <3>2 DEF Followed, ScanRecord
    <2>4. CASE Ended(t)
      BY <1>1, <2>4 DEF Ended, ScanRecord
    <2>5. CASE Returns(t)
      BY <1>1, <2>5 DEF Returns, Resting, ScanRecord
    <2> QED
      BY <1>4, <2>1, <2>2, <2>3, <2>4, <2>5 DEF Scan
  <1>5. CASE UNCHANGED vars
    BY <1>5 DEF vars
  <1> QED
    BY <1>3, <1>4, <1>5 DEF Next

\* A process that has not blocked the signal is hit only under the number of a
\* killed daemon whose file is there, or of one whose file has gone since the
\* directory was opened.
THEOREM StraySignalsAreOfReusedPids == Spec => OnlyReusedPidsAreHit
  <1>1. ASSUME Inv, [Next]_vars
        PROVE  [ \A s \in Scanner, p \in Pid :
                   proc[p] = "other" /\ p \in scan'[s].hit \ scan[s].hit =>
                     p \in orphan \/ p \in scan[s].listed \ files ]_vars
    <2> SUFFICES ASSUME NEW s \in Scanner, NEW p \in Pid, proc[p] = "other",
                        p \in scan'[s].hit \ scan[s].hit
                 PROVE  p \in orphan \/ p \in scan[s].listed \ files
      OBVIOUS
    <2>1. scan[s].pc = "read" /\ p \in Returned(s)
      BY <1>1, HitsAreReturned
    <2>2. p \in scan[s].listed
      BY <1>1, <2>1 DEF Inv, ScanInv, Standing, Returned
    <2>3. p \in files => p \in orphan
      BY <1>1 DEF Inv, TypeOK
    <2> QED
      BY <2>2, <2>3
  <1> QED
    BY <1>1, InvIsInvariant, PTL DEF Spec, OnlyReusedPidsAreHit
=============================================================================
