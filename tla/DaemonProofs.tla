---------------------------- MODULE DaemonProofs ----------------------------
(***************************************************************************)
(* Proofs about the daemon's main loop, for every interval, retry time and *)
(* number of failures and versions of the file, and any signals.                   *)
(***************************************************************************)
EXTENDS Daemon, TLAPS

\* What Waybar shows is the line rendered last: the line emitted last, if the
\* config ever parsed, and otherwise the complaint about it.
EmitInv == /\ bar = line
           /\ last # NoLine => bar = last
           /\ ~have => last = NoLine
           /\ pc = "load" => ~have

\* The inductive invariant.
Inv == TypeOK /\ EmitInv

\* The retry time is a positive multiple of RETRY_MIN, with any shift that the
\* code makes.
LEMMA ShiftIsPositive ==
    ASSUME NEW k \in 0 .. 5
    PROVE  2 ^ k \in Nat \ {0}
  <1>1. k = 0 \/ k = 1 \/ k = 2 \/ k = 3 \/ k = 4 \/ k = 5
    OBVIOUS
  <1>2. /\ 2 ^ 0 \in Nat \ {0} /\ 2 ^ 1 \in Nat \ {0} /\ 2 ^ 2 \in Nat \ {0}
        /\ 2 ^ 3 \in Nat \ {0} /\ 2 ^ 4 \in Nat \ {0} /\ 2 ^ 5 \in Nat \ {0}
    OBVIOUS
  <1> QED
    BY <1>1, <1>2, Zenon

\* The wait is at least a second and at most the interval.
LEMMA WaitIsBounded ==
    ASSUME NEW n \in Nat
    PROVE  WaitAfter(n) \in 1 .. Interval
  <1>1. Interval \in Nat \ {0} /\ RetryMin \in Nat \ {0}
    BY RetryAssumption
  <1>2. CASE n = 0
    <2>1. WaitAfter(n) = Interval
      BY <1>2 DEF WaitAfter
    <2> QED
      BY <1>1, <2>1
  <1>3. CASE n > 0
    <2>1. PICK k \in 0 .. 5 : k = IF n > 5 THEN 5 ELSE n - 1
      BY <1>3
    <2>2. PICK r \in Nat \ {0} : r = RetryMin * 2 ^ k
      <3>1. \A x, y \in Nat \ {0} : x * y \in Nat \ {0}
        OBVIOUS
      <3> QED
        BY <1>1, <3>1, ShiftIsPositive
    <2>3. WaitAfter(n) = IF r < Interval THEN r ELSE Interval
      BY <1>3, <2>1, <2>2 DEF WaitAfter
    <2> QED
      BY <1>1, <2>3
  <1> QED
    BY <1>2, <1>3

Versions == [version : 1 .. MaxSaves, valid : BOOLEAN]

LEMMA VersionsAreVersions ==
    /\ \A v \in Versions : v.version \in 1 .. MaxSaves /\ v.valid \in BOOLEAN
    /\ \A n \in 1 .. MaxSaves, b \in BOOLEAN : [version |-> n, valid |-> b] \in Versions
    /\ \A v \in Versions, b \in BOOLEAN : [v EXCEPT !.valid = b] \in Versions
  BY DEF Versions

\* The daemon starts with nothing shown.
LEMMA InitIsRight == Init => Inv
  <1> SUFFICES ASSUME Init PROVE Inv
    OBVIOUS
  <1>1. saved \in [version : 1 .. MaxSaves, valid : BOOLEAN]
    BY BoundsAssumption DEF Init
  <1>2. /\ owed \in 0 .. MaxSaves /\ cfg \in 0 .. MaxSaves
        /\ failures \in 0 .. FailureBound /\ wait \in 1 .. Interval
    BY BoundsAssumption, RetryAssumption DEF Init
  <1>3. <<last, line, bar>> \in Lines \X Lines \X Lines
    BY DEF Init, Lines
  <1>4. flags \in BOOLEAN \X BOOLEAN \X BOOLEAN \X BOOLEAN
    BY DEF Init, flags
  <1>5. TypeOK
    <2>1. locked \in BOOLEAN /\ polled \in BOOLEAN
      BY DEF Init
    <2> QED
      BY <1>1, <1>2, <1>3, <1>4, <2>1 DEF Init, TypeOK
  <1> QED
    BY <1>5 DEF Init, Inv, EmitInv

\* Rendering: what is printed is the line rendered, and what is not printed is
\* there already.
LEMMA RenderStaysRight ==
    ASSUME Inv, RenderInvalid \/ \E outcome \in Outcomes : Render(outcome)
    PROVE  Inv'
  <1>1. /\ pc' = "wait" /\ UNCHANGED <<disk, inputs, watching, have, cfg, changed, ready>>
        /\ <<force', reload', wake', polled'>> = <<FALSE, FALSE, FALSE, FALSE>>
    BY DEF RenderInvalid, Render, StartWaiting
  <1>2. /\ failures' \in 0 .. FailureBound /\ wait' \in 1 .. Interval
        /\ <<last', line', bar'>> \in Lines \X Lines \X Lines
        /\ EmitInv'
    <2>1. CASE RenderInvalid
      BY <1>1, <2>1, RetryAssumption
         DEF RenderInvalid, Inv, TypeOK, EmitInv, Lines, NoLine
    <2>2. ASSUME NEW outcome \in Outcomes, Render(outcome)
          PROVE  /\ failures' \in 0 .. FailureBound /\ wait' \in 1 .. Interval
                 /\ <<last', line', bar'>> \in Lines \X Lines \X Lines
                 /\ EmitInv'
      <3>1. PICK new \in (0 .. MaxSaves) \X Outcomes : new = <<cfg, outcome>>
        BY DEF Inv, TypeOK
      <3>2. new \in Lines /\ new # NoLine
        BY <3>1 DEF Lines, NoLine, Outcomes
      <3>3. /\ have /\ line' = new
            /\ \/ last # new /\ bar' = new /\ last' = new
               \/ last = new /\ bar' = bar /\ last' = last
        BY <2>2, <3>1 DEF Render, Emit
      <3>4. failures' \in 0 .. FailureBound
        BY <2>2, RetryAssumption DEF Render, CountFailure, Inv, TypeOK
      <3>5. wait' \in 1 .. Interval
        BY <2>2, <3>4, WaitIsBounded, RetryAssumption DEF Render
      <3> QED
        BY <1>1, <3>2, <3>3, <3>4, <3>5 DEF Inv, TypeOK, EmitInv
    <2> QED
      BY <2>1, <2>2
  <1>3. TypeOK'
    BY <1>1, <1>2 DEF Inv, TypeOK, disk, inputs, flags
  <1> QED
    BY <1>2, <1>3 DEF Inv

\* Loading the config, at the start and again.
LEMMA LoadStaysRight ==
    ASSUME Inv, LoadAtStart \/ SetUpWatch \/ Reload
    PROVE  Inv'
  <1>1. saved.version \in 0 .. MaxSaves /\ saved.valid \in BOOLEAN
    BY DEF Inv, TypeOK
  <1>2. /\ UNCHANGED <<disk, inputs, flags, polled, ready, render>>
        /\ pc' \in {"watch", "render"}
        /\ watching' \in BOOLEAN /\ have' \in BOOLEAN /\ cfg' \in 0 .. MaxSaves
        /\ have => have'
    <2>1. CASE LoadAtStart
      <3>1. ~have
        BY <2>1 DEF LoadAtStart, Inv, EmitInv
      <3>2. cfg' \in 0 .. MaxSaves
        BY <1>1, <2>1, BoundsAssumption DEF LoadAtStart
      <3> QED
        BY <1>1, <2>1, <3>1, <3>2 DEF LoadAtStart, Inv, TypeOK
    <2>2. CASE SetUpWatch
      BY <2>2 DEF SetUpWatch, Inv, TypeOK
    <2>3. CASE Reload
      BY <1>1, <2>3 DEF Reload, Inv, TypeOK
    <2> QED
      BY <2>1, <2>2, <2>3
  <1> QED
    BY <1>2 DEF Inv, TypeOK, EmitInv, disk, inputs, flags, render

\* The wait and what ends it.
LEMMA WaitStaysRight ==
    ASSUME Inv,
           \/ Timeout \/ Poll
           \/ RefreshRequested \/ CycleRequested \/ Cycled
           \/ ReloadRequested \/ Terminated
           \/ Drain \/ NothingToDrain \/ DrainMore \/ Settled \/ EmitFails
    PROVE  Inv'
  <1>1. /\ UNCHANGED <<locked, watching, have, cfg, render>>
        /\ pc' \in {"render", "wait", "signals", "lock", "debounce", "reload", "out"}
    BY DEF Timeout, Poll, RefreshRequested, CycleRequested, Cycled, ReloadRequested,
           Terminated, Drain, NothingToDrain, DrainMore, Settled, EmitFails, Takes,
           Resume, inputs, render
  <1>2. saved' \in [version : 1 .. MaxSaves, valid : BOOLEAN] /\ owed' \in 0 .. MaxSaves
    <2>1. CASE NewVersion /\ owed' = saved'.version
      <3>1. saved.version + 1 \in 1 .. MaxSaves
        BY <2>1, BoundsAssumption DEF NewVersion, Inv, TypeOK
      <3> QED
        BY <2>1, <3>1 DEF NewVersion
    <2>2. CASE saved' = saved /\ owed' = owed
      BY <2>2 DEF Inv, TypeOK
    <2> QED
      BY <2>1, <2>2
         DEF Timeout, Poll, RefreshRequested, CycleRequested, Cycled, ReloadRequested,
             Terminated, Drain, NothingToDrain, DrainMore, Settled, EmitFails, Takes,
             disk
  <1>3. tmp' \in BOOLEAN /\ polled' \in BOOLEAN /\ ready' \in SUBSET {"signal", "inotify"}
    <2>1. tmp' = tmp
      BY DEF Timeout, Poll, RefreshRequested, CycleRequested, Cycled, ReloadRequested,
             Terminated, Drain, NothingToDrain, DrainMore, Settled, EmitFails, disk
    <2>2. polled' = polled \/ polled' = TRUE \/ polled' = FALSE \/ polled' = ~wake'
      BY DEF Timeout, Poll, RefreshRequested, CycleRequested, Cycled, ReloadRequested,
             Terminated, Drain, NothingToDrain, DrainMore, Settled, EmitFails, Takes,
             Resume
    <2>3. ready' = ready \/ ready' \in SUBSET {"signal", "inotify"}
      BY DEF Timeout, Poll, RefreshRequested, CycleRequested, Cycled, ReloadRequested,
             Terminated, Drain, NothingToDrain, DrainMore, Settled, EmitFails, Takes,
             Resume
    <2>4. tmp \in BOOLEAN /\ polled \in BOOLEAN /\ ready \in SUBSET {"signal", "inotify"}
      BY DEF Inv, TypeOK
    <2>5. polled' \in BOOLEAN
      BY <2>2, <2>4
    <2> QED
      BY <2>1, <2>3, <2>4, <2>5
  <1>4. events' \in SUBSET {"config", "other"}
    <2>1. events' \in {events, {}, events \cup {"config", "other"}}
      BY DEF Timeout, Poll, RefreshRequested, CycleRequested, Cycled, ReloadRequested,
             Terminated, Drain, NothingToDrain, DrainMore, Settled, EmitFails, disk,
             Reported
    <2> QED
      BY <2>1 DEF Inv, TypeOK
  <1>5. signals' \in SUBSET Signals
    BY DEF Timeout, Poll, RefreshRequested, CycleRequested, Cycled, ReloadRequested,
           Terminated, Drain, NothingToDrain, DrainMore, Settled, EmitFails, Takes,
           inputs, Inv, TypeOK
  <1>6. /\ force' \in BOOLEAN /\ reload' \in BOOLEAN
        /\ wake' \in BOOLEAN /\ changed' \in BOOLEAN
    <2>1. force' \in {force, TRUE}
      BY DEF Timeout, Poll, RefreshRequested, CycleRequested, Cycled, ReloadRequested,
             Terminated, Drain, NothingToDrain, DrainMore, Settled, EmitFails, Takes,
             Resume, flags
    <2>2. reload' \in {reload, TRUE, reload \/ ~watching, reload \/ changed}
      BY DEF Timeout, Poll, RefreshRequested, CycleRequested, Cycled, ReloadRequested,
             Terminated, Drain, NothingToDrain, DrainMore, Settled, EmitFails, Takes,
             flags
    <2>3. wake' \in {wake, TRUE, wake \/ ~watching, wake \/ changed}
      BY DEF Timeout, Poll, RefreshRequested, CycleRequested, Cycled, ReloadRequested,
             Terminated, Drain, NothingToDrain, DrainMore, Settled, EmitFails, Takes,
             flags
    <2>4. changed' = changed \/ changed' \in BOOLEAN
      <3>1. CASE Drain
        <4>1. changed' = TRUE \/ changed' = FALSE
          BY <3>1 DEF Drain
        <4> QED
          BY <4>1
      <3>2. CASE DrainMore
        <4>1. changed' = (changed \/ "config" \in events)
          BY <3>2 DEF DrainMore
        <4> QED
          BY <4>1, Zenon
      <3> QED
        BY <3>1, <3>2
           DEF Timeout, Poll, RefreshRequested, CycleRequested, Cycled,
               ReloadRequested, Terminated, NothingToDrain, Settled, EmitFails,
               Takes, Resume, flags
    <2>5. <<force, reload, wake, changed>> \in BOOLEAN \X BOOLEAN \X BOOLEAN \X BOOLEAN
      BY DEF Inv, TypeOK, flags
    <2>6. /\ force \in BOOLEAN /\ reload \in BOOLEAN
          /\ wake \in BOOLEAN /\ changed \in BOOLEAN
      BY <2>5
    <2>7. force' \in BOOLEAN
      BY <2>1, <2>6
    <2>8. reload' \in BOOLEAN
      BY <2>2, <2>6
    <2>9. wake' \in BOOLEAN
      BY <2>3, <2>6
    <2>10. changed' \in BOOLEAN
      BY <2>4, <2>6
    <2> QED
      BY <2>7, <2>8, <2>9, <2>10
  <1> QED
    BY <1>1, <1>2, <1>3, <1>4, <1>5, <1>6 DEF Inv, TypeOK, EmitInv, flags, render

\* The other programs and the user only touch the file, events and signals.
LEMMA EnvironmentStaysRight ==
    ASSUME Inv,
           \/ \E sig \in Signals : Send(sig)
           \/ LockTaken \/ LockGivenUp \/ OtherFileTouched
           \/ ProgramWritesTmp \/ ProgramRenames \/ UserTruncates \/ UserCloses
    PROVE  Inv'
  <1>1. UNCHANGED daemon
    BY DEF Send, LockTaken, LockGivenUp, OtherFileTouched, ProgramWritesTmp,
           ProgramRenames, UserTruncates, UserCloses
  <1>2. signals' \in SUBSET Signals /\ locked' \in BOOLEAN
    BY BoundsAssumption
       DEF Send, LockTaken, LockGivenUp, OtherFileTouched, ProgramWritesTmp,
           ProgramRenames, UserTruncates, UserCloses, inputs, Inv, TypeOK
  <1>3. tmp' \in BOOLEAN /\ events' \in SUBSET {"config", "other"}
    BY DEF Send, LockTaken, LockGivenUp, OtherFileTouched, ProgramWritesTmp,
           ProgramRenames, UserTruncates, UserCloses, disk, Reported, Inv, TypeOK
  <1>4. saved \in Versions /\ owed \in 0 .. MaxSaves
    BY DEF Inv, TypeOK, Versions
  <1>5. saved' \in Versions
    <2>1. CASE UNCHANGED saved
      BY <1>4, <2>1
    <2>2. CASE UserTruncates
      BY <1>4, <2>2, VersionsAreVersions DEF UserTruncates
    <2>3. CASE NewVersion
      <3>1. saved.version + 1 \in 1 .. MaxSaves
        BY <1>4, <2>3, VersionsAreVersions, BoundsAssumption DEF NewVersion
      <3> QED
        BY <2>3, <3>1, VersionsAreVersions DEF NewVersion
    <2>4. CASE UserCloses
      <3>1. saved.version + 1 \in 1 .. MaxSaves
        BY <1>4, <2>4, VersionsAreVersions, BoundsAssumption DEF UserCloses
      <3> QED
        BY <2>4, <3>1, VersionsAreVersions DEF UserCloses
    <2> QED
      BY <2>1, <2>2, <2>3, <2>4 DEF Send, LockTaken, LockGivenUp, OtherFileTouched,
                                    ProgramWritesTmp, ProgramRenames, disk
  <1>6. owed' \in 0 .. MaxSaves
    <2>1. owed' \in {owed, 0, saved'.version}
      BY DEF Send, LockTaken, LockGivenUp, OtherFileTouched, ProgramWritesTmp,
             ProgramRenames, UserTruncates, UserCloses, disk
    <2> QED
      BY <1>4, <1>5, <2>1, VersionsAreVersions, BoundsAssumption
  <1> QED
    BY <1>1, <1>2, <1>3, <1>5, <1>6
       DEF Inv, TypeOK, EmitInv, daemon, flags, render, Versions

\* The invariant holds in every reachable state.
LEMMA InvIsInvariant == Spec => []Inv
  <1>1. Inv /\ [Next]_vars => Inv'
    <2> SUFFICES ASSUME Inv, [Next]_vars PROVE Inv'
      OBVIOUS
    <2>1. CASE UNCHANGED vars
      BY <2>1 DEF vars, disk, inputs, flags, render, Inv, TypeOK, EmitInv
    <2> QED
      BY <2>1, RenderStaysRight, LoadStaysRight, WaitStaysRight, EnvironmentStaysRight
         DEF Next, Step, Environment, CycleNext, CycleUnlocked
  <1> QED
    BY InitIsRight, <1>1, PTL DEF Spec

\* Type correctness; the daemon never waits longer than its interval, however
\* many fetches have failed, nor less than a second.
THEOREM TypeCorrect == Spec => []TypeOK
  BY InvIsInvariant, PTL DEF Inv

\* Whatever was rendered, printed or left unprinted before, a waiting daemon
\* has Waybar show the line it rendered last.
THEOREM WaitingBarIsCurrent == Spec => []BarIsCurrent
  <1>1. Inv => BarIsCurrent
    BY DEF Inv, EmitInv, BarIsCurrent
  <1> QED
    BY <1>1, InvIsInvariant, PTL
=============================================================================
