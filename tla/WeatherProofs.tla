---------------------------- MODULE WeatherProofs ----------------------------
(***************************************************************************)
(* Proofs about Weather, for every number of bars and commands, every      *)
(* interval, margin, ttl and timeout, and every bound on time.             *)
(*                                                                         *)
(* The three properties speak of a call that is done; what makes them      *)
(* inductive is what the call still to be done relies on: that answers     *)
(* came after they were asked for, within the timeout, and not later than  *)
(* now (CameInTime); that the stamp of the file is the time its answer     *)
(* came, less what the wall clock had lost by then (FileInv); that a call  *)
(* carries the file as it was when it began (RunInv); and that a bar which *)
(* shows an answer sleeps until an interval after that answer came         *)
(* (ShownInv).                                                             *)
(***************************************************************************)
EXTENDS Weather, TLAPS

CameInTime(a) ==
    a # Nothing => a.at <= a.came /\ a.came <= a.at + Timeout /\ a.came <= clock

FileInv ==
    file # Nothing => /\ CameInTime(file.answer) /\ file.sound
                      /\ file.stamp <= file.answer.came
                      /\ back = 0 => file.stamp = file.answer.came

\* A call under way, or done.
RunInv(p) ==
    /\ run[p].began <= clock
    /\ run[p].pc = "request" => clock <= run[p].began + Timeout
    /\ CameInTime(run[p].answer)
    /\ run[p].cached # Nothing => /\ CameInTime(run[p].cached.answer)
                                  /\ run[p].cached.answer.at <= run[p].began
                                  /\ run[p].cached.sound
    /\ run[p].tick => p \in Bars /\ due[p] <= run[p].began

\* What FreshIsYoung, NoWorseThanCache and TickRefetches say of one call.
Fresh(p) ==
    Done(p) /\ ~run[p].stale =>
      \/ Own(p)
      \/ /\ ~run[p].force
         /\ run[p].began - run[p].answer.at < Ttl(p) + Timeout + back

NoWorse(p) ==
    run[p].pc = "done" /\ run[p].cached # Nothing =>
      /\ run[p].answer # Nothing
      /\ run[p].answer.at >= run[p].cached.answer.at
      /\ run[p].cached.sound

Refetches(p) ==
    p \in Bars /\ Done(p) /\ run[p].tick /\ ~run[p].stale /\ back = 0 =>
      run[p].answer # shown[p]

CallInv(p) == RunInv(p) /\ Fresh(p) /\ NoWorse(p) /\ Refetches(p)

ShownInv ==
    \A p \in Bars : shown[p] # Nothing =>
      CameInTime(shown[p]) /\ shown[p].came + Interval <= due[p]

\* The inductive invariant.
Inv == TypeOK /\ FileInv /\ ShownInv /\ \A p \in Procs : CallInv(p)

Call == [pc : {"idle", "request", "done"}, force : BOOLEAN,
         tick : BOOLEAN, began : 0 .. MaxTime,
         cached : Stamped \cup {Nothing},
         answer : Answer \cup {Nothing}, stale : BOOLEAN]

LEMMA IdleIsACall ==
    /\ Idle \in Call /\ Idle.pc = "idle" /\ Idle.began = 0 /\ Idle.tick = FALSE
    /\ Idle.answer = Nothing /\ Idle.cached = Nothing
  BY MaxTimeAssumption DEF Idle, Call

LEMMA InitEstablishesInv == Init => Inv
  <1> SUFFICES ASSUME Init PROVE Inv
    OBVIOUS
  <1>1. TypeOK
    <2>1. 0 \in 0 .. MaxTime /\ 0 \in 0 .. MaxTime + Interval
      BY MaxTimeAssumption, WaitsAssumption
    <2>2. run \in [Procs -> Call]
      BY IdleIsACall DEF Init
    <2> QED
      BY <2>1, <2>2 DEF Init, TimeInit, TypeOK, TimeType, Call
  <1>2. ASSUME NEW p \in Procs
        PROVE  CallInv(p)
    <2>1. run[p] = Idle /\ clock = 0
      BY DEF Init, TimeInit
    <2> QED
      BY <2>1, IdleIsACall DEF CallInv, RunInv, Fresh, NoWorse, Refetches,
                               CameInTime, Done
  <1>3. FileInv /\ ShownInv
    BY DEF Init, FileInv, ShownInv
  <1> QED
    BY <1>1, <1>2, <1>3 DEF Inv

\* The types, for the steps of the proofs below.
LEMMA Types ==
    ASSUME TypeOK
    PROVE  /\ clock \in 0 .. MaxTime /\ clock \in Int /\ back \in {0, Jump}
           /\ back \in Nat /\ MaxTime \in Nat /\ Jump \in Nat /\ Timeout \in Nat
           /\ Interval \in Nat /\ Interval > 0
           /\ run \in [Procs -> Call]
           /\ \A p \in Procs : /\ run[p] \in Call /\ Ttl(p) \in Int
                               /\ run[p].began \in Int
           /\ \A a \in Answer : a # Nothing /\ a.at \in Int /\ a.came \in Int
           /\ \A f \in Stamped : /\ f # Nothing /\ f.answer \in Answer
                                 /\ f.stamp \in Int
  <1>1. /\ clock \in 0 .. MaxTime /\ back \in {0, Jump} /\ run \in [Procs -> Call]
    BY DEF TypeOK, TimeType, Call
  <1>2. /\ MaxTime \in Nat /\ Jump \in Nat /\ Timeout \in Nat /\ Interval \in Nat
        /\ Interval > 0
    BY MaxTimeAssumption, JumpAssumption, WaitsAssumption
  <1>3. ASSUME NEW p \in Procs
        PROVE  run[p] \in Call /\ Ttl(p) \in Int /\ run[p].began \in Int
    <2>1. run[p] \in Call
      BY <1>1
    <2> QED
      BY <1>2, <2>1, WaitsAssumption DEF Call, Ttl, BarTtl
  <1>4. \A a \in Answer : a # Nothing /\ a.at \in Int /\ a.came \in Int
    BY <1>2, NothingAssumption DEF Answer
  <1>5. \A f \in Stamped : f # Nothing /\ f.answer \in Answer /\ f.stamp \in Int
    BY <1>2, NothingAssumption DEF Stamped
  <1> QED
    BY <1>1, <1>2, <1>3, <1>4, <1>5

\* A step of one program that leaves time alone, the others' calls and, except
\* for its own call and its own line, everything but the file.
LEMMA StepOfOne ==
    ASSUME Inv, NEW p \in Procs, NEW r \in Call,
           run' = [run EXCEPT ![p] = r], TimeStays,
           \A q \in Bars \ {p} : shown'[q] = shown[q] /\ due'[q] = due[q],
           shown' \in [Bars -> Answer \cup {Nothing}],
           due' \in [Bars -> 0 .. MaxTime + Interval],
           file' \in Stamped \cup {Nothing},
           FileInv', CallInv(p)',
           p \in Bars /\ shown'[p] # Nothing =>
             CameInTime(shown'[p]) /\ shown'[p].came + Interval <= due'[p]
    PROVE  Inv'
  <1>1. clock' = clock /\ back' = back
    BY DEF TimeStays
  <1>2. /\ run \in [Procs -> Call] /\ Bars \subseteq Procs
    BY Types DEF Inv, Procs
  <1>3. TypeOK'
    <2>1. run' \in [Procs -> Call]
      BY <1>2
    <2> QED
      BY <1>1, <2>1 DEF Inv, TypeOK, TimeType, Call
  <1>4. ASSUME NEW q \in Procs
        PROVE  CallInv(q)'
    <2>1. CASE q = p
      BY <2>1
    <2>2. CASE q # p
      <3>1. run'[q] = run[q]
        BY <1>2, <2>2
      <3>2. q \in Bars => shown'[q] = shown[q] /\ due'[q] = due[q]
        BY <2>2
      <3>3. RunInv(q) => RunInv(q)'
        BY <1>1, <3>1, <3>2 DEF RunInv, CameInTime
      <3>4. Fresh(q) => Fresh(q)'
        BY <1>1, <3>1 DEF Fresh, Done, Own, Ttl, BarTtl
      <3>5. NoWorse(q) => NoWorse(q)'
        BY <1>1, <3>1 DEF NoWorse
      <3>6. Refetches(q) => Refetches(q)'
        BY <1>1, <3>1, <3>2 DEF Refetches, Done
      <3> QED
        BY <3>3, <3>4, <3>5, <3>6 DEF Inv, CallInv
    <2> QED
      BY <2>1, <2>2
  <1>5. ShownInv'
    <2>1. \A q \in Bars \ {p} : shown[q] # Nothing =>
            CameInTime(shown[q]) /\ shown[q].came + Interval <= due[q]
      BY DEF Inv, ShownInv
    <2> QED
      BY <1>1, <2>1 DEF ShownInv, CameInTime
  <1> QED
    BY <1>3, <1>4, <1>5 DEF Inv

\* weather_get begins: the cache is read, and used when it is young enough.
LEMMA BeginMaintainsInv ==
    ASSUME Inv, NEW p \in Procs, NEW force \in BOOLEAN, NEW tick \in BOOLEAN,
           Begin(p, force, tick), tick => p \in Bars /\ due[p] <= clock
    PROVE  Inv'
  <1> DEFINE call == [Idle EXCEPT !.force = force, !.tick = tick, !.began = clock,
                                  !.cached = file]
             r == IF Usable(p, force)
                  THEN [call EXCEPT !.pc = "done", !.answer = file.answer]
                  ELSE [call EXCEPT !.pc = "request"]
  <1>1. /\ clock \in 0 .. MaxTime /\ clock \in Int /\ back \in Nat
        /\ Timeout \in Nat /\ Interval \in Nat /\ Ttl(p) \in Int
        /\ \A a \in Answer : a # Nothing /\ a.at \in Int /\ a.came \in Int
        /\ \A f \in Stamped : f # Nothing /\ f.answer \in Answer /\ f.stamp \in Int
    BY Types DEF Inv
  <1>2. /\ file \in Stamped \cup {Nothing}
        /\ shown \in [Bars -> Answer \cup {Nothing}]
        /\ due \in [Bars -> 0 .. MaxTime + Interval]
        /\ FileInv /\ ShownInv
    BY DEF Inv, TypeOK
  <1>3. /\ run' = [run EXCEPT ![p] = r] /\ TimeStays /\ clock' = clock /\ back' = back
        /\ file' = file /\ shown' = shown /\ due' = due
    BY DEF Begin, TimeStays
  <1>4. /\ call \in Call /\ call.force = force /\ call.tick = tick
        /\ call.began = clock /\ call.cached = file /\ call.answer = Nothing
        /\ call.stale = FALSE
    BY <1>1, <1>2 DEF Idle, Call
  <1> HIDE DEF call
  <1>5. /\ r \in Call /\ r.force = force /\ r.tick = tick
        /\ r.began = clock /\ r.cached = file /\ r.stale = FALSE
        /\ Usable(p, force) => r.pc = "done" /\ r.answer = file.answer
        /\ ~Usable(p, force) => r.pc = "request" /\ r.answer = Nothing
    BY <1>1, <1>2, <1>4 DEF Usable, Call
  <1> HIDE DEF r
  <1>6. run'[p] = r
    BY <1>3, Types DEF Inv
  <1>7. RunInv(p)'
    <2>1. CameInTime(run[p].answer)'
      BY <1>2, <1>3, <1>5, <1>6 DEF FileInv, CameInTime, Usable
    <2>2. r.cached # Nothing =>
            CameInTime(file.answer) /\ file.answer.at <= clock /\ file.sound
      BY <1>1, <1>2, <1>5 DEF FileInv, CameInTime
    <2> QED
      BY <1>1, <1>3, <1>5, <1>6, <2>1, <2>2 DEF RunInv, CameInTime
  <1>8. Fresh(p)'
    <2>1. CASE ~Usable(p, force)
      BY <1>5, <1>6, <2>1 DEF Fresh, Done
    <2>2. CASE Usable(p, force)
      <3>1. /\ file \in Stamped /\ ~force /\ clock - back - file.stamp < Ttl(p)
            /\ file.stamp <= file.answer.came
            /\ file.answer.came <= file.answer.at + Timeout
        BY <1>1, <1>2, <2>2 DEF Usable, Wall, FileInv, CameInTime
      <3>2. clock - file.answer.at < Ttl(p) + Timeout + back
        BY <1>1, <3>1
      <3>3. Ttl(p)' = Ttl(p)
        BY DEF Ttl, BarTtl
      <3> QED
        BY <1>3, <1>5, <1>6, <2>2, <3>1, <3>2, <3>3 DEF Fresh
    <2> QED
      BY <2>1, <2>2
  <1>9. NoWorse(p)'
    <2>1. file # Nothing => file.answer # Nothing /\ file.answer.at \in Int /\ file.sound
      BY <1>1, <1>2 DEF FileInv
    <2> QED
      BY <1>5, <1>6, <2>1 DEF NoWorse, Usable
  \* The bar woke up an interval after the answer it shows had come, and the
  \* stamp in the file is the time its answer came.
  <1>10. Refetches(p)'
    <2>1. SUFFICES ASSUME p \in Bars, Usable(p, force), tick, back = 0,
                          file.answer = shown[p]
                   PROVE  FALSE
      BY <1>3, <1>5, <1>6 DEF Refetches, Done
    <2>2. /\ file \in Stamped /\ clock - file.stamp < BarTtl
          /\ file.stamp = file.answer.came
      BY <1>1, <1>2, <2>1 DEF Usable, Wall, Ttl, FileInv
    <2>3. shown[p].came + Interval <= due[p] /\ due[p] <= clock /\ due[p] \in Int
      BY <1>1, <1>2, <2>1, <2>2 DEF ShownInv
    <2>4. BarTtl < Interval /\ BarTtl \in Int
      BY WaitsAssumption DEF BarTtl
    <2> QED
      BY <1>1, <2>1, <2>2, <2>3, <2>4
  <1>11. FileInv' /\ CallInv(p)'
    BY <1>2, <1>3, <1>7, <1>8, <1>9, <1>10 DEF CallInv, FileInv, CameInTime
  <1>12. p \in Bars /\ shown'[p] # Nothing =>
           CameInTime(shown'[p]) /\ shown'[p].came + Interval <= due'[p]
    BY <1>2, <1>3 DEF ShownInv
  <1>13. /\ r \in Call /\ run' = [run EXCEPT ![p] = r] /\ TimeStays
         /\ \A q \in Bars \ {p} : shown'[q] = shown[q] /\ due'[q] = due[q]
         /\ shown' \in [Bars -> Answer \cup {Nothing}]
         /\ due' \in [Bars -> 0 .. MaxTime + Interval]
         /\ file' \in Stamped \cup {Nothing}
    BY <1>2, <1>3, <1>5
  <1> QED
    BY <1>11, <1>12, <1>13, StepOfOne

\* A call returns: with its answer or, when there is none, with what the cache
\* held when it began.
LEMMA ReturnMaintainsInv ==
    ASSUME Inv, NEW p \in Procs, NEW reply \in Reply,
           Answered(p, reply) \/ Unanswered(p, reply)
    PROVE  Inv'
  <1>1. /\ clock \in 0 .. MaxTime /\ clock \in Int /\ back \in Nat /\ back \in {0, Jump}
        /\ Timeout \in Nat /\ Interval \in Nat /\ Interval > 0 /\ Jump \in Nat
        /\ run[p] \in Call /\ run[p].began \in Int
        /\ \A a \in Answer : a # Nothing /\ a.at \in Int /\ a.came \in Int
        /\ \A f \in Stamped : f # Nothing /\ f.answer \in Answer /\ f.stamp \in Int
    BY Types DEF Inv
  <1>2. /\ file \in Stamped \cup {Nothing}
        /\ shown \in [Bars -> Answer \cup {Nothing}]
        /\ due \in [Bars -> 0 .. MaxTime + Interval]
        /\ FileInv /\ ShownInv /\ RunInv(p)
    BY DEF Inv, TypeOK, CallInv
  <1>3. /\ run[p].pc = "request" /\ TimeStays /\ clock' = clock /\ back' = back
        /\ shown' = shown /\ due' = due
    BY DEF Answered, Unanswered, TimeStays
  <1>4. p \in Bars /\ shown'[p] # Nothing =>
           CameInTime(shown'[p]) /\ shown'[p].came + Interval <= due'[p]
    BY <1>2, <1>3 DEF ShownInv
  <1>5. ASSUME NEW answer \in Answer \cup {Nothing}, NEW stale \in BOOLEAN,
               Returns(p, answer, stale), CameInTime(answer), FileInv',
               file' \in Stamped \cup {Nothing},
               run[p].cached # Nothing =>
                 answer # Nothing /\ answer.at >= run[p].cached.answer.at,
               \/ answer = Nothing \/ stale
               \/ answer = [by |-> p, at |-> run[p].began, came |-> clock]
        PROVE  Inv'
    <2> DEFINE r == [run[p] EXCEPT !.pc = "done", !.answer = answer, !.stale = stale]
    <2>1. run' = [run EXCEPT ![p] = r]
      BY <1>5 DEF Returns
    <2>2. /\ r \in Call /\ r.pc = "done" /\ r.answer = answer /\ r.stale = stale
          /\ r.force = run[p].force /\ r.tick = run[p].tick
          /\ r.began = run[p].began /\ r.cached = run[p].cached
      BY <1>1, <1>5 DEF Call
    <2> HIDE DEF r
    <2>3. run'[p] = r
      BY <2>1, Types DEF Inv
    <2>4. RunInv(p)'
      BY <1>2, <1>3, <1>5, <2>2, <2>3 DEF RunInv, CameInTime
    <2>5. Fresh(p)'
      BY <1>3, <1>5, <2>2, <2>3 DEF Fresh, Done, Own
    <2>6. NoWorse(p)'
      BY <1>2, <1>5, <2>2, <2>3 DEF NoWorse, RunInv
    <2>7. Refetches(p)'
      <3>1. SUFFICES ASSUME p \in Bars, run[p].tick, answer # Nothing, ~stale,
                            answer = shown[p]
                     PROVE  FALSE
        BY <1>3, <2>2, <2>3 DEF Refetches, Done
      <3>2. answer.came = clock
        BY <1>5, <3>1
      <3>3. shown[p].came + Interval <= due[p] /\ due[p] <= run[p].began
        BY <1>2, <3>1 DEF ShownInv, RunInv
      <3>4. run[p].began <= clock /\ due[p] \in Int
        BY <1>2, <3>1 DEF RunInv
      <3> QED
        BY <1>1, <3>1, <3>2, <3>3, <3>4
    <2>8. CallInv(p)'
      BY <2>4, <2>5, <2>6, <2>7 DEF CallInv
    <2>9. /\ \A q \in Bars \ {p} : shown'[q] = shown[q] /\ due'[q] = due[q]
          /\ shown' \in [Bars -> Answer \cup {Nothing}]
          /\ due' \in [Bars -> 0 .. MaxTime + Interval]
      BY <1>2, <1>3
    <2> QED
      BY <1>3, <1>4, <1>5, <2>1, <2>2, <2>8, <2>9, StepOfOne
  <1>6. CASE Answered(p, reply)
    <2> DEFINE answer == [by |-> p, at |-> run[p].began, came |-> clock]
    <2>1. PICK writes \in BOOLEAN :
            /\ Returns(p, answer, FALSE) /\ Parsed(reply)
            /\ file' = IF Stored(reply) /\ writes
                       THEN [answer |-> answer, sound |-> reply = "weather", stamp |-> Wall]
                       ELSE file
      BY <1>6 DEF Answered
    <2>2. /\ answer \in Answer /\ answer.at = run[p].began /\ answer.came = clock
      BY <1>1 DEF Answer, Call
    <2>3. CameInTime(answer)
      BY <1>1, <1>2, <1>3, <2>2 DEF CameInTime, RunInv
    <2>4. run[p].cached # Nothing =>
            answer # Nothing /\ answer.at >= run[p].cached.answer.at
      <3>1. run[p].cached # Nothing =>
              run[p].cached.answer.at \in Int /\ run[p].cached.answer.at <= run[p].began
        BY <1>1, <1>2 DEF RunInv, Call
      <3> QED
        BY <1>1, <2>2, <3>1
    <2>5. file' \in Stamped \cup {Nothing} /\ FileInv'
      <3>1. CASE Stored(reply) /\ writes
        <4>1. file' = [answer |-> answer, sound |-> TRUE, stamp |-> clock - back]
          BY <2>1, <3>1 DEF Stored, Wall
        <4>2. clock - back \in -Jump .. MaxTime
          BY <1>1, MaxTimeAssumption
        <4>3. file' \in Stamped /\ file'.answer = answer /\ file'.sound
              /\ file'.stamp = clock - back
          BY <2>2, <4>1, <4>2 DEF Stamped
        <4> HIDE DEF answer
        <4> QED
          BY <1>1, <1>3, <2>2, <2>3, <4>3 DEF FileInv, CameInTime
      <3>2. CASE ~(Stored(reply) /\ writes)
        BY <1>2, <1>3, <2>1, <3>2 DEF FileInv, CameInTime
      <3> QED
        BY <3>1, <3>2
    <2> QED
      BY <1>5, <2>1, <2>2, <2>3, <2>4, <2>5
  <1>7. CASE Unanswered(p, reply)
    <2> DEFINE answer == Fallback(run[p].cached)
               stale == answer # Nothing
    <2>1. Returns(p, answer, stale) /\ file' = file
      BY <1>7 DEF Unanswered
    <2>2. /\ answer \in Answer \cup {Nothing}
          /\ run[p].cached # Nothing => answer = run[p].cached.answer /\ answer \in Answer
          /\ run[p].cached = Nothing => answer = Nothing
      BY <1>1 DEF Fallback, Call
    <2>3. stale \in BOOLEAN /\ (answer = Nothing \/ stale)
      OBVIOUS
    <2> HIDE DEF answer
    <2>4. CameInTime(answer)
      BY <1>2, <2>2 DEF RunInv, CameInTime
    <2>5. run[p].cached # Nothing =>
            answer # Nothing /\ answer.at >= run[p].cached.answer.at
      BY <1>1, <2>2
    <2>6. FileInv'
      BY <1>2, <1>3, <2>1 DEF FileInv, CameInTime
    <2> QED
      BY <1>2, <1>5, <2>1, <2>2, <2>3, <2>4, <2>5, <2>6
  <1> QED
    BY <1>6, <1>7

\* The line is printed, and a bar goes to sleep.
LEMMA FinishMaintainsInv ==
    ASSUME Inv, NEW p \in Procs, Finish(p)
    PROVE  Inv'
  <1>1. /\ clock \in 0 .. MaxTime /\ clock \in Int /\ Interval \in Nat
        /\ MaxTime \in Nat /\ run \in [Procs -> Call] /\ run[p] \in Call
        /\ \A a \in Answer : a # Nothing /\ a.at \in Int /\ a.came \in Int
    BY Types DEF Inv
  <1>2. /\ file \in Stamped \cup {Nothing}
        /\ shown \in [Bars -> Answer \cup {Nothing}]
        /\ due \in [Bars -> 0 .. MaxTime + Interval]
        /\ FileInv /\ ShownInv /\ CameInTime(run[p].answer)
    BY DEF Inv, TypeOK, CallInv, RunInv
  <1>3. /\ run' = [run EXCEPT ![p] = Idle] /\ TimeStays
        /\ clock' = clock /\ back' = back /\ file' = file
    BY DEF Finish, TimeStays
  <1>4. run'[p] = Idle
    BY <1>1, <1>3
  <1>5. CallInv(p)'
    BY <1>1, <1>3, <1>4, IdleIsACall
       DEF CallInv, RunInv, Fresh, NoWorse, Refetches, Done, CameInTime
  <1>6. FileInv' /\ file' \in Stamped \cup {Nothing}
    BY <1>2, <1>3 DEF FileInv, CameInTime
  <1>7. /\ \A q \in Bars \ {p} : shown'[q] = shown[q] /\ due'[q] = due[q]
        /\ shown' \in [Bars -> Answer \cup {Nothing}]
        /\ due' \in [Bars -> 0 .. MaxTime + Interval]
        /\ p \in Bars /\ shown'[p] # Nothing =>
             CameInTime(shown'[p]) /\ shown'[p].came + Interval <= due'[p]
    <2>1. CASE p \in Commands
      <3>1. p \notin Bars /\ shown' = shown /\ due' = due
        BY <2>1, ProcsAssumption DEF Finish
      <3> QED
        BY <1>2, <3>1
    <2>2. CASE p \notin Commands
      <3>1. PICK answer : answer = IF run[p].stale THEN Nothing ELSE run[p].answer
        OBVIOUS
      <3>2. PICK wait : wait = IF run[p].stale \/ run[p].answer = Nothing
                               THEN Retry ELSE Interval
        OBVIOUS
      <3>3. /\ shown' = [shown EXCEPT ![p] = answer]
            /\ due' = [due EXCEPT ![p] = clock + wait]
        BY <2>2, <3>1, <3>2 DEF Finish
      <3>4. answer \in Answer \cup {Nothing} /\ clock + wait \in 0 .. MaxTime + Interval
        BY <1>1, <3>1, <3>2, WaitsAssumption DEF Call
      <3>5. answer # Nothing =>
              answer = run[p].answer /\ answer \in Answer /\ wait = Interval
        BY <3>1, <3>2, <3>4
      <3>6. answer # Nothing => answer.came <= clock /\ answer.came + Interval <= clock + wait
        BY <1>1, <1>2, <3>5 DEF CameInTime
      <3> QED
        BY <1>2, <1>3, <3>3, <3>4, <3>5, <3>6 DEF CameInTime
    <2> QED
      BY <2>1, <2>2
  <1> QED
    BY <1>3, <1>5, <1>6, <1>7, IdleIsACall, StepOfOne

\* Time passes, but no request takes longer than its timeout.
LEMMA TimeMaintainsInv ==
    ASSUME Inv, TimePasses
    PROVE  Inv'
  <1>1. /\ clock \in Int /\ \A p \in Procs : run[p].began \in Int
        /\ Timeout \in Nat /\ MaxTime \in Nat
        /\ \A a \in Answer : a.came \in Int
    BY Types DEF Inv
  <1>2. /\ clock' = clock + 1 /\ clock < MaxTime /\ back' = back /\ file' = file
        /\ run' = run /\ shown' = shown /\ due' = due
        /\ \A p \in Procs : run[p].pc = "request" => clock < run[p].began + Timeout
    BY DEF TimePasses, Tick
  <1>3. /\ file \in Stamped \cup {Nothing} /\ run \in [Procs -> Call]
        /\ shown \in [Bars -> Answer \cup {Nothing}]
    BY Types DEF Inv, TypeOK
  <1>4. \A a \in Answer \cup {Nothing} : CameInTime(a) => CameInTime(a)'
    BY <1>1, <1>2 DEF CameInTime
  <1>5. TypeOK'
    BY <1>1, <1>2 DEF Inv, TypeOK, TimeType
  <1>6. FileInv'
    <2>1. file # Nothing => file.answer \in Answer
      BY <1>3 DEF Stamped
    <2> QED
      BY <1>2, <1>4, <2>1 DEF Inv, FileInv
  <1>7. ShownInv'
    BY <1>2, <1>3, <1>4 DEF Inv, ShownInv
  <1>8. ASSUME NEW p \in Procs
        PROVE  CallInv(p)'
    <2>1. /\ run[p].answer \in Answer \cup {Nothing}
          /\ run[p].cached # Nothing => run[p].cached.answer \in Answer
      BY <1>3 DEF Call, Stamped
    <2>2. RunInv(p)
      BY DEF Inv, CallInv
    <2>3. run[p].began <= clock'
      BY <1>1, <1>2, <2>2 DEF RunInv
    <2>4. run[p].pc = "request" => clock' <= run[p].began + Timeout
      BY <1>1, <1>2
    <2>5. RunInv(p)'
      BY <1>2, <1>4, <2>1, <2>2, <2>3, <2>4 DEF RunInv
    <2>6. Fresh(p)' /\ NoWorse(p)' /\ Refetches(p)'
      BY <1>2 DEF Inv, CallInv, Fresh, NoWorse, Refetches, Done, Own, Ttl, BarTtl
    <2> QED
      BY <2>5, <2>6 DEF CallInv
  <1> QED
    BY <1>5, <1>6, <1>7, <1>8 DEF Inv

\* The wall clock is set back: every age grows by as much.
LEMMA SetBackMaintainsInv ==
    ASSUME Inv, ClockIsSetBack
    PROVE  Inv'
  <1>1. /\ Timeout \in Nat /\ Jump \in Nat /\ clock' = clock
        /\ back = 0 /\ back' = Jump /\ back' \in Nat
        /\ file' = file /\ run' = run /\ shown' = shown /\ due' = due
    BY Types DEF Inv, ClockIsSetBack, SetBack
  <1>2. TypeOK'
    BY <1>1 DEF Inv, TypeOK, TimeType
  <1>3. FileInv' /\ ShownInv'
    BY <1>1 DEF Inv, FileInv, ShownInv, CameInTime
  <1>4. ASSUME NEW p \in Procs
        PROVE  CallInv(p)'
    <2>1. RunInv(p)' /\ NoWorse(p)' /\ Refetches(p)'
      BY <1>1 DEF Inv, CallInv, RunInv, CameInTime, NoWorse, Refetches, Done
    <2>2. Fresh(p)'
      <3>1. /\ Ttl(p)' = Ttl(p) /\ Ttl(p) \in Int /\ run[p] \in Call
            /\ Done(p) => run[p].answer.at \in Int
            /\ run[p].began \in Int
        BY Types DEF Inv, Ttl, BarTtl, Done, Call
      <3> QED
        BY <1>1, <3>1 DEF Inv, CallInv, Fresh, Done, Own
    <2> QED
      BY <2>1, <2>2 DEF CallInv
  <1> QED
    BY <1>2, <1>3, <1>4 DEF Inv

\* Every step keeps the invariant.
LEMMA NextMaintainsInv ==
    ASSUME Inv, [Next]_vars
    PROVE  Inv'
  <1>1. ASSUME NEW p \in Procs, CommandFetches(p) \/ BarIsWoken(p)
        PROVE  Inv'
    <2>1. PICK force \in BOOLEAN : Begin(p, force, FALSE)
      BY <1>1 DEF CommandFetches, BarIsWoken
    <2> QED
      BY <2>1, BeginMaintainsInv
  <1>2. ASSUME NEW p \in Procs, BarTicks(p)
        PROVE  Inv'
    <2>1. p \in Bars /\ due[p] \in Int /\ clock \in Int /\ due[p] <= clock
      BY <1>2, Types DEF BarTicks, Inv, TypeOK
    <2>2. Begin(p, FALSE, TRUE)
      BY <1>2 DEF BarTicks
    <2> QED
      BY <2>1, <2>2, BeginMaintainsInv
  <1>3. CASE UNCHANGED vars
    BY <1>3 DEF vars, Inv, TypeOK, TimeType, FileInv, ShownInv, CallInv, RunInv, Fresh,
                NoWorse, Refetches, CameInTime, Done, Own, Ttl, BarTtl
  <1> QED
    BY <1>1, <1>2, <1>3, ReturnMaintainsInv, FinishMaintainsInv, TimeMaintainsInv,
       SetBackMaintainsInv DEF Next, Step

\* The inductive invariant holds in every reachable state.
LEMMA InvIsInvariant == Spec => []Inv
  BY InitEstablishesInv, NextMaintainsInv, PTL DEF Spec

----------------------------------------------------------------------------
(* The theorems                                                            *)

\* Type correctness.
THEOREM TypeCorrect == Spec => []TypeOK
  BY InvIsInvariant, PTL DEF Inv

\* An answer not marked stale is the call's own, or was not forced and is
\* younger than the ttl, the time of a request and what the clock lost.
THEOREM UnmarkedAnswersAreYoung == Spec => []FreshIsYoung
  <1>1. Inv => FreshIsYoung
    BY DEF Inv, CallInv, Fresh, FreshIsYoung
  <1> QED
    BY <1>1, InvIsInvariant, PTL

\* A call that found an answer in the cache returns one, and none older.
THEOREM CallsImproveOnTheCache == Spec => []NoWorseThanCache
  <1>1. Inv => NoWorseThanCache
    BY DEF Inv, CallInv, NoWorse, NoWorseThanCache
  <1> QED
    BY <1>1, InvIsInvariant, PTL

\* A tick of a bar does not show the answer of its last tick as fresh again,
\* whatever the timeout, and although other programs write the cache.
THEOREM TicksRefetch == Spec => []TickRefetches
  <1>1. Inv => TickRefetches
    BY DEF Inv, CallInv, Refetches, TickRefetches, Procs
  <1> QED
    BY <1>1, InvIsInvariant, PTL
=============================================================================
