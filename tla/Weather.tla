------------------------------ MODULE Weather ------------------------------
(***************************************************************************)
(* weather_get (weather.c) as the programs of one user run it side by      *)
(* side: bars (the daemon) that refresh at an interval, and commands (get, *)
(* print, and the TUI's worker) that fetch once.  They share one cache     *)
(* file per place and units; files of other places never meet, so there is *)
(* one here.  It is replaced atomically (ConfigSharing takes               *)
(* write_file_atomic apart).                                               *)
(*                                                                         *)
(* Whether the numbers of a payload make sense is for the service to say;  *)
(* what matters is that it parses, and which request it answers.           *)
(***************************************************************************)
EXTENDS WallClock

CONSTANTS
    Bars, Commands,
    Interval,   \* the bars' refresh interval
    Margin,     \* what the daemon takes off it
    CacheTtl,   \* cache_ttl of the configuration
    Retry,      \* a bar's wait after a failure
    Timeout,    \* HTTP_TIMEOUT: a request ends within this time
    Nothing     \* no answer

Procs == Bars \cup Commands

ASSUME ProcsAssumption == Bars \cap Commands = {}
ASSUME WaitsAssumption == /\ Retry \in 1 .. Interval
                          /\ CacheTtl \in Nat /\ Timeout \in Nat
                          /\ Interval \in Nat /\ Margin \in 1 .. Interval

VARIABLES
    file,   \* the cache file: an answer and the wall time it is stamped with
    run,    \* what each program is doing
    shown,  \* the answer each bar shows as fresh
    due     \* when each bar wakes up by itself

vars == <<clock, back, file, run, shown, due>>

\* An answer is named by the request it answers and the time it came.
Answer == [by : Procs, at : 0 .. MaxTime, came : 0 .. MaxTime]

\* sound: it came without an HTTP error.
Stamped == [answer : Answer, sound : BOOLEAN, stamp : -Jump .. MaxTime]

ASSUME NothingAssumption == Nothing \notin Answer \cup Stamped

Idle == [pc |-> "idle", force |-> FALSE, tick |-> FALSE, began |-> 0,
         cached |-> Nothing, answer |-> Nothing, stale |-> FALSE]

Init == /\ TimeInit
        /\ file = Nothing
        /\ run = [p \in Procs |-> Idle]
        /\ shown = [p \in Bars |-> Nothing]
        /\ due = [p \in Bars |-> 0]

----------------------------------------------------------------------------
(* The ttl of each caller                                                  *)

\* Mutant of BarTtl: cache_ttl as in the commands.
BarTtlOfConfig == CacheTtl

\* "A refresh tick must refetch; several bars share the cache though."
BarTtl == IF Interval - Margin < CacheTtl THEN Interval - Margin ELSE CacheTtl

Ttl(p) == IF p \in Bars THEN BarTtl ELSE CacheTtl

----------------------------------------------------------------------------
(* weather_get                                                             *)

\* Mutant of Usable: the cached answer is used at any age.
UsableAlways(p, force) == file # Nothing /\ ~force

\* A cached answer may be used when it is younger than ttl, by the wall clock.
Usable(p, force) ==
    /\ file # Nothing /\ ~force
    /\ Ttl(p) > 0 /\ Wall - file.stamp < Ttl(p)

\* The cache is read, and used or kept for later.
Begin(p, force, tick) ==
    LET call == [Idle EXCEPT !.force = force, !.tick = tick, !.began = clock,
                             !.cached = file]
    IN /\ run[p].pc = "idle"
       /\ run' = [run EXCEPT ![p] =
            IF Usable(p, force)
            THEN [call EXCEPT !.pc = "done", !.answer = file.answer]
            ELSE [call EXCEPT !.pc = "request"]]
       /\ TimeStays /\ UNCHANGED <<file, shown, due>>

Returns(p, answer, stale) ==
    run' = [run EXCEPT ![p].pc = "done", ![p].answer = answer, ![p].stale = stale]

\* What comes of a request: nothing, or a body that is no answer ("error"), one
\* that came with an HTTP error but reads like an answer ("unsound"), or one
\* that came without ("weather").
Reply == {"nothing", "error", "unsound", "weather"}

\* parse_payload: it reports no error, and has the current weather with a
\* temperature; everything else may be missing.
Parsed(reply) == reply \in {"unsound", "weather"}

\* Mutant of Stored: an answer with an HTTP error is cached as well.
StoredUnsound(reply) == Parsed(reply)

Stored(reply) == reply = "weather"

\* The payload parses.  It is returned even with an HTTP error, and is stamped
\* when it is stored, unless writing fails.
Answered(p, reply) ==
    \E writes \in BOOLEAN :
      LET answer == [by |-> p, at |-> run[p].began, came |-> clock] IN
      /\ run[p].pc = "request" /\ Parsed(reply)
      /\ Returns(p, answer, FALSE)
      /\ file' = IF Stored(reply) /\ writes
                 THEN [answer |-> answer, sound |-> reply = "weather", stamp |-> Wall]
                 ELSE file
      /\ TimeStays /\ UNCHANGED <<shown, due>>

\* Mutant of Fallback: the cache file with its stamp instead of the answer in it.
FallbackStamped(cached) == cached

\* What a failed request falls back to: the answer read at the beginning.
Fallback(cached) == IF cached = Nothing THEN Nothing ELSE cached.answer

\* There is none, or it does not parse.
Unanswered(p, reply) ==
    /\ run[p].pc = "request" /\ ~Parsed(reply)
    /\ Returns(p, Fallback(run[p].cached), Fallback(run[p].cached) # Nothing)
    /\ TimeStays /\ UNCHANGED <<file, shown, due>>

----------------------------------------------------------------------------
(* The programs                                                            *)

\* A command, or the TUI's worker, fetches; with force when the user says so.
CommandFetches(p) == p \in Commands /\ \E force \in BOOLEAN :
                         Begin(p, force, FALSE)

\* The bar's interval has elapsed.
BarTicks(p) == p \in Bars /\ clock >= due[p] /\ Begin(p, FALSE, TRUE)

\* A signal or a change of the configuration renders before that.
BarIsWoken(p) == p \in Bars /\ \E force \in BOOLEAN :
                     Begin(p, force, FALSE)

\* The line is printed; a bar waits for the interval, or to try again.
Finish(p) ==
    /\ run[p].pc = "done"
    /\ run' = [run EXCEPT ![p] = Idle]
    /\ IF p \in Commands THEN UNCHANGED <<shown, due>>
       ELSE /\ shown' = [shown EXCEPT ![p] =
                 IF run[p].stale THEN Nothing ELSE run[p].answer]
            /\ due' = [due EXCEPT ![p] = clock +
                 IF run[p].stale \/ run[p].answer = Nothing
                 THEN Retry ELSE Interval]
    /\ TimeStays /\ UNCHANGED file

TimePasses ==
    /\ \A p \in Procs : run[p].pc = "request" => clock < run[p].began + Timeout
    /\ Tick
    /\ UNCHANGED <<file, run, shown, due>>

ClockIsSetBack == SetBack /\ UNCHANGED <<file, run, shown, due>>

Step(p) == \/ CommandFetches(p) \/ BarTicks(p) \/ BarIsWoken(p)
           \/ \E reply \in Reply : Answered(p, reply) \/ Unanswered(p, reply)
           \/ Finish(p)

Next == (\E p \in Procs : Step(p)) \/ TimePasses \/ ClockIsSetBack

Spec == Init /\ [][Next]_vars

----------------------------------------------------------------------------
(* Properties                                                              *)

\* Every variable keeps its type.
TypeOK ==
    /\ TimeType
    /\ file \in Stamped \cup {Nothing}
    /\ run \in [Procs -> [pc : {"idle", "request", "done"}, force : BOOLEAN,
                          tick : BOOLEAN, began : 0 .. MaxTime,
                          cached : Stamped \cup {Nothing},
                          answer : Answer \cup {Nothing}, stale : BOOLEAN]]
    /\ shown \in [Bars -> Answer \cup {Nothing}]
    /\ due \in [Bars -> 0 .. MaxTime + Interval]

Done(p) == run[p].pc = "done" /\ run[p].answer # Nothing

Own(p) == run[p].answer.by = p /\ run[p].answer.at = run[p].began

\* An answer that is not marked stale was requested by this very call, or the
\* caller did not force and it was requested less than ttl before the call
\* began, plus the time one request may take (the stamp is set after it) and
\* plus what the wall clock was set back ("using the on-disk cache when younger
\* than ttl.  With force the cache is bypassed", weather.h:63).
FreshIsYoung ==
    \A p \in Procs : Done(p) /\ ~run[p].stale =>
      \/ Own(p)
      \/ /\ ~run[p].force
         /\ run[p].began - run[p].answer.at < Ttl(p) + Timeout + back

\* Whatever the service answers and whoever else writes the file meanwhile, a
\* call that found an answer in the cache returns one, and none older; what
\* it found had come without an HTTP error (weather_get's fallback).
NoWorseThanCache ==
    \A p \in Procs : run[p].pc = "done" /\ run[p].cached # Nothing =>
      /\ run[p].answer # Nothing
      /\ run[p].answer.at >= run[p].cached.answer.at
      /\ run[p].cached.sound

\* When its interval has elapsed, a bar does not show the answer it has shown
\* as fresh since the last time as if it were fresh still, unless the clock was
\* set back ("A refresh tick must refetch; several bars share the cache
\* though", daemon.c:177).  An answer marked stale may come back unmarked: the
\* retry after a forced request that failed reads the cache again.
TickRefetches ==
    \A p \in Bars :
      Done(p) /\ run[p].tick /\ ~run[p].stale /\ back = 0 =>
        run[p].answer # shown[p]
=============================================================================
