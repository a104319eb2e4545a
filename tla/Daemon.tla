------------------------------- MODULE Daemon -------------------------------
(***************************************************************************)
(* The Waybar daemon of daemon.c: it renders a line, waits for its timer,  *)
(* a signal or a change of the config file, and renders again.             *)
(*                                                                         *)
(* A config is the number of the save that wrote it, a rendered line is    *)
(* the config it was rendered from and what the fetch came to.  Signals    *)
(* and inotify events of one kind coalesce, as the kernel's do and as      *)
(* inotify_config_changed reads them.                                      *)
(***************************************************************************)
EXTENDS Integers

CONSTANTS
    MaxSaves,      \* bound on the versions of the config file
    FailureBound,  \* bound on failures counted; beyond it WaitAfter is constant
    Interval,      \* seconds between refreshes
    RetryMin       \* RETRY_MIN

ASSUME BoundsAssumption == MaxSaves \in Nat \ {0}
ASSUME RetryAssumption == /\ FailureBound \in Nat \ {0}
                          /\ Interval \in Nat \ {0} /\ RetryMin \in Nat \ {0}

Signals == {"USR1", "USR2", "HUP", "TERM"}

\* A fetch gives a fresh answer, or fails and leaves a stale one or an error.
Outcomes == {"fresh", "failed"}

VARIABLES
    saved,     \* the version on disk, and whether it parses
    tmp,       \* a program has written its temporary file
    events,    \* inotify events not yet read: "config", "other"
    locked,    \* another program holds the lock of the config file
    signals,   \* signals pending in the signalfd
    owed,      \* the version on disk, if the daemon has had notice of it, or 0
    pc,
    watching,  \* inotify works (ifd >= 0)
    have,      \* have_cfg
    cfg,       \* the version loaded, 0 for the defaults
    force, reload, wake, changed,
    polled,    \* this wait has polled at least once
    ready,     \* what the poll reported whose events are being handled
    failures, wait,
    last,      \* the last line rendered from a config and emitted
    line,      \* the line just rendered
    bar        \* what Waybar shows

disk == <<saved, tmp, events, owed>>
inputs == <<signals, locked>>
flags == <<force, reload, wake, changed>>
render == <<failures, wait, last, line, bar>>
vars == <<disk, inputs, pc, watching, have, cfg, flags, polled, ready, render>>

NoLine == <<0, "nothing">>
Lines == {NoLine, <<0, "invalid">>} \cup ((0 .. MaxSaves) \X Outcomes)

Init == /\ saved \in [version : {1}, valid : BOOLEAN]
        /\ tmp = FALSE /\ events = {} /\ signals = {} /\ locked = FALSE
        /\ owed = 0
        /\ pc = "load"
        /\ watching = FALSE /\ have = FALSE /\ cfg = 0
        /\ force = FALSE /\ reload = FALSE /\ wake = FALSE /\ changed = FALSE
        /\ polled = FALSE
        /\ ready = {}
        /\ failures = 0 /\ wait = Interval
        /\ last = NoLine /\ line = NoLine /\ bar = NoLine

\* A program saves the whole file: a new version that parses.
NewVersion == /\ saved.version < MaxSaves
              /\ saved' = [version |-> saved.version + 1, valid |-> TRUE]

Reported(names) == events' = IF watching THEN events \cup names ELSE events

----------------------------------------------------------------------------
(* Startup                                                                 *)

LoadAtStart ==
    /\ pc = "load"
    /\ have' = saved.valid
    /\ cfg' = IF saved.valid THEN saved.version ELSE 0
    /\ pc' = "watch"
    /\ UNCHANGED <<disk, inputs, watching, flags, polled, ready, render>>

\* inotify_setup, which may fail.
SetUpWatch ==
    /\ pc = "watch"
    /\ watching' \in BOOLEAN
    /\ pc' = "render"
    /\ UNCHANGED <<disk, inputs, have, cfg, flags, polled, ready, render>>

----------------------------------------------------------------------------
(* One round of the main loop                                              *)

\* Mutant of WaitAfter: the retry is not limited to the interval.
WaitUnlimited(n) ==
    IF n = 0 THEN Interval ELSE RetryMin * 2 ^ (IF n > 5 THEN 5 ELSE n - 1)

\* Retry sooner while offline: 30 s, 60 s, 120 s, ... up to the interval.
WaitAfter(n) ==
    LET retry == RetryMin * 2 ^ (IF n > 5 THEN 5 ELSE n - 1)
    IN IF n > 0 /\ retry < Interval THEN retry ELSE Interval

CountFailure(outcome) ==
    IF outcome = "fresh" THEN 0
    ELSE IF failures < FailureBound THEN failures + 1 ELSE failures

StartWaiting == /\ force' = FALSE
                /\ reload' = FALSE
                /\ wake' = FALSE
                /\ polled' = FALSE
                /\ pc' = "wait"
                /\ UNCHANGED <<disk, inputs, watching, have, cfg, changed, ready>>

RenderInvalid ==
    /\ pc = "render"
    /\ ~have
    /\ line' = <<0, "invalid">>
    /\ bar' = line'
    /\ wait' = Interval
    /\ StartWaiting
    /\ UNCHANGED <<failures, last>>

\* Mutant of Emit: the last line emitted is not remembered a second time.
EmitFirst(new) == IF last # new
                  THEN bar' = new /\ last' = IF last = NoLine THEN new ELSE last
                  ELSE UNCHANGED <<bar, last>>

\* A line is printed only if it differs from the last one.
Emit(new) == IF last # new THEN bar' = new /\ last' = new
             ELSE UNCHANGED <<bar, last>>

Render(outcome) ==
    /\ pc = "render"
    /\ have
    /\ failures' = CountFailure(outcome)
    /\ wait' = WaitAfter(failures')
    /\ line' = <<cfg, outcome>>
    /\ Emit(line')
    /\ StartWaiting

\* Waybar closed the pipe.
EmitFails ==
    /\ pc = "render"
    /\ pc' = "out"
    /\ UNCHANGED <<disk, inputs, watching, have, cfg, flags, polled, ready, render>>

----------------------------------------------------------------------------
(* The wait                                                                *)

\* Mutant of Resume: the force flag does not survive the wait.
ResumeUnforced ==
    /\ force' = FALSE
    /\ ready' = {} /\ changed' = FALSE /\ polled' = ~wake'
    /\ pc' = IF ~wake' THEN "wait" ELSE IF reload' THEN "reload" ELSE "render"

\* Events have been handled: wait on, or start the next round.
Resume ==
    /\ pc' = IF ~wake' THEN "wait" ELSE IF reload' THEN "reload" ELSE "render"
    /\ ready' = {} /\ changed' = FALSE /\ polled' = ~wake'
    /\ UNCHANGED force

\* Mutant of Timeout: the deadline may have passed before the first poll.
TimeoutAtOnce ==
    /\ pc = "wait"
    /\ pc' = "render"
    /\ polled' = FALSE
    /\ UNCHANGED <<disk, inputs, watching, have, cfg, flags, ready, render>>

\* The deadline is checked before every poll but lies ahead of the first one.
Timeout ==
    /\ pc = "wait"
    /\ polled \/ (signals = {} /\ (events = {} \/ ~watching))
    /\ pc' = "render"
    /\ polled' = FALSE
    /\ UNCHANGED <<disk, inputs, watching, have, cfg, flags, ready, render>>

Poll ==
    /\ pc = "wait"
    /\ signals # {} \/ (watching /\ events # {})
    /\ polled' = TRUE
    /\ ready' = (IF signals # {} THEN {"signal"} ELSE {})
                \cup (IF watching /\ events # {} THEN {"inotify"} ELSE {})
    /\ pc' = "signals"
    /\ UNCHANGED <<disk, inputs, watching, have, cfg, flags, render>>

Takes(sig) == /\ pc = "signals"
              /\ "signal" \in ready
              /\ sig \in signals
              /\ signals' = signals \ {sig}
              /\ UNCHANGED <<locked, watching, have, cfg, changed, polled,
                             ready, render>>

RefreshRequested == /\ Takes("USR1")
                    /\ force' = TRUE /\ wake' = TRUE
                    /\ UNCHANGED <<disk, pc, reload>>

\* cycle_next begins with config_lock, which waits for as long as another
\* program holds the lock; the signals that arrive meanwhile stay pending.
CycleRequested == /\ Takes("USR2")
                  /\ pc' = "lock"
                  /\ UNCHANGED <<disk, force, reload, wake>>

\* The file is saved and inotify reports it, unless it does not parse or there
\* is nothing to cycle through.
Cycled ==
    /\ pc = "lock"
    /\ \/ /\ saved.valid /\ NewVersion
          /\ Reported({"config", "other"})
          /\ owed' = saved'.version
          /\ UNCHANGED tmp
       \/ UNCHANGED disk
    /\ reload' = (reload \/ ~watching)
    /\ wake' = (wake \/ ~watching)
    /\ pc' = "signals"
    /\ UNCHANGED <<inputs, watching, have, cfg, force, changed, polled, ready, render>>

CycleNext == ~locked /\ Cycled

\* The lock file cannot be opened: cycle_next goes on without the lock.
CycleUnlocked == locked /\ Cycled

ReloadRequested == /\ Takes("HUP")
                   /\ reload' = TRUE /\ wake' = TRUE
                   /\ UNCHANGED <<disk, pc, force>>

Terminated == /\ Takes("TERM")
              /\ pc' = "out"
              /\ UNCHANGED <<disk, force, reload, wake>>

\* No signal left: the events the same poll reported are read, if any.
Drain ==
    /\ pc = "signals"
    /\ "signal" \in ready => signals = {}
    /\ "inotify" \in ready
    /\ changed' = ("config" \in events)
    /\ events' = {}
    /\ pc' = "debounce"
    /\ UNCHANGED <<saved, tmp, owed, inputs, watching, have, cfg, force, reload,
                   wake, polled, ready, render>>

NothingToDrain ==
    /\ pc = "signals"
    /\ signals = {}
    /\ "inotify" \notin ready
    /\ UNCHANGED <<disk, inputs, watching, have, cfg, reload, wake, render>>
    /\ Resume

\* Mutant of DrainMore: the events read first are forgotten.
DrainAgain ==
    /\ pc = "debounce"
    /\ events # {}
    /\ changed' = ("config" \in events)
    /\ events' = {}
    /\ UNCHANGED <<saved, tmp, owed, inputs, pc, watching, have, cfg, force,
                   reload, wake, polled, ready, render>>

\* More events within the debounce time.
DrainMore ==
    /\ pc = "debounce"
    /\ events # {}
    /\ changed' = (changed \/ "config" \in events)
    /\ events' = {}
    /\ UNCHANGED <<saved, tmp, owed, inputs, pc, watching, have, cfg, force,
                   reload, wake, polled, ready, render>>

Settled ==
    /\ pc = "debounce"
    /\ events = {}
    /\ reload' = (reload \/ changed)
    /\ wake' = (wake \/ changed)
    /\ UNCHANGED <<disk, inputs, watching, have, cfg, render>>
    /\ Resume

\* Keeps the previous config when the new one does not parse.
Reload ==
    /\ pc = "reload"
    /\ have' = (have \/ saved.valid)
    /\ cfg' = IF saved.valid THEN saved.version ELSE cfg
    /\ pc' = "render"
    /\ UNCHANGED <<disk, inputs, watching, flags, polled, ready, render>>

Step == \/ LoadAtStart \/ SetUpWatch \/ RenderInvalid
        \/ \E outcome \in Outcomes : Render(outcome)
        \/ Timeout \/ Poll
        \/ RefreshRequested \/ CycleRequested \/ CycleNext
        \/ ReloadRequested \/ Terminated
        \/ Drain \/ NothingToDrain \/ DrainMore \/ Settled \/ Reload

----------------------------------------------------------------------------
(* The other programs and the user                                         *)

daemon == <<pc, watching, have, cfg, flags, polled, ready, render>>

Send(sig) == /\ signals' = signals \cup {sig}
             /\ UNCHANGED <<locked, disk, daemon>>

\* A command, or another daemon's cycle_next, takes the lock or gives it up.
\* Nothing says that it must: "remove" keeps it while it waits for an answer.
LockTaken == /\ ~locked /\ locked' = TRUE
             /\ UNCHANGED <<signals, disk, daemon>>

LockGivenUp == /\ locked /\ locked' = FALSE
               /\ UNCHANGED <<signals, disk, daemon>>

\* Some other file in the watched directory is written or deleted, as often
\* as its owner likes.
OtherFileTouched == /\ Reported({"other"})
                    /\ UNCHANGED <<saved, tmp, owed, inputs, daemon>>

\* write_file_atomic of another process: a temporary file, then a rename.
ProgramWritesTmp == /\ ~tmp /\ saved.version < MaxSaves
                    /\ tmp' = TRUE
                    /\ Reported({"other"})
                    /\ UNCHANGED <<saved, owed, inputs, daemon>>

ProgramRenames == /\ tmp /\ NewVersion
                  /\ tmp' = FALSE
                  /\ Reported({"config"})
                  /\ owed' = IF watching THEN saved'.version ELSE owed
                  /\ UNCHANGED <<inputs, daemon>>

\* An editor that writes in place: the file does not parse until it is closed,
\* and only the closing is an event the daemon asked for.
UserTruncates == /\ saved.valid /\ saved.version < MaxSaves
                 /\ saved' = [saved EXCEPT !.valid = FALSE]
                 /\ owed' = 0
                 /\ UNCHANGED <<tmp, events, inputs, daemon>>

UserCloses == /\ ~saved.valid /\ saved.version < MaxSaves
              /\ \E valid \in BOOLEAN :
                   saved' = [version |-> saved.version + 1, valid |-> valid]
              /\ Reported({"config"})
              /\ owed' = IF watching /\ saved'.valid THEN saved'.version ELSE owed
              /\ UNCHANGED <<tmp, inputs, daemon>>

\* What happens as long as the daemon runs.
Environment == /\ pc # "out"
               /\ \/ \E sig \in Signals : Send(sig)
                  \/ LockTaken \/ LockGivenUp \/ CycleUnlocked
                  \/ OtherFileTouched
                  \/ ProgramWritesTmp \/ ProgramRenames
                  \/ UserTruncates \/ UserCloses
                  \/ EmitFails

Next == Step \/ Environment

\* The daemon runs whenever it can; fetches end (the HTTP client has a
\* timeout) and deadlines pass.
Spec == Init /\ [][Next]_vars /\ WF_vars(Step)

----------------------------------------------------------------------------
(* Properties                                                              *)

\* Among the types: the wait never exceeds the interval, however many fetches
\* have failed (RETRY_MIN, daemon.c:192-196).
TypeOK == /\ saved \in [version : 1 .. MaxSaves, valid : BOOLEAN]
          /\ events \in SUBSET {"config", "other"}
          /\ signals \in SUBSET Signals /\ locked \in BOOLEAN
          /\ owed \in 0 .. MaxSaves
          /\ pc \in {"load", "watch", "render", "wait", "signals", "lock",
                     "debounce", "reload", "out"}
          /\ <<tmp, watching, have>> \in BOOLEAN \X BOOLEAN \X BOOLEAN
          /\ flags \in BOOLEAN \X BOOLEAN \X BOOLEAN \X BOOLEAN
          /\ polled \in BOOLEAN
          /\ ready \in SUBSET {"signal", "inotify"}
          /\ cfg \in 0 .. MaxSaves
          /\ failures \in 0 .. FailureBound
          /\ wait \in 1 .. Interval
          /\ <<last, line, bar>> \in Lines \X Lines \X Lines

\* While the daemon waits, Waybar shows the line rendered last, although lines
\* that repeat are not printed.
BarIsCurrent == pc = "wait" => bar = line

\* The daemon gets back to its timer time and again: no one sends signals
\* without a pause, nothing in the config directory is touched every DEBOUNCE_MS
\* for ever, and no one keeps the lock that cycle_next waits for.  Nothing in
\* the code bounds these, and while one lasts a SIGTERM, too, has to wait.
LeftInPeace == []<>(pc \notin {"signals", "lock", "debounce"})

\* "The daemon redraws immediately whenever the config changes, whether from
\* the TUI, wayweather next, or an editor" (README.md:87): what changes while
\* the daemon watches, or by its own hand, is shown, unless the file does not
\* parse by then.
ChangesAreShown == LeftInPeace => \A v \in 1 .. MaxSaves :
    owed = v ~> (bar[1] >= v \/ owed # v \/ pc = "out")

\* "SIGUSR1 -> force refresh (bypass caches)" (daemon.h:15), also when other
\* signals, a reload or an elapsed timer come between.
RefreshIsForced == LeftInPeace =>
    ("USR1" \in signals) ~> ((pc = "render" /\ force) \/ pc = "out")

\* A daemon that is told to end does, whatever else it is told and however
\* soon its timer elapses each time.
TermEnds == LeftInPeace => (("TERM" \in signals) ~> (pc = "out"))
=============================================================================
