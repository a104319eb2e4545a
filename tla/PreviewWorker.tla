---------------------------- MODULE PreviewWorker ----------------------------
(***************************************************************************)
(* The weather previews of the TUI (tui.c:30-228): a cache of slots that   *)
(* the UI thread reads every frame and a worker thread fills.  Each action *)
(* of either thread is one critical section of pv.mu; the worker fetches   *)
(* outside of it.                                                          *)
(*                                                                         *)
(* A key stands for a location and its units; GeoKey for the position that *)
(* geolocation finds, which depends on the provider chosen.  Times are the *)
(* order in which fetches end, 0 for never.                                *)
(***************************************************************************)
EXTENDS Integers, FiniteSets, FiniteSetsExt

CONSTANTS
    SavedKeys, GeoKey,  \* what the user may look at
    SlotCount,          \* PREVIEW_SLOTS
    MaxMoves,           \* bound on the times the user looks at something else
    MaxRefreshes,       \* bound on the refreshes asked for, and
    MaxExpiries,        \*   on the previews that grow old
    MaxProviders        \* bound on the geolocation settings tried

ASSUME SlotAssumption == SlotCount \in Nat \ {0}
ASSUME GeoAssumption == GeoKey \notin SavedKeys
ASSUME BoundsAssumption == /\ {MaxMoves, MaxRefreshes, MaxExpiries} \subseteq Nat
                           /\ MaxProviders \in Nat \ {0}

Keys == SavedKeys \cup {GeoKey}
Slots == 1 .. SlotCount
NoSlot == 0

VARIABLES
    slots,     \* pv.slots
    want,      \* the slot to fetch next, or NoSlot
    busy, stop,
    pvGeo,     \* the provider the worker will use
    worker,    \* where the worker is
    job,       \* what it took out: slot, key and provider
    now,       \* fetches ended
    ui,        \* "running", "joining" or "exited"
    visible,   \* the key on the screen
    provider,  \* the provider in the configuration
    moves, refreshes, expiries

pv == <<slots, want, busy, stop, pvGeo>>
thread == <<worker, job, now>>
user == <<ui, visible, provider, moves, refreshes, expiries>>
vars == <<pv, thread, user>>

NoData == [key |-> GeoKey, provider |-> 0, ok |-> FALSE]
Data == [key : Keys, provider : 0 .. MaxProviders, ok : BOOLEAN]

Slot == [used : BOOLEAN, key : Keys, pending : BOOLEAN, old : BOOLEAN,
         when : Nat, data : Data]

Cleared(used, key) == [used |-> used, key |-> key, pending |-> FALSE, old |-> FALSE,
                       when |-> 0, data |-> NoData]

Init == /\ slots = [i \in Slots |-> Cleared(FALSE, GeoKey)]
        /\ want = NoSlot /\ busy = FALSE /\ stop = FALSE
        /\ provider = 1 /\ pvGeo = 1
        /\ worker = "ready"
        /\ job = [slot |-> NoSlot, key |-> GeoKey, provider |-> 1]
        /\ now = 0
        /\ ui = "running"
        /\ visible \in Keys
        /\ moves = 0 /\ refreshes = 0 /\ expiries = 0

----------------------------------------------------------------------------
(* The worker                                                              *)

\* Mutant of Loop: busy is not reset.
LoopStaysBusy == IF stop THEN /\ worker' = "gone"
                              /\ UNCHANGED <<want, busy, job>>
                 ELSE IF want = NoSlot THEN /\ worker' = "waiting"
                                            /\ UNCHANGED <<want, busy, job>>
                 ELSE /\ worker' = "fetching"
                      /\ busy' = TRUE
                      /\ job' = [slot |-> want, key |-> slots'[want].key,
                                provider |-> pvGeo]
                      /\ want' = NoSlot

\* The head of the loop: leave, wait for the condition variable, or take the
\* wanted slot and release the lock.
Loop == IF stop THEN /\ worker' = "gone"
                     /\ busy' = FALSE
                     /\ UNCHANGED <<want, job>>
        ELSE IF want = NoSlot THEN /\ worker' = "waiting"
                                   /\ busy' = FALSE
                                   /\ UNCHANGED <<want, job>>
        ELSE /\ worker' = "fetching"
             /\ busy' = TRUE
             /\ job' = [slot |-> want, key |-> slots'[want].key, provider |-> pvGeo]
             /\ want' = NoSlot

WorkerStarts == /\ worker = "ready"
                /\ UNCHANGED <<slots, stop, pvGeo, now, user>>
                /\ Loop

\* Mutant of Accepts: the result goes to whatever is in the slot by now.
AcceptsAny == slots[job.slot].used

\* The slot still holds the key the fetch was for.
Accepts == slots[job.slot].used /\ slots[job.slot].key = job.key

\* A failure keeps the older data.
Fetched(ok) ==
    /\ worker = "fetching"
    /\ now' = now + 1
    /\ slots' = IF Accepts
                THEN [slots EXCEPT ![job.slot] =
                        [slots[job.slot] EXCEPT
                           !.pending = FALSE, !.old = FALSE, !.when = now + 1,
                           !.data = IF ok THEN [key |-> job.key, ok |-> TRUE,
                                                provider |-> job.provider]
                                    ELSE slots[job.slot].data]]
                ELSE slots
    /\ UNCHANGED <<stop, pvGeo, user>>
    /\ Loop

\* pthread_cond_signal.
Signal == worker' = IF worker = "waiting" THEN "ready" ELSE worker

----------------------------------------------------------------------------
(* The UI thread                                                           *)

Holding(key) == {i \in Slots : slots[i].used /\ slots[i].key = key}
Unused == {i \in Slots : ~slots[i].used}

\* The slot to give up: the last unused one, else the first of those whose
\* last attempt ended earliest.
Oldest == IF Unused # {} THEN Max(Unused)
          ELSE Min({i \in Slots : \A j \in Slots : slots[i].when <= slots[j].when})

SlotFor(key) == IF Holding(key) # {} THEN Min(Holding(key)) ELSE Oldest

\* Mutant of Unqueue: the slot no longer wanted stays pending.
UnqueueNothing(ss, i, queued) == ss

\* Only the latest request matters.
Unqueue(ss, i, queued) ==
    IF queued # NoSlot /\ queued # i
    THEN [ss EXCEPT ![queued].pending = FALSE] ELSE ss

PreviewGet(key, force) ==
    LET i == SlotFor(key)
        isNew == Holding(key) = {}
        found == IF isNew
                 THEN [slots EXCEPT ![i] = Cleared(TRUE, key)]
                 ELSE slots
        queued == IF isNew /\ want = i THEN NoSlot ELSE want
        stale == found[i].when = 0 \/ found[i].old
    IN /\ pvGeo' = provider
       /\ IF (force \/ stale) /\ ~(found[i].pending /\ ~force)
          THEN /\ slots' = [Unqueue(found, i, queued) EXCEPT ![i].pending = TRUE]
               /\ want' = i
               /\ Signal
          ELSE /\ slots' = found
               /\ want' = queued
               /\ UNCHANGED worker
       /\ UNCHANGED <<busy, stop, job, now>>

\* Every frame asks for the preview on the screen.
Draw == /\ ui = "running"
        /\ PreviewGet(visible, FALSE)
        /\ UNCHANGED user

Refresh == /\ ui = "running"
           /\ refreshes < MaxRefreshes
           /\ refreshes' = refreshes + 1
           /\ PreviewGet(visible, TRUE)
           /\ UNCHANGED <<ui, visible, provider, moves, expiries>>

Move(key) == /\ ui = "running"
             /\ moves < MaxMoves
             /\ moves' = moves + 1
             /\ visible' = key
             /\ UNCHANGED <<pv, thread, ui, provider, refreshes, expiries>>

\* Another provider in the configuration, and preview_drop_geo.
ChangeProvider ==
    /\ ui = "running"
    /\ provider < MaxProviders
    /\ provider' = provider + 1
    /\ slots' = [i \in Slots |->
                   IF slots[i].used /\ slots[i].key = GeoKey /\ want # i
                   THEN [slots[i] EXCEPT !.used = FALSE] ELSE slots[i]]
    /\ UNCHANGED <<want, busy, stop, pvGeo, thread, ui, visible, moves, refreshes,
                   expiries>>

\* Mutant of Quit: the worker is not signalled.
QuitSilently == /\ ui = "running"
                /\ stop' = TRUE
                /\ ui' = IF busy THEN "exited" ELSE "joining"
                /\ UNCHANGED <<slots, want, busy, pvGeo, thread, visible, provider,
                               moves, refreshes, expiries>>

\* preview_stop: with a fetch under way the process exits, else it joins.
Quit == /\ ui = "running"
        /\ stop' = TRUE
        /\ ui' = IF busy THEN "exited" ELSE "joining"
        /\ Signal
        /\ UNCHANGED <<slots, want, busy, pvGeo, job, now, visible, provider, moves,
                       refreshes, expiries>>

Join == /\ ui = "joining"
        /\ worker = "gone"
        /\ ui' = "exited"
        /\ UNCHANGED <<pv, thread, visible, provider, moves, refreshes, expiries>>

\* PREVIEW_MAX_AGE_MS pass.
Expire(i) == /\ expiries < MaxExpiries
             /\ slots[i].used /\ slots[i].when # 0 /\ ~slots[i].old
             /\ expiries' = expiries + 1
             /\ slots' = [slots EXCEPT ![i].old = TRUE]
             /\ UNCHANGED <<want, busy, stop, pvGeo, thread, ui, visible, provider,
                            moves, refreshes>>

----------------------------------------------------------------------------

WorkerStep == WorkerStarts \/ \E ok \in BOOLEAN : Fetched(ok)

Next == \/ /\ ui # "exited"
           /\ WorkerStep
        \/ Draw \/ Refresh \/ ChangeProvider \/ Quit \/ Join
        \/ \E key \in Keys : Move(key)
        \/ \E i \in Slots : Expire(i)

\* The UI draws four frames a second, fetches time out, threads run.
Fairness == /\ WF_vars(ui # "exited" /\ WorkerStep)
            /\ WF_vars(Draw)
            /\ WF_vars(Join)

Spec == Init /\ [][Next]_vars /\ Fairness

----------------------------------------------------------------------------
(* Properties                                                              *)

\* Among the types: busy says exactly that a fetch is under way, which is what
\* preview_stop goes by.
TypeOK == /\ slots \in [Slots -> Slot]
          /\ want \in Slots \cup {NoSlot}
          /\ stop \in BOOLEAN
          /\ busy = (worker = "fetching")
          /\ pvGeo \in 1 .. MaxProviders
          /\ worker \in {"ready", "waiting", "fetching", "gone"}
          /\ job \in [slot : Slots \cup {NoSlot}, key : Keys,
                      provider : 1 .. MaxProviders]
          /\ now \in Nat
          /\ ui \in {"running", "joining", "exited"}
          /\ visible \in Keys
          /\ provider \in 1 .. MaxProviders

InFlight(i) == /\ worker = "fetching"
               /\ job.slot = i
               /\ job.key = slots[i].key

\* A preview that says it is being fetched is: it is the wanted one or the one
\* under way.  A pending preview is not asked for again, so one that nobody
\* works on would stay "loading" for ever (tui.c:182-194).
NoRequestIsLost == \A i \in Slots :
    slots[i].used /\ slots[i].pending => want = i \/ InFlight(i)

\* A slot never shows the weather of another location, though it may have been
\* given to another one while the worker was fetching (tui.c:97).
DataIsForKey == \A i \in Slots :
    slots[i].used /\ slots[i].data.ok => slots[i].data.key = slots[i].key

\* When the user stops moving, what he looks at is fetched, and stays.
PreviewSettles ==
    <>[](ui = "running" =>
           \E i \in Holding(visible) : slots[i].when # 0 /\ ~slots[i].pending)

\* Quitting ends: the worker is not left waiting for a signal that was sent.
QuitEnds == (ui = "joining") ~> (ui = "exited")

\* "Forget cached geolocation previews (provider or units changed)"
\* (tui.c:221): a position that is kept, with no request for its slot waiting
\* or under way, was found with the provider chosen.
GeoIsForgotten == \A i \in Slots :
    slots[i].used /\ slots[i].key = GeoKey /\ slots[i].data.ok
      => want = i \/ InFlight(i) \/ slots[i].data.provider = provider
=============================================================================
