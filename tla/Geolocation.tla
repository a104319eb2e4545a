---------------------------- MODULE Geolocation ----------------------------
(***************************************************************************)
(* Where the user is: geolocate (geolocate.c) with its chain of sources,   *)
(* the cache of the last fix and the lookup of a place name, under         *)
(* app_resolve (app.c), which falls back to the configured location.       *)
(* Several programs of one user do this side by side, with whatever        *)
(* provider their copy of the configuration names; all share one file with *)
(* the last fix, and one file per cell of 0.01 degree with the name of the *)
(* place.  A spot is a cell and a point in it; the place that the services *)
(* name for a spot is that spot.                                           *)
(***************************************************************************)
EXTENDS WallClock, Sequences

CONSTANTS
    Procs,
    Provider,  \* the settings in use: a source, or "auto" for any of them
    Cell,      \* the squares of 0.01 degree
    Point,     \* the points told apart within one of them
    Home,      \* the configured location
    GeoTtl,    \* cache_ttl of the geolocation settings
    Timeout,   \* a fix and its name are found or given up within this time
    Nothing

Source == {"gpsd", "geoclue", "ip"}
Spot == Cell \X Point

\* The coordinates as the name of a cached place has them, with two decimals.
CellOf(spot) == spot[1]

ASSUME ProviderAssumption == Provider \subseteq Source \cup {"auto"}
ASSUME NamesAssumption == Home \notin Spot /\ Nothing \notin Spot \cup Source \cup {Home}
ASSUME TimesAssumption == GeoTtl \in Nat /\ Timeout \in Nat

VARIABLES
    hasGeoclue,  \* the programs are built with GeoClue
    fixFile,     \* the cached fix
    places,      \* the cached place name of each cell
    run          \* what each program is doing

vars == <<clock, back, hasGeoclue, fixFile, places, run>>

Position == Spot \cup {Home}

Fix == [provider : Provider, source : Source, pos : Spot,
        name : Spot \cup {Nothing}, at : 0 .. MaxTime, stamp : -Jump .. MaxTime]

ASSUME NothingAssumption == Nothing \notin Fix

\* What is resolved starts out as the configured location.  at: when the fix
\* was asked for.  chain: the sources still to be asked.
Idle == [pc |-> "idle", provider |-> "auto", force |-> FALSE, began |-> 0,
         chain |-> << >>, source |-> Nothing, pos |-> Nothing, name |-> Nothing,
         at |-> 0]

Init == /\ TimeInit
        /\ hasGeoclue \in BOOLEAN
        /\ fixFile = Nothing
        /\ places = [c \in Cell |-> Nothing]
        /\ run = [p \in Procs |-> Idle]

----------------------------------------------------------------------------

\* Mutant of Usable: any fix that is young enough.
UsableByAll(provider, force) ==
    fixFile # Nothing /\ ~force /\ Wall - fixFile.stamp < GeoTtl

\* Mutant of Usable: a forced call takes the cached fix, too.
UsableForced(provider, force) ==
    /\ fixFile # Nothing /\ GeoTtl > 0
    /\ fixFile.provider = provider
    /\ Wall - fixFile.stamp < GeoTtl

\* The cached fix may be used for GeoTtl by callers with the same setting.
Usable(provider, force) ==
    /\ fixFile # Nothing /\ ~force /\ GeoTtl > 0
    /\ fixFile.provider = provider
    /\ Wall - fixFile.stamp < GeoTtl

\* The sources of the build, in the order in which they are asked.
Built == IF hasGeoclue THEN <<"gpsd", "geoclue", "ip">> ELSE <<"gpsd", "ip">>

BuiltSources == {Built[i] : i \in DOMAIN Built}

\* Mutant of Allowed: the setting is taken at its word.
AllowedByName(provider) == IF provider = "auto" THEN Built ELSE <<provider>>

\* The sources to ask, in order: all of the build, the one the setting names, or
\* none when the build lacks it.
Allowed(provider) == IF provider = "auto" THEN Built
                     ELSE IF provider \in BuiltSources THEN <<provider>>
                     ELSE << >>

\* app_resolve with geolocation on; home is the configured location, or
\* Nothing.  The TUI's worker calls geolocate itself and has no such fallback.
Begin(p, provider, force, home) ==
    LET call == [Idle EXCEPT !.provider = provider, !.force = force,
                             !.began = clock, !.name = home]
    IN /\ run[p].pc = "idle"
       /\ run' = [run EXCEPT ![p] =
            IF Usable(provider, force)
            THEN [call EXCEPT !.pc = "done", !.source = fixFile.source,
                              !.pos = fixFile.pos, !.name = fixFile.name,
                              !.at = fixFile.at]
            ELSE [call EXCEPT !.pc = "locate", !.force = FALSE,
                              !.chain = Allowed(provider)]]
       /\ TimeStays /\ UNCHANGED <<hasGeoclue, fixFile, places>>

Asked(p, source) ==
    run[p].pc = "locate" /\ run[p].chain # << >> /\ Head(run[p].chain) = source

\* Mutant of NameOf: what was there stays.
NameKept(p, pos, named) == IF named THEN pos ELSE run[p].name

\* The place of the position, when the source reports it; otherwise the name of
\* what was resolved before is cleared.
NameOf(p, pos, named) == IF named THEN pos ELSE Nothing

\* The source reports a spot; only the web services may know the city as well.
Located(p, source, named) ==
    /\ Asked(p, source)
    /\ \E pos \in Spot :
         run' = [run EXCEPT ![p].pc = IF named THEN "store" ELSE "name",
                            ![p].chain = << >>,
                            ![p].source = source, ![p].pos = pos,
                            ![p].name = NameOf(p, pos, named),
                            ![p].at = run[p].began]
    /\ TimeStays /\ UNCHANGED <<hasGeoclue, fixFile, places>>

\* gpsd sends a fix in time, which is a position without a place.
GpsdLocates(p) == Located(p, "gpsd", FALSE)

\* So does GeoClue.
GeoclueLocates(p) == Located(p, "geoclue", FALSE)

\* One of the web services answers.
IpLocates(p) == \E named \in BOOLEAN : Located(p, "ip", named)

\* The source asked is not there, has no fix or takes too long: the next one.
SourceFails(p) ==
    /\ run[p].pc = "locate" /\ run[p].chain # << >>
    /\ run' = [run EXCEPT ![p].chain = Tail(@)]
    /\ TimeStays /\ UNCHANGED <<hasGeoclue, fixFile, places>>

\* No source is left: the configured location, if there is one.
NotLocated(p) ==
    /\ run[p].pc = "locate" /\ run[p].chain = << >>
    /\ run' = [run EXCEPT ![p].pc = "done", ![p].pos = run[p].name]
    /\ TimeStays /\ UNCHANGED <<hasGeoclue, fixFile, places>>

Names(p, name) == run' = [run EXCEPT ![p].pc = "store", ![p].name = name]

\* geocode_reverse begins with the cached name of the cell, which never
\* expires; it was stored for whatever spot of the cell was first looked up.
NamedFromCache(p) ==
    LET cached == places[CellOf(run[p].pos)]
    IN /\ run[p].pc = "name"
       /\ IF cached # Nothing THEN Names(p, cached)
          ELSE run' = [run EXCEPT ![p].pc = "ask"]
       /\ TimeStays /\ UNCHANGED <<hasGeoclue, fixFile, places>>

\* The service names the place, and the name is stored for the cell, whatever
\* another program has stored by now; writing it may fail.
NamedByService(p) ==
    /\ run[p].pc = "ask"
    /\ Names(p, run[p].pos)
    /\ places' \in {places, [places EXCEPT ![CellOf(run[p].pos)] = run[p].pos]}
    /\ TimeStays /\ UNCHANGED <<hasGeoclue, fixFile>>

\* reverse_geocode is off, or the service does not know.
NotNamed(p) == /\ run[p].pc \in {"name", "ask"}
               /\ Names(p, run[p].name)
               /\ TimeStays /\ UNCHANGED <<hasGeoclue, fixFile, places>>

\* cache_store, whatever the file holds by now; writing it may fail.
Store(p) ==
    LET r == run[p] IN
    /\ r.pc = "store"
    /\ run' = [run EXCEPT ![p].pc = "done"]
    /\ fixFile' \in {fixFile, [provider |-> r.provider, source |-> r.source,
                               pos |-> r.pos, name |-> r.name, at |-> r.at,
                               stamp |-> Wall]}
    /\ TimeStays /\ UNCHANGED <<hasGeoclue, places>>

Finish(p) == /\ run[p].pc = "done"
             /\ run' = [run EXCEPT ![p] = Idle]
             /\ TimeStays /\ UNCHANGED <<hasGeoclue, fixFile, places>>

Working(p) == run[p].pc \in {"locate", "name", "ask", "store"}

TimePasses ==
    /\ \A p \in Procs : Working(p) => clock < run[p].began + Timeout
    /\ Tick
    /\ UNCHANGED <<hasGeoclue, fixFile, places, run>>

ClockIsSetBack == SetBack /\ UNCHANGED <<hasGeoclue, fixFile, places, run>>

Step(p) ==
    \/ \E provider \in Provider, force \in BOOLEAN,
          home \in {Home, Nothing} :
         Begin(p, provider, force, home)
    \/ GpsdLocates(p) \/ GeoclueLocates(p) \/ IpLocates(p)
    \/ SourceFails(p) \/ NotLocated(p)
    \/ NamedFromCache(p) \/ NamedByService(p) \/ NotNamed(p)
    \/ Store(p)
    \/ Finish(p)

Next == (\E p \in Procs : Step(p)) \/ TimePasses \/ ClockIsSetBack

Spec == Init /\ [][Next]_vars

----------------------------------------------------------------------------
(* Properties                                                              *)

\* Every variable keeps its type, and only sources of the build are asked.
TypeOK ==
    /\ TimeType
    /\ hasGeoclue \in BOOLEAN
    /\ fixFile \in Fix \cup {Nothing}
    /\ places \in [Cell -> Spot \cup {Nothing}]
    /\ run \in [Procs -> [pc : {"idle", "locate", "name", "ask", "store", "done"},
                          provider : Provider \cup {"auto"}, force : BOOLEAN,
                          began : 0 .. MaxTime,
                          chain : Seq(BuiltSources),
                          source : Source \cup {Nothing},
                          pos : Position \cup {Nothing},
                          name : Position \cup {Nothing}, at : 0 .. MaxTime]]

Detected(p) == run[p].pc = "done" /\ run[p].pos \in Spot

\* A detected position comes from a source that the caller's own setting
\* allows, although callers with other settings overwrite the one cache file
\* at any moment (cache_load compares the provider).
PositionIsAllowed == \A p \in Procs :
    Detected(p) =>
      /\ run[p].source \in Source
      /\ run[p].provider \in {"auto", run[p].source}
      /\ run[p].source = "geoclue" => hasGeoclue

\* A name goes with its position ("Places don't move: the cache never expires
\* (~1 km granularity)", geocode.c:129): a detected position is shown without
\* a name or under that of a spot in its own cell, and never under the name of
\* the configured place, or of a spot in another cell that was cached.
NameIsOfPosition == \A p \in Procs :
    run[p].pc = "done" =>
      \/ run[p].name \in {run[p].pos, Nothing}
      \/ /\ Detected(p) /\ run[p].name \in Spot
         /\ CellOf(run[p].name) = CellOf(run[p].pos)

\* A detected position was asked for by this very call, or the caller did not
\* force and it was asked for less than GeoTtl before, plus the time finding
\* and naming it took and what the wall clock was set back ("Fixes are cached
\* for geo->cache_ttl seconds unless `force` is set", geolocate.h:11).
FixIsYoung == \A p \in Procs :
    Detected(p) =>
      \/ run[p].at = run[p].began
      \/ ~run[p].force /\ run[p].began - run[p].at < GeoTtl + Timeout + back
=============================================================================
