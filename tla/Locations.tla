----------------------------- MODULE Locations -----------------------------
(***************************************************************************)
(* The configuration record of wayweather and the operations config.c and  *)
(* app.c perform on it.  This module has no state: every operator maps a   *)
(* configuration to a configuration or to an index.                        *)
(*                                                                         *)
(* Positions of the saved list are 1-based here and 0-based in C, and None *)
(* stands for the -1 of the code.  A coordinate pair is one integer (the   *)
(* list logic only ever asks whether two places are closer than a          *)
(* tolerance on each axis, and a file holds multiples of Grid), a set of   *)
(* unit choices is one value, and names and the remaining address fields   *)
(* are left out: no operation below reads them.                            *)
(***************************************************************************)
EXTENDS Integers, Sequences, SequencesExt

CONSTANTS
    MaxLocations,  \* MAX_LOCATIONS of config.h
    Place,         \* coordinates a location may have
    Origin,        \* the zero coordinates of a blank location
    Tolerance,     \* two places closer than this are the same place
    Grid,          \* the precision of the coordinates in a file
    Units,         \* unit selections
    DefaultUnits   \* what units_metric() selects

ASSUME PlaceAssumption == Place \subseteq Int /\ Origin \in Place
ASSUME ToleranceAssumption == Tolerance \in Nat \ {0}

\* round_coord: the nearest multiple of Grid, halves away from zero.
RoundCoord(place) ==
    LET nearest(n) == Grid * ((2 * n + Grid) \div (2 * Grid))
    IN IF place < 0 THEN -nearest(-place) ELSE nearest(place)

ASSUME GridAssumption == /\ Grid \in Nat \ {0}
                         /\ \A place \in Place : RoundCoord(place) \in Place
                         /\ RoundCoord(Origin) = Origin
ASSUME UnitsAssumption == DefaultUnits \in Units
ASSUME LimitAssumption == MaxLocations \in Nat \ {0}

None == 0

Location == [place : Place, units : Units, isDefault : BOOLEAN]

Config == [current  : Location,
           active   : Nat,
           geo      : BOOLEAN,   \* geolocation overrides current
           geoSlot  : BOOLEAN,   \* next / prev also step through geolocation
           locs     : Seq(Location)]

Blank == [place |-> Origin, units |-> DefaultUnits, isDefault |-> FALSE]

Defaults == [current |-> Blank, active |-> None, geo |-> TRUE,
             geoSlot |-> TRUE, locs |-> << >>]

SamePlace(a, b) == /\ a.place - b.place < Tolerance
                   /\ b.place - a.place < Tolerance

----------------------------------------------------------------------------
(* The saved list                                                          *)

InRange(cfg, i) == i \in 1 .. Len(cfg.locs)

ConfigDefaultIndex(cfg) == SelectInSeq(cfg.locs, LAMBDA l : l.isDefault)

\* Marks one entry as the default and unmarks the others; None clears.
Mark(locs, i) == [j \in DOMAIN locs |-> [locs[j] EXCEPT !.isDefault = (j = i)]]

ConfigSetDefault(cfg, i) == [cfg EXCEPT !.locs = Mark(cfg.locs, i)]

Full(cfg) == Len(cfg.locs) >= MaxLocations

\* A set of positions, in the order of the list.
Ascending(positions) ==
    CHOOSE s \in SetToSeqs(positions) :
      \A i, j \in DOMAIN s : i < j => s[i] < s[j]

\* config_add of a list that is not full: append, and a default evicts the
\* previous one.
ConfigAdd(cfg, loc) ==
    LET longer == Append(cfg.locs, loc) IN
    [cfg EXCEPT !.locs = IF loc.isDefault
                         THEN Mark(longer, Len(longer)) ELSE longer]

\* Mutants of AfterRemoval: the index is not shifted; it always is.
AfterRemovalUnshifted(active, i) == IF active = i THEN None ELSE active
AfterRemovalUnchecked(active, i) == active - 1

\* After an entry is removed, the active index follows its location.
AfterRemoval(active, i) == IF active = i THEN None
                           ELSE IF active > i THEN active - 1 ELSE active

ConfigRemove(cfg, i) == [cfg EXCEPT !.locs = RemoveAt(cfg.locs, i),
                              !.active = AfterRemoval(cfg.active, i)]

AfterMove(active, from, to) ==
    IF active = from THEN to
    ELSE IF from < active /\ active <= to THEN active - 1
    ELSE IF to <= active /\ active < from THEN active + 1
    ELSE active

ConfigMove(cfg, from, to) ==
    [cfg EXCEPT !.locs = InsertAt(RemoveAt(cfg.locs, from), to, cfg.locs[from]),
                !.active = AfterMove(cfg.active, from, to)]

----------------------------------------------------------------------------
(* What is shown                                                           *)

AsCurrent(loc) == [loc EXCEPT !.isDefault = FALSE]

ConfigUse(cfg, i) == [cfg EXCEPT !.current = AsCurrent(cfg.locs[i]),
                                 !.active = i, !.geo = FALSE]

UseGeo(cfg) == [cfg EXCEPT !.geo = TRUE, !.active = None]

\* Mutant of ConfigMatchCurrent: the active entry is not preferred.
FirstMatch(cfg) == SelectInSeq(cfg.locs, LAMBDA l : SamePlace(l, cfg.current))

\* The saved location that matches current: the active one if it does, the
\* first that does otherwise.
ConfigMatchCurrent(cfg) ==
    IF InRange(cfg, cfg.active) /\ SamePlace(cfg.locs[cfg.active], cfg.current)
    THEN cfg.active
    ELSE SelectInSeq(cfg.locs, LAMBDA l : SamePlace(l, cfg.current))

Shown(cfg) == IF cfg.geo THEN None ELSE ConfigMatchCurrent(cfg)

\* The rotation of next / prev: every saved location, then geolocation.
GeoPosition(cfg) == Len(cfg.locs) + 1
Slots(cfg) == IF cfg.geoSlot THEN Len(cfg.locs) + 1 ELSE Len(cfg.locs)

SlotShown(cfg) == IF cfg.geo THEN (IF cfg.geoSlot THEN GeoPosition(cfg) ELSE None)
                  ELSE ConfigMatchCurrent(cfg)

CanCycle(cfg) == /\ Slots(cfg) # 0
                 /\ ~(Slots(cfg) = 1 /\ ~cfg.geoSlot /\ cfg.active = 1)

NextSlot(cfg, direction) ==
    IF SlotShown(cfg) = None
    THEN IF direction > 0 THEN 1 ELSE Slots(cfg)
    ELSE ((SlotShown(cfg) - 1 + direction) % Slots(cfg)) + 1

Cycle(cfg, direction) ==
    IF NextSlot(cfg, direction) = GeoPosition(cfg)
    THEN UseGeo(cfg) ELSE ConfigUse(cfg, NextSlot(cfg, direction))

----------------------------------------------------------------------------
(* Writing and reading a file                                              *)

\* config_to_json: coordinates are rounded, and current has no default flag.
SavedLocation(loc) == [loc EXCEPT !.place = RoundCoord(loc.place)]

Saved(cfg) ==
    [cfg EXCEPT !.current = AsCurrent(SavedLocation(cfg.current)),
                !.locs = [i \in DOMAIN cfg.locs |-> SavedLocation(cfg.locs[i])]]

LastDefault(locs) == SelectLastInSeq(locs, LAMBDA l : l.isDefault)

\* Mutant of Loaded: the entries are taken as they stand in the file.
LoadedVerbatim(file) ==
    [file EXCEPT !.active = IF InRange(file, file.active) THEN file.active ELSE None]

\* parse_v3: entries beyond the limit are dropped, the last default of those
\* kept wins, and an active index outside the list becomes None.
Loaded(file) ==
    LET kept == SubSeq(file.locs, 1,
                       IF Len(file.locs) < MaxLocations
                       THEN Len(file.locs) ELSE MaxLocations)
    IN [file EXCEPT !.locs = IF LastDefault(kept) = 0
                             THEN kept ELSE Mark(kept, LastDefault(kept)),
                    !.active = IF file.active \in 1 .. Len(kept)
                               THEN file.active ELSE None]

\* migrate_legacy: the entries of the old files are added in order, then the
\* active index is looked up, whether or not geolocation is on.
Migrated(geo, current, entries) ==
    LET cfg == Loaded([Defaults EXCEPT !.geo = geo, !.current = current,
                                       !.locs = entries])
    IN [cfg EXCEPT !.active = ConfigMatchCurrent(cfg)]

\* A config.json without a version, and the entries of locations.json.
Upgraded(geo, current, entries) ==
    Loaded([Defaults EXCEPT !.geo = geo, !.current = current, !.locs = entries])

----------------------------------------------------------------------------
(* What the operations maintain                                            *)

\* "Only one default may exist" (config.c:382).
OneDefault(cfg) == \A i, j \in 1 .. Len(cfg.locs) :
    cfg.locs[i].isDefault /\ cfg.locs[j].isDefault => i = j

\* "index of saved location loaded into current or -1" (config.h:57).
ActiveIsCurrent(cfg) == cfg.active # None =>
    /\ InRange(cfg, cfg.active)
    /\ SamePlace(cfg.locs[cfg.active], cfg.current)
=============================================================================
