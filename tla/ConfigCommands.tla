--------------------------- MODULE ConfigCommands ---------------------------
(***************************************************************************)
(* The commands of main.c that edit the configuration, one at a time.      *)
(* Every command runs begin_edit (lock, load), its own logic on the loaded *)
(* record, and end_edit (save, unlock); ConfigSharing takes that bracket   *)
(* apart, here it is one step.  A command that is refused saves nothing    *)
(* and is no step at all.  The file may also be made from an older format, *)
(* and the user may change it in an editor between two commands.           *)
(***************************************************************************)
EXTENDS Locations

CONSTANT LegacyEntries  \* bound on the entries of a legacy locations file

ASSUME LegacyAssumption == LegacyEntries \in Nat

VARIABLES
    file,   \* the configuration on disk, as a record
    author  \* who produced it:
            \*   "program"  commands only, starting from the defaults, and
            \*              no "set" of a place finer than a file can hold
            \*   "mixed"    commands, over anything else
            \*   "user"     an editor, and no command since

vars == <<file, author>>

Init == \/ file = Defaults /\ author = "program"
        \/ \E geo \in BOOLEAN, place \in Place, units \in Units,
              entries \in BoundedSeq(Location, LegacyEntries) :
             LET current == [Blank EXCEPT !.place = place, !.units = units]
             IN /\ file \in {Saved(Migrated(geo, current, entries)),
                              Saved(Upgraded(geo, current, entries))}
                /\ author = "mixed"

----------------------------------------------------------------------------

Cfg == Loaded(file)

SavesAs(cfg, who) == /\ file' = Saved(cfg)
                     /\ author' = IF author = "program" THEN who ELSE "mixed"

Saves(cfg) == SavesAs(cfg, "program")

\* The file cannot hold the place as it is.
Rough(place) == RoundCoord(place) # place

Entry(place, units, isDefault) ==
    [place |-> place, units |-> units, isDefault |-> isDefault]

Positions == 1 .. Len(Cfg.locs)

\* Overwrites the fields of one saved entry that "edit" and "units" may change.
WithEntry(cfg, i, place, units) ==
    [cfg EXCEPT !.locs[i] = [@ EXCEPT !.place = place, !.units = units]]

WithUnits(cfg, i, units) == WithEntry(cfg, i, cfg.locs[i].place, units)

----------------------------------------------------------------------------
(* add, remove, edit                                                       *)

AddCommand(place, units, isDefault, use) ==
    LET loc == Entry(place, units, isDefault)
        cfg == ConfigAdd(Cfg, loc)
    IN /\ \A i \in Positions : ~SamePlace(Cfg.locs[i], loc)
       /\ ~Full(Cfg)
       /\ Saves(IF use THEN ConfigUse(cfg, Len(cfg.locs)) ELSE cfg)

\* Mutant of RemoveBoth: the earlier position first.
RemoveEarlierFirst(cfg, i, j) ==
    LET low  == IF i < j THEN i ELSE j
        high == IF i < j THEN j ELSE i
    IN IF i = j THEN ConfigRemove(cfg, i)
       ELSE ConfigRemove(ConfigRemove(cfg, low), high)

\* Removes the later position first; naming one location twice removes it once.
RemoveBoth(cfg, i, j) ==
    LET low  == IF i < j THEN i ELSE j
        high == IF i < j THEN j ELSE i
    IN IF i = j THEN ConfigRemove(cfg, i)
       ELSE ConfigRemove(ConfigRemove(cfg, high), low)

RemoveCommand(i, j) == Saves(RemoveBoth(Cfg, i, j))

\* A shown location that is edited is loaded into current again.
Edited(cfg, i, place, units) ==
    LET edited == WithEntry(cfg, i, place, units)
    IN IF Shown(cfg) = i THEN ConfigUse(edited, i) ELSE edited

EditCommand(i, place, units) == Saves(Edited(Cfg, i, place, units))

----------------------------------------------------------------------------
(* use, default, next / prev                                               *)

UseCommand(i) == Saves(ConfigUse(Cfg, i))

UseDefaultCommand == /\ ConfigDefaultIndex(Cfg) # None
                     /\ Saves(ConfigUse(Cfg, ConfigDefaultIndex(Cfg)))

UseGeoCommand == Saves(UseGeo(Cfg))

\* i = None is "default --clear".
DefaultCommand(i) == Saves(ConfigSetDefault(Cfg, i))

CycleCommand(direction) == /\ CanCycle(Cfg)
                           /\ Saves(Cycle(Cfg, direction))

----------------------------------------------------------------------------
(* set, units                                                              *)

\* config_add as "set --save" uses it: a full list is passed over in silence.
AddIfRoom(cfg, loc) == IF Full(cfg) THEN cfg ELSE ConfigAdd(cfg, AsCurrent(loc))

\* set --lat --lon: a new place becomes current and the active index is
\* looked up again.
SetPlaceCommand(place, units, save, skip) ==
    LET loc == Entry(place, units, FALSE)
        cfg == IF save THEN AddIfRoom(Cfg, loc) ELSE Cfg
        now == [cfg EXCEPT !.current = loc, !.geo = FALSE]
    IN IF skip THEN Saves(cfg)
       ELSE SavesAs([now EXCEPT !.active = ConfigMatchCurrent(now)],
                    IF Rough(place) THEN "mixed" ELSE "program")

\* Gives the saved twin of the shown location the units of current.
SyncTwin(cfg) == IF Shown(cfg) = None THEN cfg
                 ELSE WithUnits(cfg, Shown(cfg), cfg.current.units)

\* set --units without coordinates.
SetUnitsCommand(units, save, skip) ==
    LET loc == [Cfg.current EXCEPT !.units = units]
        cfg == IF save THEN AddIfRoom(Cfg, loc) ELSE Cfg
    IN Saves(IF skip THEN cfg
             ELSE SyncTwin([cfg EXCEPT !.current = loc]))

UnitsCommand(units) ==
    Saves(SyncTwin([Cfg EXCEPT !.current.units = units]))

\* units --location: current follows when the location is the one shown.
UnitsOf(cfg, i, units) ==
    LET with == WithUnits(cfg, i, units)
    IN IF Shown(with) = i THEN [with EXCEPT !.current.units = units] ELSE with

UnitsOfCommand(i, units) == Saves(UnitsOf(Cfg, i, units))

----------------------------------------------------------------------------
(* geo, reset                                                              *)

GeoCommand(on) == Saves(IF on THEN UseGeo(Cfg) ELSE [Cfg EXCEPT !.geo = FALSE])

GeoToggleCommand == GeoCommand(~Cfg.geo)

\* geo provider: the setting itself is left out, but the record is saved as it
\* was loaded, with the repairs and clamps of loading.
GeoProviderCommand == Saves(Cfg)

\* The provider's answer, with the units of current; no duplicate check.
GeoSaveCommand(place) ==
    /\ ~Full(Cfg)
    /\ Saves(ConfigAdd(Cfg, AsCurrent([Cfg.current EXCEPT !.place = place])))

ResetCommand(units) ==
    Saves([UseGeo(Cfg) EXCEPT !.current =
             IF units THEN Blank ELSE [Blank EXCEPT !.units = Cfg.current.units]])

ResetAllCommand == Saves(Defaults)

\* The settings tab's switch for include_in_cycle, the one setting of the
\* record that no command changes.
GeoSlotSetting == Saves([Cfg EXCEPT !.geoSlot = ~Cfg.geoSlot])

----------------------------------------------------------------------------
(* The user's editor: any program may write the file.  Four representative *)
(* edits: a wrong active index, a second default, a deleted last entry, a  *)
(* list one longer than the limit; at most one between two commands.       *)

HandEdit ==
    /\ author # "user"
    /\ author' = "user"
    /\ \/ \E a \in 0 .. MaxLocations + 1 : file' = [file EXCEPT !.active = a]
       \/ \E i \in DOMAIN file.locs :
            file' = [file EXCEPT !.locs[i].isDefault = ~file.locs[i].isDefault]
       \/ /\ file.locs # << >>
          /\ file' = [file EXCEPT !.locs = Front(file.locs)]
       \/ /\ Len(file.locs) = MaxLocations
          /\ file' = [file EXCEPT !.locs = Append(file.locs, Blank)]

----------------------------------------------------------------------------

ListCommand ==
    \/ \E place \in Place, units \in Units, isDefault, use \in BOOLEAN :
         AddCommand(place, units, isDefault, use)
    \/ \E i, j \in Positions : RemoveCommand(i, j)
    \/ \E i \in Positions, place \in Place, units \in Units :
         EditCommand(i, place, units)
    \/ \E i \in Positions \cup {None} : DefaultCommand(i)
    \/ \E place \in Place : GeoSaveCommand(place)

ShowCommand ==
    \/ \E i \in Positions : UseCommand(i)
    \/ UseDefaultCommand
    \/ UseGeoCommand
    \/ \E direction \in {-1, 1} : CycleCommand(direction)
    \/ \E on \in BOOLEAN : GeoCommand(on)
    \/ GeoToggleCommand
    \/ GeoProviderCommand
    \/ \E units \in BOOLEAN : ResetCommand(units)

CurrentCommand ==
    \/ \E place \in Place, units \in Units, save, skip \in BOOLEAN :
         SetPlaceCommand(place, units, save, skip)
    \/ \E units \in Units, save, skip \in BOOLEAN :
         SetUnitsCommand(units, save, skip)
    \/ \E units \in Units : UnitsCommand(units)
    \/ \E i \in Positions, units \in Units : UnitsOfCommand(i, units)

Command == \/ ListCommand
           \/ ShowCommand
           \/ CurrentCommand
           \/ ResetAllCommand
           \/ GeoSlotSetting

Next == Command \/ HandEdit

Spec == Init /\ [][Next]_vars

\* The same system while nobody opens the file in an editor.
CommandSpec == Init /\ [][Command]_vars
----------------------------------------------------------------------------
(* Properties                                                              *)

\* The file is always a configuration record of the declared type.
TypeOK == /\ file \in Config
          /\ author \in {"program", "mixed", "user"}

\* What a command saves has at most one default, no more entries than the
\* limit and an active index inside the list, even when it started from a
\* migrated or hand-edited file that had not (parse_v3, config_add).
SavedIsWellFormed == author # "user" =>
    /\ OneDefault(file)
    /\ Len(file.locs) <= MaxLocations
    /\ file.active = None \/ InRange(file, file.active)

\* Starting from the defaults, no sequence of commands makes the active index
\* name a location other than the one loaded into current (config.h:57), or
\* leaves one set while geolocation overrides it.  The exception is a "set" of
\* a place finer than a file can hold: the index is looked up before rounding.
ActiveIsLoaded == author = "program" =>
    /\ ActiveIsCurrent(file)
    /\ file.active # None => ~file.geo

\* next or prev, saved and loaded again.
Pressed(cfg, direction) == Loaded(Saved(Cycle(cfg, direction)))

\* The configuration after k presses of next, starting from cfg.
AfterNexts(cfg) ==
    LET after[k \in 0 .. Slots(cfg)] ==
          IF k = 0 THEN cfg ELSE Pressed(after[k - 1], 1)
    IN after

\* next, pressed once per slot, shows every saved location and geolocation
\* exactly once, and prev undoes next, whatever duplicates the list holds and
\* wherever the rotation starts (app_cycle, config_match_current).
CycleIsARotation == CanCycle(Cfg) =>
    /\ {SlotShown(AfterNexts(Cfg)[k]) : k \in 1 .. Slots(Cfg)} = 1 .. Slots(Cfg)
    /\ SlotShown(Cfg) # None =>
         SlotShown(Pressed(Pressed(Cfg, 1), -1)) = SlotShown(Cfg)

\* The shown location and its saved entry name the same units.
TwinsAgree(cfg) == Shown(cfg) # None =>
    cfg.locs[Shown(cfg)].units = cfg.current.units

\* A command that changes units, or edits an entry, keeps the shown location
\* and its saved entry in step ("Keep current and its saved twin consistent",
\* main.c:922), as long as the same entry stays the one shown.
TwinsStayInStep ==
    [][ ~TwinsAgree(file') /\ Shown(file') = Shown(Cfg) /\ TwinsAgree(Cfg) =>
          /\ \A i \in Positions, p \in Place, u \in Units : ~EditCommand(i, p, u)
          /\ \A u \in Units, save \in BOOLEAN : ~SetUnitsCommand(u, save, FALSE)
          /\ \A u \in Units : ~UnitsCommand(u)
          /\ \A i \in Positions, u \in Units : ~UnitsOfCommand(i, u) ]_vars

\* remove takes away exactly the named entries, keeps the others in order, and
\* the active index stays with its location unless that one was named.
RemovalKeepsTheRest ==
    [][ Len(file'.locs) < Len(file.locs) =>
        \A i, j \in Positions : RemoveCommand(i, j) =>
          LET left == Ascending(Positions \ {i, j})
          IN /\ file'.locs = [k \in DOMAIN left |-> SavedLocation(Cfg.locs[left[k]])]
             /\ IF Cfg.active \in Positions \ {i, j}
                THEN left[file'.active] = Cfg.active
                ELSE file'.active = None ]_vars
=============================================================================
