----------------------------- MODULE TuiEditing -----------------------------
(***************************************************************************)
(* The editing actions of the TUI (tui.c): the record it holds in memory,  *)
(* the list it shows of it through a filter, the selection, and the undo   *)
(* buffer of the last deletion.  Keys are handled one at a time, and a     *)
(* dialog runs to its end before the next key or reload, so every action   *)
(* is one step.  Each ends in save(); ConfigSharing is about that file, and *)
(* here a save matters only where its failure changes what the screen does.*)
(*                                                                         *)
(* The three tabs are left out: a Tab key away, each action is available,  *)
(* except while the filter is being typed.  Positions are 1-based.         *)
(***************************************************************************)
EXTENDS Locations

CONSTANTS
    Files,    \* the configurations that config.json may hold
    Filter,   \* a filter text is the set of places whose names it matches
    NoFilter  \* the empty filter text

ASSUME FilesAssumption == Files \subseteq Config
ASSUME FilterAssumption == Filter \subseteq SUBSET Place /\ NoFilter \notin Filter

VARIABLES
    cfg,        \* the record in memory
    list,       \* filter_text, view (positions listed) and sel (place in view)
    filtering,  \* keys go to the filter's line editor
    undo,       \* the last deletion
    origin      \* history: where each entry stood before that deletion, and
                \* 0 for entries added since; empty without a deletion

vars == <<cfg, list, filtering, undo, origin>>

----------------------------------------------------------------------------
(* The list                                                                *)

Passes(filter, loc) == filter = NoFilter \/ loc.place \in filter

Passing(c, filter) ==
    Ascending({i \in DOMAIN c.locs : Passes(filter, c.locs[i])})

\* rebuild_view: the selection keeps its row, or takes the last one.
Rebuilt(l, c) ==
    LET view == Passing(c, l.filter) IN
    [l EXCEPT !.view = view,
              !.sel = IF l.sel <= Len(view) THEN l.sel
                      ELSE IF view = << >> THEN 1 ELSE Len(view)]

Selected == IF list.view = << >> THEN None ELSE list.view[list.sel]

Row(l, i) == SelectInSeq(l.view, LAMBDA j : j = i)

\* Mutant of SelectIndex: the filter stays although it hides the entry.
SelectListed(l, c, i) == IF Row(l, i) = 0 THEN l ELSE [l EXCEPT !.sel = Row(l, i)]

\* select_index: an entry the filter hides is shown by clearing the filter.
SelectIndex(l, c, i) ==
    LET all == Rebuilt([l EXCEPT !.filter = NoFilter], c) IN
    IF Row(l, i) # 0 THEN [l EXCEPT !.sel = Row(l, i)]
    ELSE IF Row(all, i) # 0 THEN [all EXCEPT !.sel = Row(all, i)] ELSE all

StartList(c) ==
    LET all   == Rebuilt([filter |-> NoFilter, view |-> << >>, sel |-> 1], c)
        first == IF Shown(c) # None THEN Shown(c) ELSE ConfigDefaultIndex(c)
    IN IF first # None THEN SelectIndex(all, c, first) ELSE all

----------------------------------------------------------------------------

NoUndo == [has |-> FALSE, loc |-> Blank, at |-> 1, shown |-> FALSE]

Entry(place, units, isDefault) ==
    [place |-> place, units |-> units, isDefault |-> isDefault]

\* A file may be what commands or the daemon wrote, a migrated record, which
\* may have an active index under geolocation, or the work of an editor.
Init == /\ \E file \in Files : cfg = Loaded(file)
        /\ list = StartList(cfg)
        /\ filtering = FALSE
        /\ undo = NoUndo
        /\ origin = << >>

KeepsUndo == UNCHANGED <<undo, origin>>

----------------------------------------------------------------------------
(* Adding                                                                  *)

\* add_location, for the search, the form and the current location: the
\* dialog may set every field, and a duplicate is added once confirmed.  When
\* the save fails the entry is in the record and not yet on the screen.
Add(place, units, isDefault, saved) ==
    LET c == ConfigAdd(cfg, Entry(place, units, isDefault)) IN
    /\ ~filtering /\ ~Full(cfg)
    /\ cfg' = c
    /\ list' = IF saved THEN SelectIndex(Rebuilt(list, c), c, Len(c.locs)) ELSE list
    /\ origin' = IF undo.has THEN Append(origin, 0) ELSE origin
    /\ UNCHANGED <<filtering, undo>>

----------------------------------------------------------------------------
(* Editing the selected entry                                              *)

WithEntry(c, i, loc) == [c EXCEPT !.locs[i] = loc]

\* Mutant of Marked: the entry's own flag is taken as it is.
MarkedVerbatim(c, i) == c

\* One default: the edited entry if it says so, else the one there was.
Marked(c, i) ==
    ConfigSetDefault(c, IF c.locs[i].isDefault THEN i ELSE ConfigDefaultIndex(c))

\* Mutant of Reused: an edited entry is not loaded again.
ReusedNever(c, i, wasShown) == c

\* A shown entry that was edited is loaded into current again.
Reused(c, i, wasShown) == IF wasShown THEN ConfigUse(c, i) ELSE c

Edit(place, units, isDefault) ==
    LET i == Selected
        c == Reused(Marked(WithEntry(cfg, i, Entry(place, units, isDefault)), i),
                    i, Shown(cfg) = i)
    IN /\ ~filtering /\ i # None
       /\ cfg' = c
       /\ list' = SelectIndex(Rebuilt(list, c), c, i)
       /\ KeepsUndo /\ UNCHANGED filtering

EditUnits(units) ==
    LET i == Selected
        c == [cfg EXCEPT !.locs[i].units = units]
    IN /\ ~filtering /\ i # None
       /\ cfg' = Reused(c, i, Shown(c) = i)
       /\ KeepsUndo /\ UNCHANGED <<list, filtering>>

Use == /\ ~filtering /\ Selected # None
       /\ cfg' = ConfigUse(cfg, Selected)
       /\ KeepsUndo /\ UNCHANGED <<list, filtering>>

Default ==
    /\ ~filtering /\ Selected # None
    /\ cfg' = ConfigSetDefault(cfg, IF cfg.locs[Selected].isDefault
                                    THEN None ELSE Selected)
    /\ KeepsUndo /\ UNCHANGED <<list, filtering>>

\* Mutant of AfterMoveUndo: the deletion can still be undone.
KeepUndo(u) == u

\* A move forgets the deletion, whose place in the list it would falsify.
AfterMoveUndo(u) == NoUndo

Shift(s, from, to) == InsertAt(RemoveAt(s, from), to, s[from])

Move(dir) ==
    LET i  == Selected
        to == i + dir
        c  == ConfigMove(cfg, i, to)
    IN /\ ~filtering /\ i # None /\ list.filter = NoFilter
       /\ InRange(cfg, to)
       /\ cfg' = c
       /\ undo' = AfterMoveUndo(undo)
       /\ origin' = IF undo'.has THEN Shift(origin, i, to) ELSE << >>
       /\ list' = SelectIndex(Rebuilt(list, c), c, to)
       /\ UNCHANGED filtering

----------------------------------------------------------------------------
(* Deleting and undoing                                                    *)

\* Mutant of AfterDelete: the view still lists the entry that is gone.
ListKept(l, c) == l

AfterDelete(l, c) == Rebuilt(l, c)

Delete ==
    LET i == Selected
        c == ConfigRemove(cfg, i)
    IN /\ ~filtering /\ i # None
       /\ undo' = [has |-> TRUE, loc |-> cfg.locs[i], at |-> i,
                   shown |-> Shown(cfg) = i]
       /\ cfg' = c
       /\ list' = AfterDelete(list, c)
       /\ origin' = RemoveAt([k \in DOMAIN cfg.locs |-> k], i)
       /\ UNCHANGED filtering

\* Where the entry goes back to: its old position, if the list is as long.
Target(c, u) == IF u.at <= Len(c.locs) + 1 THEN u.at ELSE Len(c.locs) + 1

\* Mutant of Undone: the entry is appended and stays there.
UndoneLast(c, u) == ConfigAdd(c, u.loc)

\* The entry is appended and moved; if it was shown it becomes active again,
\* whatever current holds by now.
Undone(c, u) ==
    LET moved == ConfigMove(ConfigAdd(c, u.loc), Len(c.locs) + 1, Target(c, u))
    IN IF u.shown /\ ~c.geo THEN [moved EXCEPT !.active = Target(c, u)] ELSE moved

Undo ==
    LET c == Undone(cfg, undo) IN
    /\ ~filtering /\ undo.has /\ ~Full(cfg)
    /\ cfg' = c
    /\ list' = SelectIndex(Rebuilt(list, c), c, Target(cfg, undo))
    /\ undo' = NoUndo
    /\ origin' = << >>
    /\ UNCHANGED filtering

----------------------------------------------------------------------------
(* What is shown: the Current tab, the settings tab, and the key g         *)

ToggleGeo == /\ ~filtering
             /\ cfg' = IF cfg.geo THEN [cfg EXCEPT !.geo = FALSE] ELSE UseGeo(cfg)
             /\ KeepsUndo /\ UNCHANGED <<list, filtering>>

\* setting_reset of the switch: geolocation is on by default.
ResetGeoSetting == /\ ~filtering
                   /\ cfg' = UseGeo(cfg)
                   /\ KeepsUndo /\ UNCHANGED <<list, filtering>>

Matched(c) == [c EXCEPT !.active = ConfigMatchCurrent(c)]

\* action_edit_current: the dialog has no default field.
EditCurrent(place, units) ==
    /\ ~filtering
    /\ cfg' = Matched([cfg EXCEPT !.current = Entry(place, units, FALSE),
                                  !.geo = FALSE])
    /\ KeepsUndo /\ UNCHANGED <<list, filtering>>

CurrentUnits(units) ==
    LET c == [cfg EXCEPT !.current.units = units] IN
    /\ ~filtering
    /\ cfg' = IF Shown(c) = None THEN c
              ELSE [c EXCEPT !.locs[Shown(c)].units = units]
    /\ KeepsUndo /\ UNCHANGED <<list, filtering>>

----------------------------------------------------------------------------
(* The filter and the selection                                            *)

Lists(l) == list' = l /\ KeepsUndo /\ UNCHANGED cfg

\* Mutant of Clamped: the selection may leave the list at the top.
ClampedBelow(sel) == IF sel > Len(list.view) THEN Len(list.view) ELSE sel

Clamped(sel) == IF sel < 1 THEN 1
                ELSE IF sel > Len(list.view) THEN Len(list.view) ELSE sel

MovedSel(delta) == IF list.view = << >> THEN list
                   ELSE [list EXCEPT !.sel = Clamped(list.sel + delta)]

OpenFilter == ~filtering /\ filtering' = TRUE /\ Lists(list)

TypeFilter(filter) ==
    /\ filtering
    /\ Lists(Rebuilt([list EXCEPT !.filter = filter, !.sel = 1], cfg))
    /\ UNCHANGED filtering

\* Enter, or an arrow, which also moves the selection.
CloseFilter(delta) == filtering /\ filtering' = FALSE /\ Lists(MovedSel(delta))

\* Esc while the filter is typed, or afterwards.
ClearFilter == /\ filtering \/ list.filter # NoFilter
               /\ filtering' = FALSE
               /\ Lists(Rebuilt([list EXCEPT !.filter = NoFilter], cfg))

\* Keys, the wheel, Home and End are moves; a click selects any listed row.
MoveSel(delta) == ~filtering /\ Lists(MovedSel(delta)) /\ UNCHANGED filtering

\* A double click selects a row and shows its location.
ClickToUse(row) ==
    /\ ~filtering /\ row \in DOMAIN list.view
    /\ list' = [list EXCEPT !.sel = row]
    /\ cfg' = ConfigUse(cfg, list.view[row])
    /\ KeepsUndo /\ UNCHANGED filtering

----------------------------------------------------------------------------
(* Reloading, when the file is not the one last read or saved, or with the *)
(* key R: another program may have written any file, or none since the last *)
(* save.                                                                   *)

Reload ==
    \E file \in Files \cup {Saved(cfg)} :
      LET c == Loaded(file)
          l == Rebuilt(list, c)
      IN /\ cfg' = c
         /\ list' = IF Selected # None /\ InRange(c, Selected)
                    THEN SelectIndex(l, c, Selected) ELSE l
         /\ undo' = NoUndo
         /\ origin' = << >>
         /\ UNCHANGED filtering

----------------------------------------------------------------------------

EditsTheList ==
    \/ \E place \in Place, units \in Units, isDefault, saved \in BOOLEAN :
         Add(place, units, isDefault, saved)
    \/ \E place \in Place, units \in Units, isDefault \in BOOLEAN :
         Edit(place, units, isDefault)
    \/ \E units \in Units : EditUnits(units)
    \/ Default
    \/ \E dir \in {-1, 1} : Move(dir)
    \/ Delete
    \/ Undo

EditsWhatIsShown ==
    \/ Use
    \/ \E row \in 1 .. MaxLocations : ClickToUse(row)
    \/ ToggleGeo
    \/ ResetGeoSetting
    \/ \E place \in Place, units \in Units : EditCurrent(place, units)
    \/ \E units \in Units : CurrentUnits(units)

Looks == \/ OpenFilter
         \/ \E filter \in Filter \cup {NoFilter} : TypeFilter(filter)
         \/ \E delta \in {-1, 0, 1} : CloseFilter(delta)
         \/ ClearFilter
         \/ \E delta \in {-1, 1} : MoveSel(delta)

Next == EditsTheList \/ EditsWhatIsShown \/ Looks \/ Reload

Spec == Init /\ [][Next]_vars

----------------------------------------------------------------------------
(* Properties                                                              *)

\* The record, the list, the undo buffer and the history keep their types.
TypeOK == /\ cfg \in Config
          /\ list \in [filter : Filter \cup {NoFilter},
                       view : Seq(1 .. MaxLocations), sel : Nat \ {0}]
          /\ filtering \in BOOLEAN
          /\ undo \in [has : BOOLEAN, loc : Location, at : 1 .. MaxLocations,
                       shown : BOOLEAN]
          /\ origin \in Seq(0 .. MaxLocations)

\* Whatever is added, edited, moved, deleted and restored, the record has at
\* most one default, at most MaxLocations entries and an active index inside
\* the list (action_edit, action_undo, add_location).
RecordIsWellFormed ==
    /\ OneDefault(cfg)
    /\ Len(cfg.locs) <= MaxLocations
    /\ cfg.active = None \/ InRange(cfg, cfg.active)

\* The rows on the screen are the entries that pass the filter, in order, and
\* the selected row is one of them: no key acts on an entry that is gone or
\* another one than the highlighted.  Only a tail of entries whose save failed
\* may be missing (add_location returns before rebuild_view).
ViewIsValid ==
    /\ IsPrefix(list.view, Passing(cfg, list.filter))
    /\ \/ list.sel \in DOMAIN list.view
       \/ list.view = << >> /\ list.sel = 1

\* After an entry is edited, moved or restored, the selection is on it, also
\* when its new fields no longer pass the filter (select_index).
SelectionFollows ==
    [][ /\ Selected' # Selected =>
             \A p \in Place, u \in Units, d \in BOOLEAN : ~Edit(p, u, d)
        /\ \A dir \in {-1, 1} : Move(dir) => Selected' = Selected + dir
        /\ Undo => Selected' = Target(cfg, undo) ]_vars

\* Deleting and undoing at once gives back the list, what is shown of it and
\* the default, from wherever the entry was deleted (action_undo).
DeleteIsUndone ==
    [][ Delete => LET back == Undone(cfg', undo') IN
          /\ back.locs = cfg.locs
          /\ back.current = cfg.current
          /\ Shown(back) = Shown(cfg) ]_vars

\* However the list was added to and edited since the deletion, undoing puts
\* the entry between the neighbours it had (undo is dropped by a move).
UndoRestoresOrder ==
    [][ Undo =>
        LET restored == InsertAt(origin, Target(cfg, undo), undo.at)
            old      == {k \in DOMAIN restored : restored[k] # 0}
        IN /\ \A j, k \in old : j < k => restored[j] < restored[k]
           /\ \E n \in 0 .. Len(restored) :
                {restored[k] : k \in old} = 1 .. n ]_vars

\* The active index names the location in current, and is None while
\* geolocation overrides current (config.h:57).
Consistent(c) == ActiveIsCurrent(c) /\ (c.active # None => ~c.geo)

\* No key makes a consistent record inconsistent, except undoing the deletion
\* of the location that was shown after current has moved to another place
\* (action_undo does not compare the two).  A file that is inconsistent when
\* it is read stays so until the active index is next set.
EditsStayConsistent ==
    [][ Consistent(cfg) /\ ~Consistent(cfg') =>
          \/ Reload
          \/ Undo /\ undo.shown /\ ~SamePlace(undo.loc, cfg.current) ]_vars
=============================================================================
