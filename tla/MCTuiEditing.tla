---------------------------- MODULE MCTuiEditing ----------------------------
(***************************************************************************)
(* Files for TuiEditing to open and to reload.                             *)
(***************************************************************************)
EXTENDS TuiEditing

At(place, isDefault) == Entry(place, DefaultUnits, isDefault)

File(place, active, geo, locs) ==
    [current |-> At(place, FALSE), active |-> active, geo |-> geo,
     geoSlot |-> TRUE, locs |-> locs]

MCFiles == {
    Defaults,
    \* What a command leaves.
    File(0, 1, FALSE, << At(0, FALSE), At(3, TRUE) >>),
    \* Migrated: an active index, and geolocation on.
    File(0, 1, TRUE, << At(0, FALSE) >>),
    \* By hand: an index that names another location than current ...
    File(0, 1, FALSE, << At(3, FALSE), At(0, FALSE) >>),
    \* ... and a list that is too long, with two defaults.
    File(3, 4, FALSE, << At(0, TRUE), At(3, TRUE), At(0, FALSE), At(3, FALSE) >>) }
=============================================================================
