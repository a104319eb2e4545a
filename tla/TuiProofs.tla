----------------------------- MODULE TuiProofs -----------------------------
(***************************************************************************)
(* Proofs about TuiEditing, for every limit on the list, every set of      *)
(* places, units and filters, and every positive tolerance.                *)
(*                                                                         *)
(* What the operations of the record keep is proved in ConfigProofs.  Its  *)
(* lemmas are used through the instance Cmd, in which the record in memory *)
(* is the file and nothing is rounded (a grid of 1); the first section     *)
(* brings them over to the operators of TuiEditing.  The second is about   *)
(* the list on the screen, the third states the inductive invariant, the   *)
(* fourth has one lemma per action or group of actions, and the last one   *)
(* the theorems.                                                           *)
(***************************************************************************)
EXTENDS TuiEditing, SequenceTheorems, TLAPS

Cmd == INSTANCE ConfigProofs WITH file <- cfg, author <- "program",
                                  LegacyEntries <- 0, Grid <- 1

\* A record as the TUI keeps it, whatever file it read.
WellFormed(c) == /\ OneDefault(c)
                 /\ Len(c.locs) <= MaxLocations
                 /\ c.active = None \/ InRange(c, c.active)

Good(c) == c \in Config /\ WellFormed(c)

----------------------------------------------------------------------------
(* The operations of the record, from ConfigProofs                         *)

\* With a grid of 1 every coordinate is on the grid.
LEMMA UnitGrid == \A place \in Int : Cmd!RoundCoord(place) = place
  <1>1. ASSUME NEW n \in Nat
        PROVE  1 * ((2 * n + 1) \div (2 * 1)) = n
    OBVIOUS
  <1>2. ASSUME NEW place \in Int
        PROVE  Cmd!RoundCoord(place) = place
    <2>1. CASE place < 0
      <3>1. 1 * ((2 * (-place) + 1) \div (2 * 1)) = -place
        BY <1>1, <2>1
      <3> QED
        BY <2>1, <3>1 DEF Cmd!RoundCoord
    <2>2. CASE ~(place < 0)
      <3>1. 1 * ((2 * place + 1) \div (2 * 1)) = place
        BY <1>1, <2>2
      <3> QED
        BY <2>2, <3>1 DEF Cmd!RoundCoord
    <2> QED
      BY <2>1, <2>2
  <1> QED
    BY <1>2

\* What the instance assumes of the constants.
LEMMA CmdAssumptions ==
    /\ Place \subseteq Int /\ Origin \in Place
    /\ Tolerance \in Nat \ {0}
    /\ /\ 1 \in Nat \ {0}
       /\ \A place \in Place : Cmd!RoundCoord(place) \in Place
       /\ Cmd!RoundCoord(Origin) = Origin
    /\ DefaultUnits \in Units
    /\ MaxLocations \in Nat \ {0}
  BY UnitGrid, PlaceAssumption, ToleranceAssumption, UnitsAssumption, LimitAssumption

\* The words of the instance mean what they mean here.
LEMMA SameWords ==
    /\ Cmd!Location = Location
    /\ Cmd!Config = Config
    /\ \A c : Cmd!Good(c) <=> Good(c)
    /\ \A c : Good(c) => (Cmd!Tracks(c) <=> Consistent(c))
    /\ \A c : Cmd!Full(c) <=> Full(c)
  <1>1. Cmd!Location = Location
    BY DEF Cmd!Location, Location
  <1>2. Cmd!Config = Config
    BY <1>1 DEF Cmd!Config, Config
  <1>3. ASSUME NEW c
        PROVE  /\ Cmd!Good(c) <=> Good(c)
               /\ Cmd!Full(c) <=> Full(c)
    BY <1>2 DEF Cmd!Good, Cmd!WellFormed, Cmd!OneDefault, Cmd!InRange, Cmd!None,
                Cmd!Full, Good, WellFormed, OneDefault, InRange, None, Full
  <1>4. ASSUME NEW c, Good(c)
        PROVE  Cmd!Tracks(c) <=> Consistent(c)
    <2>1. /\ c.current.place \in Int
          /\ InRange(c, c.active) => c.locs[c.active].place \in Int
      <3>1. c.current \in Location /\ c.locs \in Seq(Location)
        BY <1>4 DEF Good, Config
      <3>2. ASSUME NEW loc \in Location
            PROVE  loc.place \in Int
        BY PlaceAssumption DEF Location
      <3>3. InRange(c, c.active) => c.locs[c.active] \in Location
        BY <3>1 DEF InRange
      <3> QED
        BY <3>1, <3>2, <3>3
    <2>2. InRange(c, c.active) =>
            (Cmd!Close(c.locs[c.active].place, c.current.place)
               <=> SamePlace(c.locs[c.active], c.current))
      BY <2>1, UnitGrid DEF Cmd!Close, SamePlace
    <2> QED
      BY <2>2 DEF Cmd!Tracks, Cmd!ActiveIsClose, Cmd!InRange, Cmd!None, InRange,
                  None, Consistent, ActiveIsCurrent
  <1> QED
    BY <1>1, <1>2, <1>3, <1>4

\* config_add, for a list with room.
LEMMA AddKeeps ==
    ASSUME NEW c, Good(c), ~Full(c), NEW loc \in Location,
           NEW d, d = ConfigAdd(c, loc)
    PROVE  /\ Good(d)
           /\ Len(d.locs) = Len(c.locs) + 1
           /\ d.current = c.current /\ d.active = c.active /\ d.geo = c.geo
           /\ Consistent(c) => Consistent(d)
  <1>1. c \in Config
    BY DEF Good
  <1>2. d = Cmd!ConfigAdd(c, loc)
    BY DEF ConfigAdd, Mark, Cmd!ConfigAdd, Cmd!Mark
  <1>3. /\ Cmd!Good(d)
        /\ Len(d.locs) = Len(c.locs) + 1
        /\ Cmd!Tracks(c) => Cmd!Tracks(d)
    BY <1>2, SameWords, Cmd!AddMaintains, CmdAssumptions
  <1>4. d.current = c.current /\ d.active = c.active /\ d.geo = c.geo
    BY <1>1 DEF ConfigAdd, Config
  <1> QED
    BY <1>3, <1>4, SameWords

\* config_remove.
LEMMA RemoveKeeps ==
    ASSUME NEW c, Good(c), NEW i \in 1 .. Len(c.locs),
           NEW d, d = ConfigRemove(c, i)
    PROVE  /\ Good(d)
           /\ Len(d.locs) = Len(c.locs) - 1
           /\ \A k \in 1 .. Len(c.locs) - 1 :
                d.locs[k] = c.locs[IF k < i THEN k ELSE k + 1]
           /\ d.current = c.current /\ d.geo = c.geo
           /\ d.active = AfterRemoval(c.active, i)
           /\ Consistent(c) => Consistent(d)
  <1>1. d = Cmd!ConfigRemove(c, i)
    BY DEF ConfigRemove, RemoveAt, AfterRemoval, None,
           Cmd!ConfigRemove, Cmd!RemoveAt, Cmd!AfterRemoval, Cmd!None
  <1>2. AfterRemoval(c.active, i) = Cmd!AfterRemoval(c.active, i)
    BY DEF AfterRemoval, None, Cmd!AfterRemoval, Cmd!None
  <1>3. /\ Cmd!Good(d)
        /\ Cmd!Tracks(c) => Cmd!Tracks(d)
    BY <1>1, SameWords, Cmd!RemoveMaintains, CmdAssumptions
  <1>4. /\ Len(d.locs) = Len(c.locs) - 1
        /\ \A k \in 1 .. Len(c.locs) - 1 : d.locs[k] = c.locs[Cmd!After(i, k)]
        /\ d.active = AfterRemoval(c.active, i)
        /\ d.current = c.current /\ d.geo = c.geo
    BY <1>1, <1>2, SameWords, Cmd!RemoveElements, CmdAssumptions
  <1> QED
    BY <1>3, <1>4, SameWords DEF Cmd!After

\* config_use shows the entry, also when there are others at its place.
LEMMA UseKeeps ==
    ASSUME NEW c, Good(c), NEW i \in 1 .. Len(c.locs),
           NEW d, d = ConfigUse(c, i)
    PROVE  Good(d) /\ d.locs = c.locs /\ Consistent(d) /\ d.active = i
  <1>1. d = Cmd!ConfigUse(c, i)
    BY DEF ConfigUse, AsCurrent, Cmd!ConfigUse, Cmd!AsCurrent
  <1>2. Cmd!Good(d) /\ Cmd!Tracks(d)
    BY <1>1, SameWords, Cmd!UseMaintains, CmdAssumptions
  <1>3. d.locs = c.locs /\ d.active = i
    BY DEF ConfigUse, Good, Config
  <1> QED
    BY <1>2, <1>3, SameWords

\* Geolocation switched on.
LEMMA UseGeoKeeps ==
    ASSUME NEW c, Good(c), NEW d, d = UseGeo(c)
    PROVE  Good(d) /\ d.locs = c.locs /\ Consistent(d)
  <1>1. d = Cmd!UseGeo(c)
    BY DEF UseGeo, None, Cmd!UseGeo, Cmd!None
  <1>2. Cmd!Good(d) /\ Cmd!Tracks(d)
    BY <1>1, SameWords, Cmd!UseGeoMaintains, CmdAssumptions
  <1>3. d.locs = c.locs
    BY DEF UseGeo, Good, Config
  <1> QED
    BY <1>2, <1>3, SameWords

\* config_set_default leaves one default of however many there were.
LEMMA SetDefaultKeeps ==
    ASSUME NEW c \in Config, Len(c.locs) <= MaxLocations,
           c.active = None \/ InRange(c, c.active),
           NEW i \in Nat, NEW d, d = ConfigSetDefault(c, i)
    PROVE  /\ Good(d)
           /\ Len(d.locs) = Len(c.locs)
           /\ \A j \in 1 .. Len(c.locs) : d.locs[j].place = c.locs[j].place
           /\ d.current = c.current /\ d.active = c.active /\ d.geo = c.geo
           /\ Consistent(c) => Consistent(d)
  <1>1. PICK locs : locs = Mark(c.locs, i)
    OBVIOUS
  <1>2. c.locs \in Seq(Location)
    BY DEF Config
  <1>3. locs = Cmd!Mark(c.locs, i)
    BY <1>1 DEF Mark, Cmd!Mark
  <1>4. /\ locs \in Seq(Location)
        /\ Len(locs) = Len(c.locs)
        /\ \A j \in 1 .. Len(c.locs) : /\ locs[j].place = c.locs[j].place
                                       /\ locs[j].isDefault <=> (j = i)
    BY <1>2, <1>3, SameWords, Cmd!MarkElements, CmdAssumptions
  <1>5. d = [c EXCEPT !.locs = locs]
    BY <1>1 DEF ConfigSetDefault
  <1>6. /\ d \in Config /\ d.locs = locs
        /\ d.current = c.current /\ d.active = c.active /\ d.geo = c.geo
    BY <1>4, <1>5 DEF Config
  <1>7. OneDefault(d)
    BY <1>4, <1>6 DEF OneDefault
  <1>8. Good(d)
    BY <1>4, <1>6, <1>7 DEF Good, WellFormed, InRange
  <1> QED
    BY <1>4, <1>6, <1>8 DEF Consistent, ActiveIsCurrent, SamePlace, InRange

\* An entry replaced by one with the same flag, as a change of units does.
LEMMA EntryKeeps ==
    ASSUME NEW c, Good(c), NEW i \in 1 .. Len(c.locs),
           NEW entry \in Location, entry.isDefault = c.locs[i].isDefault,
           entry.place = c.locs[i].place,
           NEW d, d = [c EXCEPT !.locs = [c.locs EXCEPT ![i] = entry]]
    PROVE  /\ Good(d)
           /\ Len(d.locs) = Len(c.locs)
           /\ \A j \in 1 .. Len(c.locs) : d.locs[j].place = c.locs[j].place
           /\ Consistent(c) => Consistent(d)
  <1>1. c.locs \in Seq(Location)
    BY DEF Good, Config
  <1>2. /\ Cmd!Good(d)
        /\ d.locs = [c.locs EXCEPT ![i] = entry]
        /\ d.active = c.active /\ d.geo = c.geo
        /\ Cmd!Tracks(c) => Cmd!Tracks(d)
    BY <1>1, SameWords, Cmd!EntryMaintains, CmdAssumptions
  <1> QED
    BY <1>1, <1>2, SameWords

\* The match of current is a position of the list, at the place of current;
\* it is the active index if that is on current.
LEMMA MatchElements ==
    ASSUME NEW c \in Config
    PROVE  /\ ConfigMatchCurrent(c) \in 0 .. Len(c.locs)
           /\ ConfigMatchCurrent(c) # None =>
                SamePlace(c.locs[ConfigMatchCurrent(c)], c.current)
           /\ Consistent(c) /\ c.active # None =>
                ConfigMatchCurrent(c) = c.active
           /\ Len(c.locs) \in Nat
  <1>1. ConfigMatchCurrent(c) = Cmd!ConfigMatchCurrent(c)
    BY DEF ConfigMatchCurrent, InRange, SamePlace, SelectInSeq, Min,
           Cmd!ConfigMatchCurrent, Cmd!InRange, Cmd!SamePlace, Cmd!SelectInSeq,
           Cmd!Min
  <1>2. /\ Cmd!ConfigMatchCurrent(c) \in 0 .. Len(c.locs)
        /\ Cmd!ConfigMatchCurrent(c) # Cmd!None =>
             Cmd!SamePlace(c.locs[Cmd!ConfigMatchCurrent(c)], c.current)
    BY SameWords, Cmd!MatchRange, CmdAssumptions
  <1>3. /\ ConfigMatchCurrent(c) \in 0 .. Len(c.locs)
        /\ ConfigMatchCurrent(c) # None =>
             SamePlace(c.locs[ConfigMatchCurrent(c)], c.current)
    BY <1>1, <1>2 DEF None, Cmd!None, SamePlace, Cmd!SamePlace
  <1>4. Consistent(c) /\ c.active # None => ConfigMatchCurrent(c) = c.active
    BY DEF Consistent, ActiveIsCurrent, ConfigMatchCurrent
  <1> QED
    BY <1>3, <1>4 DEF Config

\* So the active index of a consistent record is what is shown.
LEMMA ShownElements ==
    ASSUME NEW c, Good(c)
    PROVE  /\ Shown(c) \in 0 .. Len(c.locs)
           /\ Len(c.locs) \in Nat
           /\ Consistent(c) /\ c.active # None => Shown(c) = c.active
  BY MatchElements DEF Shown, None, Good, Consistent

\* parse_v3 makes a good record of every file.
LEMMA LoadedKeeps ==
    ASSUME NEW f \in Config, NEW d, d = Loaded(f)
    PROVE  Good(d)
  <1>1. d = Cmd!Loaded(f)
    BY DEF Loaded, LastDefault, SelectLastInSeq, Max, Mark, None, Cmd!Loaded,
           Cmd!LastDefault, Cmd!SelectLastInSeq, Cmd!Max, Cmd!Mark, Cmd!None
  <1>2. Cmd!Good(d)
    BY <1>1, SameWords, Cmd!LoadedIsGood, CmdAssumptions
  <1> QED
    BY <1>2, SameWords

\* config_to_json writes a record that is one again when it is read.
LEMMA SavedIsConfig ==
    ASSUME NEW c \in Config
    PROVE  Saved(c) \in Config
  <1>1. ASSUME NEW loc \in Location
        PROVE  SavedLocation(loc) \in Location /\ AsCurrent(loc) \in Location
    <2>1. RoundCoord(loc.place) \in Place
      BY GridAssumption DEF Location
    <2> HIDE DEF RoundCoord
    <2> QED
      BY <2>1 DEF SavedLocation, AsCurrent, Location
  <1>2. PICK now : now = AsCurrent(SavedLocation(c.current))
    OBVIOUS
  <1>3. PICK locs : locs = [i \in DOMAIN c.locs |-> SavedLocation(c.locs[i])]
    OBVIOUS
  <1>4. now \in Location
    BY <1>1, <1>2 DEF Config
  <1>5. locs \in Seq(Location)
    <2>1. c.locs \in Seq(Location) /\ Len(c.locs) \in Nat
          /\ DOMAIN c.locs = 1 .. Len(c.locs)
      BY DEF Config
    <2>2. \A i \in 1 .. Len(c.locs) : SavedLocation(c.locs[i]) \in Location
      BY <1>1, <2>1
    <2> HIDE DEF SavedLocation
    <2> QED
      BY <1>3, <2>1, <2>2
  <1>6. PICK m : m = [c EXCEPT !.current = now]
    OBVIOUS
  <1>7. m \in Config
    BY <1>4, <1>6 DEF Config
  <1>8. Saved(c) = [m EXCEPT !.locs = locs]
    BY <1>2, <1>3, <1>6 DEF Saved
  <1> QED
    BY <1>5, <1>7, <1>8 DEF Config

\* A new current location, with the active index looked up for it.
LEMMA LookupKeeps ==
    ASSUME NEW c, Good(c), NEW now \in Config, now.locs = c.locs,
           now.geo = FALSE, NEW d, d = Matched(now)
    PROVE  Good(d) /\ d.locs = c.locs /\ Consistent(d)
  <1>1. PICK m : m = ConfigMatchCurrent(now)
    OBVIOUS
  <1>2. /\ m \in 0 .. Len(c.locs) /\ Len(c.locs) \in Nat
        /\ m # None => SamePlace(c.locs[m], now.current)
    BY <1>1, MatchElements
  <1>3. d = [now EXCEPT !.active = m]
    BY <1>1 DEF Matched
  <1>4. /\ d \in Config /\ d.locs = c.locs /\ d.geo = FALSE
        /\ d.current = now.current /\ d.active = m
    BY <1>2, <1>3 DEF Config
  <1> QED
    BY <1>2, <1>4 DEF Good, WellFormed, OneDefault, Consistent, ActiveIsCurrent,
                      InRange, None

\* An element put before position i of a sequence.
LEMMA InsertAtElements ==
    ASSUME NEW S, NEW s \in Seq(S), NEW i \in 1 .. Len(s) + 1, NEW e \in S
    PROVE  /\ InsertAt(s, i, e) \in Seq(S)
           /\ Len(InsertAt(s, i, e)) = Len(s) + 1
           /\ \A k \in 1 .. Len(s) + 1 :
                InsertAt(s, i, e)[k] =
                  IF k < i THEN s[k] ELSE IF k = i THEN e ELSE s[k - 1]
  <1> DEFINE a == SubSeq(s, 1, i - 1)
             b == SubSeq(s, i, Len(s))
             front == a \o <<e>>
  <1>1. /\ a \in Seq(S) /\ Len(a) = i - 1
        /\ \A k \in 1 .. i - 1 : a[k] = s[k]
    OBVIOUS
  <1>2. /\ b \in Seq(S) /\ Len(b) = Len(s) - i + 1
        /\ \A k \in 1 .. Len(s) - i + 1 : b[k] = s[i + k - 1]
    OBVIOUS
  <1>3. InsertAt(s, i, e) = front \o b
    BY DEF InsertAt
  <1>4. /\ front \in Seq(S) /\ Len(front) = i
        /\ \A k \in 1 .. i : front[k] = IF k < i THEN s[k] ELSE e
    <2> HIDE DEF a
    <2>1. /\ <<e>> \in Seq(S) /\ Len(<<e>>) = 1 /\ <<e>>[1] = e
      OBVIOUS
    <2>2. /\ front \in Seq(S) /\ Len(front) = Len(a) + 1
          /\ \A k \in 1 .. Len(a) + 1 :
               front[k] = IF k <= Len(a) THEN a[k] ELSE <<e>>[k - Len(a)]
      BY <1>1, <2>1, ConcatProperties
    <2> HIDE DEF front
    <2> QED
      BY <1>1, <2>1, <2>2
  <1> HIDE DEF a, b, front
  <1>5. /\ front \o b \in Seq(S)
        /\ Len(front \o b) = Len(front) + Len(b)
        /\ \A k \in 1 .. Len(front) + Len(b) :
             (front \o b)[k] = IF k <= Len(front) THEN front[k]
                               ELSE b[k - Len(front)]
    BY <1>2, <1>4, ConcatProperties
  <1>6. Len(s) \in Nat
    OBVIOUS
  <1> QED
    BY <1>2, <1>3, <1>4, <1>5, <1>6

\* The sequence without one element.
LEMMA RemoveAtIs ==
    ASSUME NEW S, NEW s \in Seq(S), NEW i \in 1 .. Len(s)
    PROVE  /\ RemoveAt(s, i) \in Seq(S)
           /\ Len(RemoveAt(s, i)) = Len(s) - 1
           /\ \A k \in 1 .. Len(s) - 1 :
                RemoveAt(s, i)[k] = s[IF k < i THEN k ELSE k + 1]
  <1>1. RemoveAt(s, i) = Cmd!RemoveAt(s, i)
    BY DEF RemoveAt, Cmd!RemoveAt
  <1>2. /\ Cmd!RemoveAt(s, i) \in Seq(S)
        /\ Len(Cmd!RemoveAt(s, i)) = Len(s) - 1
        /\ \A k \in 1 .. Len(s) - 1 :
             Cmd!RemoveAt(s, i)[k] = IF k < i THEN s[k] ELSE s[k + 1]
    BY Cmd!RemoveAtElements, CmdAssumptions
  <1> QED
    BY <1>1, <1>2

\* Where the element at position k was before a move.
Before(from, to, k) ==
    IF k = to THEN from
    ELSE IF k < to THEN (IF k < from THEN k ELSE k + 1)
    ELSE (IF k - 1 < from THEN k - 1 ELSE k)

\* A move within a sequence permutes it.
LEMMA ShiftElements ==
    ASSUME NEW S, NEW s \in Seq(S), NEW from \in 1 .. Len(s), NEW to \in 1 .. Len(s),
           NEW t, t = Shift(s, from, to)
    PROVE  /\ t \in Seq(S) /\ Len(t) = Len(s)
           /\ \A k \in 1 .. Len(s) : Before(from, to, k) \in 1 .. Len(s)
           /\ \A k \in 1 .. Len(s) : t[k] = s[Before(from, to, k)]
  <1>1. PICK rest : rest = RemoveAt(s, from)
    OBVIOUS
  <1>2. /\ rest \in Seq(S) /\ Len(rest) = Len(s) - 1
        /\ \A k \in 1 .. Len(s) - 1 : rest[k] = s[IF k < from THEN k ELSE k + 1]
    BY <1>1, RemoveAtIs
  <1>3. Len(s) \in Nat /\ s[from] \in S /\ to \in 1 .. Len(rest) + 1
    BY <1>2
  <1>4. t = InsertAt(rest, to, s[from])
    BY <1>1 DEF Shift
  <1>5. /\ t \in Seq(S) /\ Len(t) = Len(rest) + 1
        /\ \A k \in 1 .. Len(rest) + 1 :
             t[k] = IF k < to THEN rest[k] ELSE IF k = to THEN s[from] ELSE rest[k - 1]
    <2>1. PICK e : e = s[from]
      OBVIOUS
    <2>2. rest \in Seq(S) /\ e \in S /\ to \in 1 .. Len(rest) + 1
      BY <1>2, <1>3, <2>1
    <2>3. t = InsertAt(rest, to, e)
      BY <1>4, <2>1
    <2>4. /\ InsertAt(rest, to, e) \in Seq(S)
          /\ Len(InsertAt(rest, to, e)) = Len(rest) + 1
          /\ \A k \in 1 .. Len(rest) + 1 :
               InsertAt(rest, to, e)[k] =
                 IF k < to THEN rest[k] ELSE IF k = to THEN e ELSE rest[k - 1]
      BY <2>2, InsertAtElements
    <2> QED
      BY <2>1, <2>3, <2>4
  <1>6. ASSUME NEW k \in 1 .. Len(s)
        PROVE  Before(from, to, k) \in 1 .. Len(s) /\ t[k] = s[Before(from, to, k)]
    <2>1. Before(from, to, k) \in 1 .. Len(s)
      BY <1>3 DEF Before
    <2>2. t[k] = IF k < to THEN rest[k] ELSE IF k = to THEN s[from] ELSE rest[k - 1]
      BY <1>2, <1>3, <1>5
    <2>3. k < to => rest[k] = s[IF k < from THEN k ELSE k + 1]
      BY <1>2, <1>3
    <2>4. k > to => rest[k - 1] = s[IF k - 1 < from THEN k - 1 ELSE k]
      BY <1>2, <1>3
    <2> QED
      BY <1>3, <2>1, <2>2, <2>3, <2>4 DEF Before
  <1> QED
    BY <1>2, <1>3, <1>5, <1>6

LEMMA ShiftedLocs ==
    ASSUME NEW c \in Config, NEW from \in 1 .. Len(c.locs), NEW to \in 1 .. Len(c.locs)
    PROVE  /\ Shift(c.locs, from, to) \in Seq(Location)
           /\ Len(Shift(c.locs, from, to)) = Len(c.locs)
           /\ \A k \in 1 .. Len(c.locs) :
                /\ Before(from, to, k) \in 1 .. Len(c.locs)
                /\ Shift(c.locs, from, to)[k] = c.locs[Before(from, to, k)]
  <1>1. c.locs \in Seq(Location)
    BY DEF Config
  <1>2. PICK t : t = Shift(c.locs, from, to)
    OBVIOUS
  <1>3. /\ t \in Seq(Location) /\ Len(t) = Len(c.locs)
        /\ \A k \in 1 .. Len(c.locs) : Before(from, to, k) \in 1 .. Len(c.locs)
        /\ \A k \in 1 .. Len(c.locs) : t[k] = c.locs[Before(from, to, k)]
    BY <1>1, <1>2, ShiftElements
  <1> QED
    BY <1>2, <1>3

\* The active index stays on current while its location stays where it is.
LEMMA StillCurrent ==
    ASSUME NEW c, NEW d, d.current = c.current, d.geo = c.geo,
           d.active # None => /\ c.active # None
                              /\ InRange(d, d.active)
                              /\ d.locs[d.active].place = c.locs[c.active].place
    PROVE  Consistent(c) => Consistent(d)
  BY DEF Consistent, ActiveIsCurrent, SamePlace

\* config_move takes the active index along with its location.
LEMMA MoveKeeps ==
    ASSUME NEW c, Good(c), NEW from \in 1 .. Len(c.locs), NEW to \in 1 .. Len(c.locs),
           NEW d, d = ConfigMove(c, from, to)
    PROVE  /\ Good(d)
           /\ Len(d.locs) = Len(c.locs)
           /\ \A k \in 1 .. Len(c.locs) : d.locs[k] = c.locs[Before(from, to, k)]
           /\ d.current = c.current /\ d.geo = c.geo
           /\ d.active = AfterMove(c.active, from, to)
           /\ Consistent(c) => Consistent(d)
  <1>1. /\ c.locs \in Seq(Location) /\ Len(c.locs) \in Nat
        /\ c.active \in Nat /\ c.active <= Len(c.locs)
    BY DEF Good, Config, WellFormed, InRange, None
  <1>2. PICK locs : locs = Shift(c.locs, from, to)
    OBVIOUS
  <1>3. PICK active : active = AfterMove(c.active, from, to)
    OBVIOUS
  <1>4. /\ locs \in Seq(Location) /\ Len(locs) = Len(c.locs)
        /\ \A k \in 1 .. Len(c.locs) : /\ Before(from, to, k) \in 1 .. Len(c.locs)
                                       /\ locs[k] = c.locs[Before(from, to, k)]
    <2>1. c \in Config
      BY DEF Good
    <2>2. /\ Shift(c.locs, from, to) \in Seq(Location)
          /\ Len(Shift(c.locs, from, to)) = Len(c.locs)
          /\ \A k \in 1 .. Len(c.locs) :
               /\ Before(from, to, k) \in 1 .. Len(c.locs)
               /\ Shift(c.locs, from, to)[k] = c.locs[Before(from, to, k)]
      BY <2>1, ShiftedLocs
    <2> QED
      BY <1>2, <2>2
  <1>5. /\ active \in 0 .. Len(c.locs)
        /\ active = None <=> c.active = None
        /\ active # None => Before(from, to, active) = c.active
    BY <1>1, <1>3 DEF AfterMove, Before, None
  <1>6. d = [c EXCEPT !.locs = locs, !.active = active]
    BY <1>2, <1>3 DEF ConfigMove, Shift
  <1>7. /\ d \in Config /\ d.locs = locs /\ d.active = active
        /\ d.current = c.current /\ d.geo = c.geo
    <2>1. PICK e : e = [c EXCEPT !.locs = locs]
      OBVIOUS
    <2>2. /\ e \in Config /\ e.locs = locs /\ e.current = c.current
          /\ e.geo = c.geo
      BY <1>4, <2>1 DEF Good, Config
    <2>3. d = [e EXCEPT !.active = active]
      BY <1>6, <2>1
    <2> QED
      BY <1>1, <1>5, <2>2, <2>3 DEF Config
  <1>8. OneDefault(d)
    <2>1. ASSUME NEW j \in 1 .. Len(c.locs), NEW k \in 1 .. Len(c.locs),
                 locs[j].isDefault, locs[k].isDefault
          PROVE  j = k
      <3>1. Before(from, to, j) = Before(from, to, k)
        <4>1. \A x, y \in 1 .. Len(c.locs) :
                c.locs[x].isDefault /\ c.locs[y].isDefault => x = y
          BY Zenon DEF Good, WellFormed, OneDefault
        <4>2. PICK x : x = Before(from, to, j)
          OBVIOUS
        <4>3. PICK y : y = Before(from, to, k)
          OBVIOUS
        <4>4. /\ x \in 1 .. Len(c.locs) /\ locs[j] = c.locs[x]
              /\ y \in 1 .. Len(c.locs) /\ locs[k] = c.locs[y]
          BY <1>4, <4>2, <4>3, Zenon
        <4>5. c.locs[x].isDefault /\ c.locs[y].isDefault
          BY <2>1, <4>4, Zenon
        <4>6. x = y
          BY <4>1, <4>4, <4>5, Zenon
        <4> QED
          BY <4>2, <4>3, <4>6
      <3> QED
        BY <1>1, <3>1 DEF Before
    <2> QED
      BY <2>1, <1>4, <1>7 DEF OneDefault
  <1>9. Consistent(c) => Consistent(d)
    <2>1. ASSUME active # None
          PROVE  locs[active] = c.locs[c.active]
      <3>1. active \in 1 .. Len(c.locs) /\ Before(from, to, active) = c.active
        BY <2>1, <1>1, <1>5 DEF None
      <3>2. locs[active] = c.locs[Before(from, to, active)]
        BY <3>1, <1>4
      <3> QED
        BY <3>1, <3>2
    <2>2. d.active # None => d.active \in 1 .. Len(d.locs)
      BY <1>1, <1>4, <1>5, <1>7 DEF None
    <2> QED
      BY <1>5, <1>7, <2>1, <2>2, StillCurrent, Zenon DEF InRange
  <1> QED
    BY <1>3, <1>4, <1>5, <1>7, <1>8, <1>9
       DEF Good, WellFormed, InRange, None

----------------------------------------------------------------------------
(* The list on the screen                                                  *)

List == [filter : Filter \cup {NoFilter}, view : Seq(1 .. MaxLocations),
         sel : Nat \ {0}]

\* ViewIsValid, of any list and record.
Valid(l, c) == /\ IsPrefix(l.view, Passing(c, l.filter))
               /\ \/ l.sel \in DOMAIN l.view
                  \/ l.view = << >> /\ l.sel = 1

\* Being a prefix, in terms of elements.
LEMMA PrefixElements ==
    ASSUME NEW S, NEW s \in Seq(S), NEW t \in Seq(S)
    PROVE  IsPrefix(s, t) <=> /\ Len(s) <= Len(t)
                              /\ \A k \in 1 .. Len(s) : s[k] = t[k]
  <1>1. SubSeq(s, 1, Len(s)) = s
    OBVIOUS
  <1>2. ASSUME Len(s) <= Len(t)
        PROVE  /\ SubSeq(t, 1, Len(s)) \in Seq(S)
               /\ Len(SubSeq(t, 1, Len(s))) = Len(s)
               /\ \A k \in 1 .. Len(s) : SubSeq(t, 1, Len(s))[k] = t[k]
    BY <1>2
  <1>3. ASSUME Len(s) <= Len(t), \A k \in 1 .. Len(s) : s[k] = t[k]
        PROVE  SubSeq(t, 1, Len(s)) = s
    <2>1. PICK u : u = SubSeq(t, 1, Len(s))
      OBVIOUS
    <2>2. u \in Seq(S) /\ Len(u) = Len(s) /\ \A k \in 1 .. Len(u) : u[k] = s[k]
      BY <1>2, <1>3, <2>1
    <2> QED
      BY <2>1, <2>2, SeqEqual
  <1>4. ASSUME Len(s) <= Len(t), SubSeq(t, 1, Len(s)) = s
        PROVE  \A k \in 1 .. Len(s) : s[k] = t[k]
    BY <1>2, <1>4
  <1> QED
    BY <1>1, <1>3, <1>4 DEF IsPrefix

\* The entries that pass a filter.
PassingSet(c, filter) == {i \in 1 .. Len(c.locs) : Passes(filter, c.locs[i])}

LEMMA AscendingAgrees == \A S : Ascending(S) = Cmd!Ascending(S)
  <1>1. \A S : Cardinality(S) = Cmd!Cardinality(S)
    BY DEF Cardinality, Cmd!Cardinality, IsFiniteSet, Cmd!IsFiniteSet
  <1> QED
    BY <1>1 DEF Ascending, SetToSeqs, Cmd!Ascending, Cmd!SetToSeqs

\* rebuild_view lists them in order.
LEMMA PassingElements ==
    ASSUME NEW c, Good(c), NEW filter, NEW p, p = Passing(c, filter)
    PROVE  /\ Len(c.locs) \in Nat
           /\ p = Ascending(PassingSet(c, filter))
           /\ PassingSet(c, filter) \in SUBSET (1 .. Len(c.locs))
           /\ Cmd!Enumerates(p, PassingSet(c, filter))
           /\ p \in Seq(1 .. MaxLocations) /\ Len(p) \in Nat
           /\ \A k \in 1 .. Len(p) : p[k] \in 1 .. Len(c.locs)
           /\ \A i \in PassingSet(c, filter) : \E k \in 1 .. Len(p) : p[k] = i
  <1>1. Len(c.locs) \in Nat /\ DOMAIN c.locs = 1 .. Len(c.locs)
    BY DEF Good, Config
  <1>2. p = Ascending(PassingSet(c, filter))
    BY <1>1 DEF Passing, PassingSet
  <1>3. PassingSet(c, filter) \in SUBSET (1 .. Len(c.locs))
    BY DEF PassingSet
  <1>4. Cmd!Enumerates(p, PassingSet(c, filter))
    BY <1>1, <1>2, <1>3, AscendingAgrees, Cmd!AscendingEnumerates, CmdAssumptions
  <1>5. PICK S : S = PassingSet(c, filter)
    OBVIOUS
  <1>6. S \in SUBSET Int
    BY <1>3, <1>5
  <1>7. /\ p \in Seq(S) /\ Len(p) \in Nat /\ DOMAIN p = 1 .. Len(p)
        /\ \A k \in 1 .. Len(p) : p[k] \in S
        /\ \A i \in S : \E k \in 1 .. Len(p) : p[k] = i
    BY <1>4, <1>5, <1>6, Cmd!EnumerationElements, CmdAssumptions
  <1>8. \A k \in 1 .. Len(p) : p[k] \in 1 .. Len(c.locs)
    BY <1>3, <1>5, <1>7
  <1>9. Len(c.locs) <= MaxLocations
    BY DEF Good, WellFormed
  <1>10. p \in Seq(1 .. MaxLocations)
    <2>1. PICK T : T = 1 .. MaxLocations
      OBVIOUS
    <2>2. S \subseteq T
      BY <1>1, <1>3, <1>5, <1>9, <2>1, LimitAssumption
    <2>3. p \in Seq(T)
      BY <1>7, <2>2, SeqMonotonic
    <2> QED
      BY <2>1, <2>3, Zenon
  <1> QED
    BY <1>1, <1>2, <1>3, <1>4, <1>5, <1>7, <1>8, <1>10

\* What passes depends on the places of the entries only.
LEMMA PassingOfSamePlaces ==
    ASSUME NEW c, Good(c), NEW d, Good(d), Len(d.locs) = Len(c.locs),
           \A k \in 1 .. Len(c.locs) : d.locs[k].place = c.locs[k].place,
           NEW filter
    PROVE  Passing(d, filter) = Passing(c, filter)
  <1>1. PassingSet(d, filter) = PassingSet(c, filter)
    BY DEF PassingSet, Passes
  <1> QED
    BY <1>1, PassingElements

\* rebuild_view: the view is what passes, and the selection a row of it.
LEMMA RebuiltElements ==
    ASSUME NEW l \in List, NEW c, Good(c), NEW r, r = Rebuilt(l, c)
    PROVE  r \in List /\ Valid(r, c) /\ r.filter = l.filter
           /\ r.view = Passing(c, l.filter)
  <1>1. PICK p : p = Passing(c, l.filter)
    OBVIOUS
  <1>2. PICK sel : sel = IF l.sel <= Len(p) THEN l.sel
                         ELSE IF p = << >> THEN 1 ELSE Len(p)
    OBVIOUS
  <1>3. p \in Seq(1 .. MaxLocations) /\ Len(p) \in Nat
    BY <1>1, PassingElements
  <1>4. /\ sel \in Nat \ {0}
        /\ \/ sel \in 1 .. Len(p)
           \/ p = << >> /\ sel = 1
    <2>1. p # << >> => Len(p) > 0
      BY <1>3
    <2>2. l.sel \in Nat \ {0}
      BY DEF List
    <2> QED
      BY <1>2, <1>3, <2>1, <2>2
  <1>5. r = [[l EXCEPT !.view = p] EXCEPT !.sel = sel]
    BY <1>1, <1>2 DEF Rebuilt
  <1>6. PICK m : m = [l EXCEPT !.view = p]
    OBVIOUS
  <1>7. m \in List /\ m.view = p /\ m.filter = l.filter
    BY <1>3, <1>6 DEF List
  <1>8. r = [m EXCEPT !.sel = sel]
    BY <1>5, <1>6
  <1>9. r \in List /\ r.view = p /\ r.filter = l.filter /\ r.sel = sel
    BY <1>4, <1>7, <1>8 DEF List
  <1>10. IsPrefix(p, p)
    BY <1>3, PrefixElements
  <1>11. DOMAIN p = 1 .. Len(p)
    BY <1>3
  <1> QED
    BY <1>1, <1>4, <1>9, <1>10, <1>11 DEF Valid

\* The row of a position, if it is listed.
LEMMA RowElements ==
    ASSUME NEW l \in List, NEW i, NEW row, row = Row(l, i)
    PROVE  /\ row \in 0 .. Len(l.view) /\ Len(l.view) \in Nat
           /\ DOMAIN l.view = 1 .. Len(l.view)
           /\ row # 0 => row \in 1 .. Len(l.view) /\ l.view[row] = i
           /\ row = 0 => \A k \in 1 .. Len(l.view) : l.view[k] # i
  <1>1. Len(l.view) \in Nat /\ DOMAIN l.view = 1 .. Len(l.view)
    BY DEF List
  <1>2. PICK I : I = {k \in 1 .. Len(l.view) : l.view[k] = i}
    OBVIOUS
  <1>3. row = IF I # {} THEN Cmd!Min(I) ELSE 0
    BY <1>2 DEF Row, SelectInSeq, Min, Cmd!Min
  <1>4. I \in SUBSET (1 .. Len(l.view))
    BY <1>2
  <1>5. I # {} => Cmd!Min(I) \in I
    BY <1>1, <1>4, Cmd!MinOfPositions, CmdAssumptions
  <1> QED
    BY <1>1, <1>2, <1>3, <1>5

\* A selection on a listed row keeps the list valid.
LEMMA SelectedRow ==
    ASSUME NEW l \in List, NEW c, Valid(l, c), NEW row \in 1 .. Len(l.view),
           NEW r, r = [l EXCEPT !.sel = row]
    PROVE  /\ r \in List /\ Valid(r, c)
           /\ r.view = l.view /\ r.filter = l.filter /\ r.sel = row
  <1>1. Len(l.view) \in Nat /\ DOMAIN l.view = 1 .. Len(l.view)
    BY DEF List
  <1>2. r \in List /\ r.view = l.view /\ r.filter = l.filter /\ r.sel = row
    BY <1>1 DEF List
  <1> QED
    BY <1>1, <1>2 DEF Valid

\* select_index finds every entry of the list, without the filter if need be.
LEMMA SelectIndexElements ==
    ASSUME NEW l \in List, NEW c, Good(c), Valid(l, c), NEW i,
           NEW r, r = SelectIndex(l, c, i)
    PROVE  /\ r \in List /\ Valid(r, c)
           /\ i \in 1 .. Len(c.locs) => r.view # << >> /\ r.view[r.sel] = i
  <1>1. PICK row : row = Row(l, i)
    OBVIOUS
  <1>2. /\ row \in 0 .. Len(l.view) /\ Len(l.view) \in Nat
        /\ row # 0 => row \in 1 .. Len(l.view) /\ l.view[row] = i
    BY <1>1, RowElements
  <1>3. CASE row # 0
    <2>1. r = [l EXCEPT !.sel = row]
      BY <1>1, <1>3 DEF SelectIndex
    <2>2. r \in List /\ Valid(r, c) /\ r.view = l.view /\ r.sel = row
      BY <1>2, <1>3, <2>1, SelectedRow
    <2> QED
      BY <1>2, <1>3, <2>2
  <1>4. CASE row = 0
    <2>1. PICK open : open = [l EXCEPT !.filter = NoFilter]
      OBVIOUS
    <2>2. open \in List /\ open.filter = NoFilter
      BY <2>1 DEF List
    <2>3. PICK all : all = Rebuilt(open, c)
      OBVIOUS
    <2>4. /\ all \in List /\ Valid(all, c) /\ all.filter = NoFilter
          /\ all.view = Passing(c, NoFilter)
      BY <2>2, <2>3, RebuiltElements
    <2>5. PICK there : there = Row(all, i)
      OBVIOUS
    <2>6. /\ there \in 0 .. Len(all.view) /\ Len(all.view) \in Nat
          /\ there # 0 => there \in 1 .. Len(all.view) /\ all.view[there] = i
          /\ there = 0 => \A k \in 1 .. Len(all.view) : all.view[k] # i
      BY <2>4, <2>5, RowElements
    <2>7. r = IF there # 0 THEN [all EXCEPT !.sel = there] ELSE all
      BY <1>1, <1>4, <2>1, <2>3, <2>5 DEF SelectIndex
    <2>8. i \in 1 .. Len(c.locs) => there # 0
      <3>1. i \in 1 .. Len(c.locs) => i \in PassingSet(c, NoFilter)
        BY DEF PassingSet, Passes
      <3>2. \A j \in PassingSet(c, NoFilter) :
              \E k \in 1 .. Len(all.view) : all.view[k] = j
        BY <2>4, PassingElements
      <3> QED
        BY <2>6, <3>1, <3>2
    <2>9. CASE there = 0
      BY <2>4, <2>7, <2>8, <2>9
    <2>10. CASE there # 0
      <3>1. r \in List /\ Valid(r, c) /\ r.view = all.view /\ r.sel = there
        BY <2>4, <2>6, <2>7, <2>10, SelectedRow
      <3> QED
        BY <2>6, <2>10, <3>1
    <2> QED
      BY <2>9, <2>10
  <1> QED
    BY <1>3, <1>4

\* rebuild_view and select_index, as most handlers end.
LEMMA RebuiltAndSelected ==
    ASSUME NEW l \in List, NEW c, Good(c), NEW i,
           NEW r, r = SelectIndex(Rebuilt(l, c), c, i)
    PROVE  /\ r \in List /\ Valid(r, c)
           /\ i \in 1 .. Len(c.locs) => r.view # << >> /\ r.view[r.sel] = i
  <1>1. PICK m : m = Rebuilt(l, c)
    OBVIOUS
  <1>2. m \in List /\ Valid(m, c)
    BY <1>1, RebuiltElements
  <1> QED
    BY <1>1, <1>2, SelectIndexElements

\* The list the TUI opens with.
LEMMA StartListElements ==
    ASSUME NEW c, Good(c)
    PROVE  StartList(c) \in List /\ Valid(StartList(c), c)
  <1>1. PICK l : l = [filter |-> NoFilter, view |-> << >>, sel |-> 1]
    OBVIOUS
  <1>2. l \in List
    BY <1>1 DEF List
  <1>3. PICK all : all = Rebuilt(l, c)
    OBVIOUS
  <1>4. all \in List /\ Valid(all, c)
    BY <1>2, <1>3, RebuiltElements
  <1>5. PICK first : first = IF Shown(c) # None THEN Shown(c) ELSE ConfigDefaultIndex(c)
    OBVIOUS
  <1>6. StartList(c) = IF first # None THEN SelectIndex(all, c, first) ELSE all
    BY <1>1, <1>3, <1>5 DEF StartList
  <1> QED
    BY <1>4, <1>6, SelectIndexElements

\* A list stays valid while the entries keep their number and their places.
LEMMA ValidOfSamePlaces ==
    ASSUME NEW c, Good(c), NEW d, Good(d), Len(d.locs) = Len(c.locs),
           \A k \in 1 .. Len(c.locs) : d.locs[k].place = c.locs[k].place,
           NEW l, Valid(l, c)
    PROVE  Valid(l, d)
  BY PassingOfSamePlaces DEF Valid

\* Of the entries there were, an addition changes at most the default flag,
\* and that only for a new default.
LEMMA AddElements ==
    ASSUME NEW c, Good(c), NEW loc \in Location, NEW d, d = ConfigAdd(c, loc)
    PROVE  /\ \A k \in 1 .. Len(c.locs) : d.locs[k].place = c.locs[k].place
           /\ d.locs[Len(c.locs) + 1] = loc
           /\ (\A k \in 1 .. Len(c.locs) : c.locs[k].isDefault => ~loc.isDefault) =>
                \A k \in 1 .. Len(c.locs) : d.locs[k] = c.locs[k]
  <1>1. PICK longer : longer = Append(c.locs, loc)
    OBVIOUS
  <1>2. c \in Config /\ c.locs \in Seq(Location) /\ Len(c.locs) \in Nat
    BY DEF Good, Config
  <1>3. /\ longer \in Seq(Location) /\ Len(longer) = Len(c.locs) + 1
        /\ DOMAIN longer = 1 .. Len(longer)
        /\ longer[Len(c.locs) + 1] = loc
        /\ \A k \in 1 .. Len(c.locs) : longer[k] = c.locs[k]
    BY <1>1, <1>2
  <1>4. PICK locs : locs = IF loc.isDefault THEN Mark(longer, Len(longer)) ELSE longer
    OBVIOUS
  <1>5. d = [c EXCEPT !.locs = locs]
    BY <1>1, <1>4 DEF ConfigAdd
  <1>6. d.locs = locs
    BY <1>2, <1>5 DEF Config
  <1>7. CASE ~loc.isDefault
    BY <1>3, <1>4, <1>6, <1>7
  <1>8. CASE loc.isDefault
    <2>1. ASSUME NEW k \in 1 .. Len(longer)
          PROVE  locs[k] = [longer[k] EXCEPT !.isDefault = (k = Len(longer))]
      BY <1>3, <1>4, <1>8 DEF Mark
    <2>2. ASSUME NEW k \in 1 .. Len(c.locs)
          PROVE  /\ locs[k].place = c.locs[k].place
                 /\ ~c.locs[k].isDefault => locs[k] = c.locs[k]
      <3>1. PICK e : e = c.locs[k]
        OBVIOUS
      <3>2. e \in Location /\ k # Len(longer) /\ k \in 1 .. Len(longer)
        BY <1>2, <1>3, <3>1
      <3>3. locs[k] = [e EXCEPT !.isDefault = FALSE]
        BY <1>3, <2>1, <3>1, <3>2
      <3> QED
        BY <3>1, <3>2, <3>3 DEF Location
    <2>3. locs[Len(c.locs) + 1] = loc
      <3>1. Len(c.locs) + 1 \in 1 .. Len(longer)
        BY <1>2, <1>3
      <3>2. locs[Len(c.locs) + 1] = [loc EXCEPT !.isDefault = TRUE]
        BY <1>3, <2>1, <3>1
      <3> QED
        BY <1>8, <3>2 DEF Location
    <2> QED
      BY <1>6, <1>8, <2>2, <2>3
  <1> QED
    BY <1>7, <1>8

\* A position after all the others is listed last.
WithLast(p, last) == Append(p, last)

LEMMA AppendEnumerates ==
    ASSUME NEW S, S \in SUBSET Int, NEW p, Cmd!Enumerates(p, S),
           NEW last, last \in Int, \A i \in S : i < last,
           NEW T, S \subseteq T, last \in T, \A i \in T : i \in S \/ i = last,
           NEW t, t = WithLast(p, last)
    PROVE  Cmd!Enumerates(t, T)
  <1>1. /\ p \in Seq(S) /\ p \in Seq(Int) /\ Len(p) \in Nat
        /\ \A k \in 1 .. Len(p) : p[k] \in S
        /\ \A k \in 1 .. Len(p) : p[k] \in Int
        /\ \A i, j \in 1 .. Len(p) : i < j => p[i] < p[j]
        /\ \A i \in S : \E k \in 1 .. Len(p) : p[k] = i
    BY Cmd!EnumerationElements, CmdAssumptions
  <1>2. /\ Len(t) = Len(p) + 1 /\ t[Len(p) + 1] = last
        /\ \A k \in 1 .. Len(p) : t[k] = p[k]
    BY <1>1 DEF WithLast
  <1>3. t \in Seq(T)
    <2>1. p \in Seq(T)
      BY <1>1, SeqMonotonic
    <2> QED
      BY <2>1 DEF WithLast
  <1>4. \A k \in 1 .. Len(p) : p[k] < last
    BY <1>1
  <1>5. /\ \A k \in 1 .. Len(p) : k \in 1 .. Len(t)
        /\ \A k \in 1 .. Len(t) : k \in 1 .. Len(p) \/ k = Len(p) + 1
        /\ \A j, k \in 1 .. Len(t) : j < k => j \in 1 .. Len(p)
        /\ Len(p) + 1 \in 1 .. Len(t)
    <2>1. Len(p) \in Nat /\ Len(t) = Len(p) + 1
      BY <1>1, <1>2
    <2> QED
      BY <2>1
  <1>6. ASSUME NEW i \in 1 .. Len(t), NEW j \in 1 .. Len(t), i < j
        PROVE  t[i] < t[j]
    <2>1. i \in 1 .. Len(p)
      BY <1>5, <1>6, Zenon
    <2>2. t[i] = p[i]
      BY <1>2, <2>1, Zenon
    <2>3. CASE j \in 1 .. Len(p)
      <3>1. t[j] = p[j]
        BY <1>2, <2>3, Zenon
      <3>2. p[i] < p[j]
        BY <1>1, <1>6, <2>1, <2>3, Zenon
      <3> QED
        BY <2>2, <3>1, <3>2, Zenon
    <2>4. CASE j = Len(p) + 1
      <3>1. p[i] < last
        BY <1>4, <2>1, Zenon
      <3>2. t[j] = last
        BY <1>2, <2>4, Zenon
      <3> QED
        BY <2>2, <3>1, <3>2, Zenon
    <2> QED
      BY <1>5, <2>3, <2>4, Zenon
  <1>7. ASSUME NEW i \in T
        PROVE  \E k \in 1 .. Len(t) : t[k] = i
    <2>1. CASE i = last
      BY <1>2, <1>5, <2>1, Zenon
    <2>2. CASE i \in S
      BY <1>1, <1>2, <1>5, <2>2, Zenon
    <2> QED
      BY <2>1, <2>2
  <1> QED
    BY <1>3, <1>6, <1>7, Zenon DEF Cmd!Enumerates

\* An entry added at the end comes last in the view, if it passes at all.
LEMMA PassingOfLonger ==
    ASSUME NEW c, Good(c), NEW d, Good(d), Len(d.locs) = Len(c.locs) + 1,
           \A k \in 1 .. Len(c.locs) : d.locs[k].place = c.locs[k].place,
           NEW filter
    PROVE  IsPrefix(Passing(c, filter), Passing(d, filter))
  <1>1. PICK n : n = Len(c.locs)
    OBVIOUS
  <1>2. PICK S : S = PassingSet(c, filter)
    OBVIOUS
  <1>3. PICK p : p = Passing(c, filter)
    OBVIOUS
  <1>4. PICK T : T = PassingSet(d, filter)
    OBVIOUS
  <1>5. PICK q : q = Passing(d, filter)
    OBVIOUS
  <1>6. /\ n \in Nat /\ p = Ascending(S) /\ S \in SUBSET (1 .. n)
        /\ Cmd!Enumerates(p, S) /\ p \in Seq(1 .. MaxLocations) /\ Len(p) \in Nat
    BY <1>1, <1>2, <1>3, PassingElements
  <1>7. q = Ascending(T) /\ T \in SUBSET (1 .. n + 1) /\ q \in Seq(1 .. MaxLocations)
    BY <1>1, <1>4, <1>5, PassingElements
  <1>8. \A k \in 1 .. n : k \in T <=> k \in S
    BY <1>1, <1>2, <1>4, <1>6 DEF PassingSet, Passes
  <1>9. CASE n + 1 \notin T
    <2>1. S = T
      <3>1. \A k \in T : k \in 1 .. n
        BY <1>6, <1>7, <1>9
      <3>2. \A k \in S : k \in 1 .. n
        BY <1>6
      <3> QED
        BY <1>8, <3>1, <3>2
    <2>2. q = p
      BY <1>6, <1>7, <2>1
    <2> QED
      BY <1>3, <1>5, <1>6, <2>2, PrefixElements
  <1>10. CASE n + 1 \in T
    <2>1. PICK m : m = n + 1
      OBVIOUS
    <2>2. PICK t : t = WithLast(p, m)
      OBVIOUS
    <2>3. /\ m \in Nat /\ m \in Int /\ m \in T
          /\ S \in SUBSET Int /\ T \in SUBSET (1 .. m)
      BY <1>6, <1>7, <1>10, <2>1
    <2>4. \A k \in S : k < m
      <3>1. \A k \in S : k \in 1 .. n
        BY <1>6
      <3> QED
        BY <1>6, <2>1, <3>1
    <2>5. S \subseteq T
      BY <1>6, <1>8
    <2>6. \A k \in T : k \in S \/ k = m
      <3>1. \A k \in T : k \in 1 .. n \/ k = m
        BY <1>6, <1>7, <2>1
      <3> QED
        BY <1>8, <3>1
    <2>7. Cmd!Enumerates(p, S)
      BY <1>6
    <2>8. Cmd!Enumerates(t, T)
      BY <2>2, <2>3, <2>4, <2>5, <2>6, <2>7, AppendEnumerates, Zenon
    <2>9. Len(t) = Len(p) + 1 /\ \A k \in 1 .. Len(p) : t[k] = p[k]
      <3>1. PICK P : P = 1 .. MaxLocations
        OBVIOUS
      <3>2. p \in Seq(P) /\ Len(p) \in Nat
        BY <1>6, <3>1
      <3> QED
        BY <2>2, <3>2 DEF WithLast
    <2>10. Cmd!Ascending(T) = t
      BY <2>3, <2>8, Cmd!AscendingIs, CmdAssumptions
    <2>11. q = t
      BY <1>7, <2>10, AscendingAgrees
    <2> QED
      BY <1>3, <1>5, <1>6, <1>7, <2>9, <2>11, PrefixElements
  <1> QED
    BY <1>9, <1>10

\* So a view that was not rebuilt after an addition is still a prefix of what
\* passes.
LEMMA ValidOfLonger ==
    ASSUME NEW c, Good(c), NEW d, Good(d), Len(d.locs) = Len(c.locs) + 1,
           \A k \in 1 .. Len(c.locs) : d.locs[k].place = c.locs[k].place,
           NEW l \in List, Valid(l, c)
    PROVE  Valid(l, d)
  <1>1. PICK p : p = Passing(c, l.filter)
    OBVIOUS
  <1>2. PICK q : q = Passing(d, l.filter)
    OBVIOUS
  <1>3. PICK S : S = 1 .. MaxLocations
    OBVIOUS
  <1>4. p \in Seq(S) /\ q \in Seq(S) /\ l.view \in Seq(S)
    BY <1>1, <1>2, <1>3, PassingElements DEF List
  <1>5. Len(l.view) <= Len(p) /\ \A k \in 1 .. Len(l.view) : l.view[k] = p[k]
    BY <1>1, <1>4, PrefixElements DEF Valid
  <1>6. Len(p) <= Len(q) /\ \A k \in 1 .. Len(p) : p[k] = q[k]
    BY <1>1, <1>2, <1>4, PassingOfLonger, PrefixElements
  <1>7. Len(l.view) \in Nat /\ Len(p) \in Nat /\ Len(q) \in Nat
    BY <1>4
  <1>8. Len(l.view) <= Len(q) /\ \A k \in 1 .. Len(l.view) : l.view[k] = q[k]
    BY <1>5, <1>6, <1>7
  <1>9. IsPrefix(l.view, q)
    BY <1>4, <1>8, PrefixElements
  <1> QED
    BY <1>2, <1>9 DEF Valid

\* The rows of a valid list are positions of the record.
LEMMA ListedElements ==
    ASSUME NEW c, Good(c), NEW l \in List, Valid(l, c)
    PROVE  \A k \in 1 .. Len(l.view) : l.view[k] \in 1 .. Len(c.locs)
  <1>1. PICK p : p = Passing(c, l.filter)
    OBVIOUS
  <1>2. PICK S : S = 1 .. MaxLocations
    OBVIOUS
  <1>3. /\ p \in Seq(S) /\ l.view \in Seq(S)
        /\ \A k \in 1 .. Len(p) : p[k] \in 1 .. Len(c.locs)
    BY <1>1, <1>2, PassingElements DEF List
  <1>4. Len(l.view) <= Len(p) /\ \A k \in 1 .. Len(l.view) : l.view[k] = p[k]
    BY <1>1, <1>3, PrefixElements DEF Valid
  <1>5. Len(l.view) \in Nat /\ Len(p) \in Nat
    BY <1>3
  <1> QED
    BY <1>3, <1>4, <1>5

----------------------------------------------------------------------------
(* The inductive invariant                                                 *)

\* What the record and the list keep, ...
Screen == /\ Good(cfg)
          /\ list \in List /\ Valid(list, cfg)
          /\ filtering \in BOOLEAN

Deletion == [has : BOOLEAN, loc : Location, at : 1 .. MaxLocations, shown : BOOLEAN]

\* ... and the undo buffer: since the deletion, entries were added at the end
\* and none was moved or removed, so the first n - 1 are the old ones but for
\* the deleted one, in their old order, and the rest is new.
OriginIsOld ==
    undo.has => /\ Len(origin) = Len(cfg.locs)
                /\ \E n \in 1 .. Len(origin) + 1 :
                     /\ undo.at <= n
                     /\ \A k \in 1 .. Len(origin) :
                          origin[k] = IF k < undo.at THEN k
                                      ELSE IF k < n THEN k + 1 ELSE 0

Buffer == undo \in Deletion /\ origin \in Seq(0 .. MaxLocations) /\ OriginIsOld

Inv == Screen /\ Buffer

LEMMA InvImplies == Inv => TypeOK /\ RecordIsWellFormed /\ ViewIsValid
  <1>1. ASSUME Screen
        PROVE  /\ cfg \in Config /\ list \in List /\ filtering \in BOOLEAN
               /\ RecordIsWellFormed /\ ViewIsValid
    BY <1>1 DEF Screen, Good, WellFormed, RecordIsWellFormed, Valid, ViewIsValid
  <1> QED
    BY <1>1 DEF Inv, Buffer, Deletion, List, TypeOK

\* A forgotten deletion.
LEMMA NoUndoElements == NoUndo \in Deletion /\ ~NoUndo.has
  <1>1. Blank \in Location
    BY PlaceAssumption, UnitsAssumption DEF Blank, Location
  <1>2. 1 \in 1 .. MaxLocations
    BY LimitAssumption
  <1> QED
    BY <1>1, <1>2 DEF NoUndo, Deletion

\* A forgotten deletion needs no history.
LEMMA Forgotten ==
    ASSUME undo' = NoUndo, origin' = << >>
    PROVE  Buffer'
  <1>1. undo' \in Deletion /\ ~undo'.has
    BY NoUndoElements, Zenon
  <1>2. origin' \in Seq(0 .. MaxLocations)
    OBVIOUS
  <1> QED
    BY <1>1, <1>2 DEF Buffer, OriginIsOld

\* The history stays good while the number of entries does not change.
LEMMA BufferStays ==
    ASSUME Buffer, KeepsUndo, Len(cfg'.locs) = Len(cfg.locs)
    PROVE  Buffer'
  BY DEF Buffer, OriginIsOld, KeepsUndo

\* The selected entry is one of the record.
LEMMA SelectedElements ==
    ASSUME Screen, Selected # None
    PROVE  /\ Selected \in 1 .. Len(cfg.locs) /\ Len(cfg.locs) \in Nat
           /\ list.sel \in 1 .. Len(list.view)
           /\ list.view # << >> /\ Selected = list.view[list.sel]
  <1>1. list.view # << >> /\ Selected = list.view[list.sel]
    BY DEF Selected, None
  <1>2. list \in List /\ Valid(list, cfg) /\ Good(cfg)
    BY DEF Screen, Good
  <1>3. list.sel \in 1 .. Len(list.view)
    BY <1>1, <1>2 DEF Valid, List
  <1>4. PICK row : row = list.sel
    OBVIOUS
  <1>5. \A k \in 1 .. Len(list.view) : list.view[k] \in 1 .. Len(cfg.locs)
    BY <1>2, ListedElements
  <1> QED
    BY <1>1, <1>2, <1>3, <1>5 DEF Good, Config

\* The TUI starts well, on any file.
LEMMA InitEstablishesInv == Init => Inv
  <1> SUFFICES ASSUME Init PROVE Inv
    OBVIOUS
  <1>1. PICK file \in Files : cfg = Loaded(file)
    BY DEF Init
  <1>2. Good(cfg)
    BY <1>1, FilesAssumption, LoadedKeeps
  <1>3. list \in List /\ Valid(list, cfg) /\ filtering \in BOOLEAN
    BY <1>2, StartListElements DEF Init
  <1>4. Buffer
    <2>1. undo \in Deletion /\ ~undo.has
      BY NoUndoElements, Zenon DEF Init
    <2>2. origin \in Seq(0 .. MaxLocations)
      BY DEF Init
    <2> QED
      BY <2>1, <2>2 DEF Buffer, OriginIsOld
  <1> QED
    BY <1>2, <1>3, <1>4 DEF Inv, Screen

----------------------------------------------------------------------------
(* The steps.  Each keeps the invariant, and all but undo and reload keep  *)
(* a consistent record consistent.                                         *)

Keeps == Inv' /\ (Consistent(cfg) => Consistent(cfg'))

\* What only changes the entries' flags or what is shown leaves the list as
\* it was.
LEMMA KeepsOfSamePlaces ==
    ASSUME Inv, Good(cfg'), Len(cfg'.locs) = Len(cfg.locs),
           \A k \in 1 .. Len(cfg.locs) : cfg'.locs[k].place = cfg.locs[k].place,
           Consistent(cfg) => Consistent(cfg'),
           KeepsUndo, UNCHANGED <<list, filtering>>
    PROVE  Keeps
  <1>1. Valid(list, cfg')
    BY ValidOfSamePlaces DEF Inv, Screen, Good
  <1>2. list' = list /\ filtering' = filtering
    OBVIOUS
  <1>3. Valid(list', cfg')
    BY <1>1, <1>2, Zenon
  <1>4. Buffer'
    BY BufferStays DEF Inv
  <1> QED
    BY <1>2, <1>3, <1>4 DEF Inv, Screen, Keeps

\* The same, when the list does not change at all.
LEMMA KeepsOfSameList ==
    ASSUME Inv, Good(cfg'), cfg'.locs = cfg.locs,
           Consistent(cfg) => Consistent(cfg'),
           KeepsUndo, UNCHANGED <<list, filtering>>
    PROVE  Keeps
  BY KeepsOfSamePlaces

\* What only changes the list on the screen.
LEMMA KeepsOfLists ==
    ASSUME Inv, NEW l, l \in List, Valid(l, cfg), Lists(l), filtering' \in BOOLEAN
    PROVE  Keeps
  <1>1. cfg' = cfg /\ list' = l /\ KeepsUndo
    BY DEF Lists
  <1>2. Buffer'
    BY <1>1, BufferStays DEF Inv
  <1> QED
    BY <1>1, <1>2 DEF Inv, Screen, Keeps

\* Keys that move the selection stay on the list.
LEMMA MovedSelElements ==
    ASSUME Screen, NEW delta \in Int
    PROVE  MovedSel(delta) \in List /\ Valid(MovedSel(delta), cfg)
  <1>1. CASE list.view = << >>
    BY <1>1 DEF MovedSel, Screen
  <1>2. CASE list.view # << >>
    <2>1. PICK row : row = Clamped(list.sel + delta)
      OBVIOUS
    <2>2. MovedSel(delta) = [list EXCEPT !.sel = row]
      BY <1>2, <2>1 DEF MovedSel
    <2>3. Len(list.view) \in Nat \ {0} /\ list.sel \in Nat
      BY <1>2 DEF Screen, List
    <2>4. row \in 1 .. Len(list.view)
      BY <2>1, <2>3 DEF Clamped
    <2> QED
      BY <2>2, <2>4, SelectedRow DEF Screen
  <1> QED
    BY <1>1, <1>2

\* The filter and the selection.
LEMMA LooksKeeps ==
    ASSUME Inv, Looks
    PROVE  Keeps
  <1>1. /\ list \in List /\ Valid(list, cfg) /\ Good(cfg)
        /\ filtering \in BOOLEAN /\ Screen
    BY DEF Inv, Screen, Good
  <1>2. CASE OpenFilter
    BY <1>1, <1>2, KeepsOfLists DEF OpenFilter
  <1>3. ASSUME NEW filter \in Filter \cup {NoFilter}, TypeFilter(filter)
        PROVE  Keeps
    <2>1. PICK l : l = [list EXCEPT !.filter = filter, !.sel = 1]
      OBVIOUS
    <2>2. l \in List
      <3>1. PICK m : m = [list EXCEPT !.filter = filter]
        OBVIOUS
      <3>2. m \in List
        BY <1>1, <3>1 DEF List
      <3>3. l = [m EXCEPT !.sel = 1]
        BY <2>1, <3>1
      <3> QED
        BY <3>2, <3>3 DEF List
    <2>3. PICK r : r = Rebuilt(l, cfg)
      OBVIOUS
    <2>4. r \in List /\ Valid(r, cfg)
      BY <1>1, <2>2, <2>3, RebuiltElements
    <2> QED
      BY <1>1, <1>3, <2>1, <2>3, <2>4, KeepsOfLists DEF TypeFilter
  <1>4. ASSUME NEW delta \in {-1, 0, 1}, CloseFilter(delta)
        PROVE  Keeps
    <2>1. MovedSel(delta) \in List /\ Valid(MovedSel(delta), cfg)
      BY <1>1, MovedSelElements
    <2> QED
      BY <1>4, <2>1, KeepsOfLists DEF CloseFilter
  <1>5. CASE ClearFilter
    <2>1. PICK l : l = [list EXCEPT !.filter = NoFilter]
      OBVIOUS
    <2>2. l \in List
      BY <1>1, <2>1 DEF List
    <2>3. PICK r : r = Rebuilt(l, cfg)
      OBVIOUS
    <2>4. r \in List /\ Valid(r, cfg)
      BY <1>1, <2>2, <2>3, RebuiltElements
    <2> QED
      BY <1>5, <2>1, <2>3, <2>4, KeepsOfLists DEF ClearFilter
  <1>6. ASSUME NEW delta \in {-1, 1}, MoveSel(delta)
        PROVE  Keeps
    <2>1. MovedSel(delta) \in List /\ Valid(MovedSel(delta), cfg)
      BY <1>1, MovedSelElements
    <2> QED
      BY <1>1, <1>6, <2>1, KeepsOfLists DEF MoveSel
  <1> QED
    BY <1>2, <1>3, <1>4, <1>5, <1>6 DEF Looks

\* Other units for an entry.
LEMMA UnitsKeep ==
    ASSUME NEW c, Good(c), NEW i \in 1 .. Len(c.locs), NEW units \in Units,
           NEW d, d = [c EXCEPT !.locs[i].units = units]
    PROVE  /\ Good(d)
           /\ Len(d.locs) = Len(c.locs)
           /\ \A j \in 1 .. Len(c.locs) : d.locs[j].place = c.locs[j].place
           /\ Consistent(c) => Consistent(d)
  <1>1. c.locs \in Seq(Location) /\ c.locs[i] \in Location
    BY DEF Good, Config
  <1>2. PICK entry : entry = [c.locs[i] EXCEPT !.units = units]
    OBVIOUS
  <1>3. /\ entry \in Location
        /\ entry.isDefault = c.locs[i].isDefault
        /\ entry.place = c.locs[i].place
    BY <1>1, <1>2 DEF Location
  <1>4. d = [c EXCEPT !.locs = [c.locs EXCEPT ![i] = entry]]
    BY <1>2
  <1> QED
    BY <1>3, <1>4, EntryKeeps

\* What is shown: use, geolocation, and the Current tab.
LEMMA EditsWhatIsShownKeeps ==
    ASSUME Inv, EditsWhatIsShown
    PROVE  Keeps
  <1>1. Screen /\ Good(cfg) /\ cfg \in Config
    BY DEF Inv, Screen, Good
  <1>2. CASE Use
    <2>1. Selected \in 1 .. Len(cfg.locs)
      BY <1>1, <1>2, SelectedElements DEF Use
    <2>2. cfg' = ConfigUse(cfg, Selected) /\ KeepsUndo /\ UNCHANGED <<list, filtering>>
      BY <1>2 DEF Use
    <2>3. Good(cfg') /\ cfg'.locs = cfg.locs /\ Consistent(cfg')
      BY <1>1, <2>1, <2>2, UseKeeps
    <2> QED
      BY <2>2, <2>3, KeepsOfSameList
  <1>3. ASSUME NEW row \in 1 .. MaxLocations, ClickToUse(row)
        PROVE  Keeps
    <2>1. PICK i : i = list.view[row]
      OBVIOUS
    <2>2. /\ cfg' = ConfigUse(cfg, i) /\ list' = [list EXCEPT !.sel = row]
          /\ KeepsUndo /\ filtering' = filtering /\ row \in DOMAIN list.view
      BY <1>3, <2>1 DEF ClickToUse
    <2>3. list \in List /\ Valid(list, cfg) /\ Good(cfg) /\ filtering \in BOOLEAN
      BY <1>1 DEF Screen, Good
    <2>4. row \in 1 .. Len(list.view)
      BY <2>2, <2>3 DEF List
    <2>5. i \in 1 .. Len(cfg.locs)
      BY <2>1, <2>3, <2>4, ListedElements
    <2>6. Good(cfg') /\ cfg'.locs = cfg.locs /\ Consistent(cfg')
      BY <1>1, <2>2, <2>5, UseKeeps
    <2>7. list' \in List /\ Valid(list', cfg)
      BY <2>2, <2>3, <2>4, SelectedRow
    <2>8. Valid(list', cfg')
      BY <2>3, <2>6, <2>7, ValidOfSamePlaces DEF Good
    <2>9. Buffer'
      BY <2>2, <2>6, BufferStays DEF Inv
    <2> QED
      BY <2>2, <2>3, <2>6, <2>7, <2>8, <2>9 DEF Inv, Screen, Keeps
  <1>4. CASE cfg' = UseGeo(cfg) /\ KeepsUndo /\ UNCHANGED <<list, filtering>>
    <2>1. Good(cfg') /\ cfg'.locs = cfg.locs /\ Consistent(cfg')
      BY <1>1, <1>4, UseGeoKeeps
    <2> QED
      BY <1>4, <2>1, KeepsOfSameList
  <1>5. CASE ToggleGeo /\ cfg.geo
    <2>1. /\ cfg' = [cfg EXCEPT !.geo = FALSE]
          /\ KeepsUndo /\ UNCHANGED <<list, filtering>>
      BY <1>5 DEF ToggleGeo
    <2>2. /\ cfg' \in Config /\ cfg'.locs = cfg.locs /\ cfg'.geo = FALSE
          /\ cfg'.active = cfg.active /\ cfg'.current = cfg.current
      BY <1>1, <2>1 DEF Config
    <2>3. Good(cfg')
      BY <1>1, <2>2 DEF Good, WellFormed, OneDefault, InRange
    <2>4. Consistent(cfg) => Consistent(cfg')
      BY <2>2 DEF Consistent, ActiveIsCurrent, InRange
    <2> QED
      BY <2>1, <2>2, <2>3, <2>4, KeepsOfSameList
  <1>6. ASSUME NEW place \in Place, NEW units \in Units, EditCurrent(place, units)
        PROVE  Keeps
    <2>1. PICK loc : loc = Entry(place, units, FALSE)
      OBVIOUS
    <2>2. loc \in Location
      BY <2>1 DEF Entry, Location
    <2>3. PICK now : now = [cfg EXCEPT !.current = loc, !.geo = FALSE]
      OBVIOUS
    <2>4. now \in Config /\ now.locs = cfg.locs /\ now.geo = FALSE
      <3>1. PICK m : m = [cfg EXCEPT !.current = loc]
        OBVIOUS
      <3>2. m \in Config /\ m.locs = cfg.locs
        BY <1>1, <2>2, <3>1 DEF Config
      <3>3. now = [m EXCEPT !.geo = FALSE]
        BY <2>3, <3>1
      <3> QED
        BY <3>2, <3>3 DEF Config
    <2>5. cfg' = Matched(now) /\ KeepsUndo /\ UNCHANGED <<list, filtering>>
      BY <1>6, <2>1, <2>3 DEF EditCurrent
    <2>6. Good(cfg') /\ cfg'.locs = cfg.locs /\ Consistent(cfg')
      BY <1>1, <2>4, <2>5, LookupKeeps
    <2> QED
      BY <2>5, <2>6, KeepsOfSameList
  <1>7. ASSUME NEW units \in Units, CurrentUnits(units)
        PROVE  Keeps
    <2>1. PICK loc : loc = [cfg.current EXCEPT !.units = units]
      OBVIOUS
    <2>2. loc \in Location /\ loc.place = cfg.current.place
      BY <1>1, <2>1 DEF Config, Location
    <2>3. PICK c : c = [cfg EXCEPT !.current = loc]
      OBVIOUS
    <2>4. /\ c \in Config /\ c.locs = cfg.locs /\ c.active = cfg.active
          /\ c.geo = cfg.geo /\ c.current = loc
      BY <1>1, <2>2, <2>3 DEF Config
    <2>5. Good(c) /\ (Consistent(cfg) => Consistent(c))
      <3>1. Good(c)
        BY <1>1, <2>4 DEF Good, WellFormed, OneDefault, InRange
      <3>2. Consistent(cfg) => Consistent(c)
        BY <2>2, <2>4 DEF Consistent, ActiveIsCurrent, SamePlace, InRange
      <3> QED
        BY <3>1, <3>2
    <2>6. /\ cfg' = IF Shown(c) = None THEN c
                    ELSE [c EXCEPT !.locs[Shown(c)].units = units]
          /\ KeepsUndo /\ UNCHANGED <<list, filtering>>
      BY <1>7, <2>1, <2>3 DEF CurrentUnits
    <2>7. CASE Shown(c) = None
      BY <2>4, <2>5, <2>6, <2>7, KeepsOfSameList
    <2>8. CASE Shown(c) # None
      <3>1. PICK i : i = Shown(c)
        OBVIOUS
      <3>2. i \in 1 .. Len(c.locs)
        BY <2>5, <2>8, <3>1, ShownElements DEF None
      <3>3. cfg' = [c EXCEPT !.locs[i].units = units]
        BY <2>6, <2>8, <3>1
      <3>4. /\ Good(cfg') /\ Len(cfg'.locs) = Len(c.locs)
            /\ \A k \in 1 .. Len(c.locs) : cfg'.locs[k].place = c.locs[k].place
            /\ Consistent(c) => Consistent(cfg')
        BY <2>5, <3>2, <3>3, UnitsKeep
      <3> QED
        BY <2>4, <2>5, <2>6, <3>4, KeepsOfSamePlaces
    <2> QED
      BY <2>7, <2>8
  <1>8. ToggleGeo \/ ResetGeoSetting =>
          \/ cfg' = UseGeo(cfg) /\ KeepsUndo /\ UNCHANGED <<list, filtering>>
          \/ ToggleGeo /\ cfg.geo
    BY DEF ToggleGeo, ResetGeoSetting
  <1> QED
    BY <1>2, <1>3, <1>4, <1>5, <1>6, <1>7, <1>8 DEF EditsWhatIsShown

\* Whatever the file holds is read whole, and the deletion forgotten.
LEMMA ReloadKeeps ==
    ASSUME Inv, Reload
    PROVE  Inv'
  <1>1. Screen /\ Good(cfg) /\ list \in List /\ filtering \in BOOLEAN
    BY DEF Inv, Screen
  <1>2. PICK file \in Files \cup {Saved(cfg)} :
          LET c == Loaded(file)
              l == Rebuilt(list, c)
          IN /\ cfg' = c
             /\ list' = IF Selected # None /\ InRange(c, Selected)
                        THEN SelectIndex(l, c, Selected) ELSE l
             /\ undo' = NoUndo
             /\ origin' = << >>
             /\ UNCHANGED filtering
    BY DEF Reload
  <1>3. file \in Config
    BY <1>1, FilesAssumption, SavedIsConfig DEF Good
  <1>4. cfg' = Loaded(file)
    BY <1>2, Zenon
  <1>5. Good(cfg')
    BY <1>3, <1>4, LoadedKeeps
  <1>6. PICK l : l = Rebuilt(list, cfg')
    OBVIOUS
  <1>7. /\ \/ list' = SelectIndex(l, cfg', Selected)
           \/ list' = l
        /\ undo' = NoUndo /\ origin' = << >> /\ filtering' = filtering
    BY <1>2, <1>4, <1>6
  <1>8. l \in List /\ Valid(l, cfg')
    BY <1>1, <1>5, <1>6, RebuiltElements
  <1>9. list' \in List /\ Valid(list', cfg')
    BY <1>5, <1>7, <1>8, SelectIndexElements
  <1>10. Buffer'
    BY <1>7, Forgotten
  <1> QED
    BY <1>1, <1>5, <1>7, <1>9, <1>10 DEF Inv, Screen

\* add_location.
LEMMA AddStep ==
    ASSUME Inv, NEW place \in Place, NEW units \in Units, NEW isDefault \in BOOLEAN,
           NEW saved \in BOOLEAN, Add(place, units, isDefault, saved)
    PROVE  Keeps
  <1>1. /\ Good(cfg) /\ list \in List /\ Valid(list, cfg)
        /\ filtering \in BOOLEAN /\ Buffer /\ Len(cfg.locs) \in Nat
    BY DEF Inv, Screen, Good, Config
  <1>2. PICK loc : loc = Entry(place, units, isDefault)
    OBVIOUS
  <1>3. loc \in Location
    BY <1>2 DEF Entry, Location
  <1>4. PICK c : c = ConfigAdd(cfg, loc)
    OBVIOUS
  <1>5. /\ ~Full(cfg) /\ cfg' = c
        /\ list' = IF saved THEN SelectIndex(Rebuilt(list, c), c, Len(c.locs)) ELSE list
        /\ origin' = IF undo.has THEN Append(origin, 0) ELSE origin
        /\ filtering' = filtering /\ undo' = undo
    BY <1>2, <1>4 DEF Add
  <1>6. /\ Good(c) /\ Len(c.locs) = Len(cfg.locs) + 1
        /\ Consistent(cfg) => Consistent(c)
    BY <1>1, <1>3, <1>4, <1>5, AddKeeps DEF Good
  <1>7. \A k \in 1 .. Len(cfg.locs) : c.locs[k].place = cfg.locs[k].place
    BY <1>1, <1>3, <1>4, AddElements
  <1>8. list' \in List /\ Valid(list', c)
    <2>1. CASE saved
      BY <1>1, <1>5, <1>6, <2>1, RebuiltAndSelected
    <2>2. CASE ~saved
      BY <1>1, <1>5, <1>6, <1>7, <2>2, ValidOfLonger
    <2> QED
      BY <2>1, <2>2
  <1>9. Buffer'
    <2>1. CASE ~undo.has
      BY <1>1, <1>5, <2>1 DEF Buffer, OriginIsOld
    <2>2. CASE undo.has
      <3>1. PICK n \in 1 .. Len(origin) + 1 :
              /\ undo.at <= n
              /\ \A k \in 1 .. Len(origin) :
                   origin[k] = IF k < undo.at THEN k ELSE IF k < n THEN k + 1 ELSE 0
        BY <1>1, <2>2 DEF Buffer, OriginIsOld
      <3>2. /\ Len(origin) = Len(cfg.locs) /\ undo.at \in Nat /\ undo \in Deletion
            /\ origin \in Seq(0 .. MaxLocations)
        BY <1>1, <2>2 DEF Buffer, OriginIsOld, Deletion
      <3>3. origin' = Append(origin, 0)
        BY <1>5, <2>2
      <3>4. /\ origin' \in Seq(0 .. MaxLocations) /\ Len(origin') = Len(origin) + 1
            /\ origin'[Len(origin) + 1] = 0
            /\ \A k \in 1 .. Len(origin) : origin'[k] = origin[k]
        <4>1. PICK S : S = 0 .. MaxLocations
          OBVIOUS
        <4>2. 0 \in S /\ origin \in Seq(S)
          BY <3>2, <4>1, LimitAssumption
        <4> QED
          BY <3>3, <4>1, <4>2
      <3>5. n \in 1 .. Len(origin') + 1
        BY <1>1, <3>2, <3>4
      <3>6. ASSUME NEW k \in 1 .. Len(origin')
            PROVE  origin'[k] = IF k < undo.at THEN k ELSE IF k < n THEN k + 1 ELSE 0
        <4>1. CASE k \in 1 .. Len(origin)
          BY <3>1, <3>4, <4>1
        <4>2. CASE k = Len(origin) + 1
          BY <1>1, <3>1, <3>2, <3>4, <4>2
        <4>3. k \in 1 .. Len(origin) \/ k = Len(origin) + 1
          BY <1>1, <3>2, <3>4
        <4> QED
          BY <4>1, <4>2, <4>3
      <3>7. undo'.at <= n /\ undo' = undo /\ Len(origin') = Len(cfg'.locs)
        BY <1>1, <1>5, <1>6, <3>1, <3>2, <3>4
      <3>8. OriginIsOld'
        BY <3>5, <3>6, <3>7 DEF OriginIsOld
      <3> QED
        BY <3>2, <3>4, <3>7, <3>8 DEF Buffer
    <2> QED
      BY <2>1, <2>2
  <1> QED
    BY <1>1, <1>5, <1>6, <1>8, <1>9 DEF Inv, Screen, Keeps

\* action_edit: there is one default again, and an entry that was shown is
\* shown as it is now; the active index of any other entry is undisturbed.
LEMMA EditStep ==
    ASSUME Inv, NEW place \in Place, NEW units \in Units, NEW isDefault \in BOOLEAN,
           Edit(place, units, isDefault)
    PROVE  Keeps /\ Selected' = Selected
  <1>1. PICK i : i = Selected
    OBVIOUS
  <1>2. /\ Good(cfg) /\ cfg \in Config /\ list \in List /\ filtering \in BOOLEAN
        /\ Screen
    BY DEF Inv, Screen, Good
  <1>3. i \in 1 .. Len(cfg.locs) /\ Len(cfg.locs) \in Nat
    BY <1>1, <1>2, SelectedElements DEF Edit
  <1>4. PICK entry : entry = Entry(place, units, isDefault)
    OBVIOUS
  <1>5. entry \in Location
    BY <1>4 DEF Entry, Location
  <1>6. PICK edited : edited = WithEntry(cfg, i, entry)
    OBVIOUS
  <1>7. /\ edited \in Config /\ Len(edited.locs) = Len(cfg.locs)
        /\ edited.active = cfg.active /\ edited.geo = cfg.geo
        /\ edited.current = cfg.current
        /\ \A k \in 1 .. Len(cfg.locs) : k # i => edited.locs[k] = cfg.locs[k]
    <2>1. PICK locs : locs = [cfg.locs EXCEPT ![i] = entry]
      OBVIOUS
    <2>2. edited = [cfg EXCEPT !.locs = locs]
      BY <1>6, <2>1 DEF WithEntry
    <2>3. /\ locs \in Seq(Location) /\ Len(locs) = Len(cfg.locs)
          /\ \A k \in 1 .. Len(cfg.locs) : k # i => locs[k] = cfg.locs[k]
      <3>1. cfg.locs \in Seq(Location)
        BY <1>2 DEF Config
      <3> QED
        BY <1>3, <1>5, <2>1, <3>1
    <2> QED
      BY <1>2, <2>2, <2>3 DEF Config
  <1>8. PICK j : j = IF edited.locs[i].isDefault THEN i ELSE ConfigDefaultIndex(edited)
    OBVIOUS
  <1>9. j \in Nat
    <2>1. ConfigDefaultIndex(edited) = Cmd!ConfigDefaultIndex(edited)
      BY DEF ConfigDefaultIndex, SelectInSeq, Min, Cmd!ConfigDefaultIndex,
             Cmd!SelectInSeq, Cmd!Min
    <2>2. Cmd!ConfigDefaultIndex(edited) \in 0 .. Len(edited.locs)
      BY <1>7, SameWords, Cmd!DefaultIndexRange, CmdAssumptions
    <2> QED
      BY <1>3, <1>7, <1>8, <2>1, <2>2
  <1>10. PICK marked : marked = Marked(edited, i)
    OBVIOUS
  <1>11. marked = ConfigSetDefault(edited, j)
    BY <1>8, <1>10 DEF Marked
  <1>12. /\ Good(marked) /\ Len(marked.locs) = Len(cfg.locs)
         /\ \A k \in 1 .. Len(cfg.locs) : marked.locs[k].place = edited.locs[k].place
         /\ marked.current = cfg.current /\ marked.active = cfg.active
         /\ marked.geo = cfg.geo
    <2>1. /\ Len(edited.locs) <= MaxLocations
          /\ edited.active = None \/ InRange(edited, edited.active)
      BY <1>2, <1>7 DEF Good, WellFormed, InRange
    <2> QED
      BY <1>7, <1>9, <1>11, <2>1, SetDefaultKeeps
  <1>13. PICK c : c = Reused(marked, i, Shown(cfg) = i)
    OBVIOUS
  <1>14. /\ cfg' = c /\ list' = SelectIndex(Rebuilt(list, c), c, i)
         /\ KeepsUndo /\ filtering' = filtering
    BY <1>1, <1>4, <1>6, <1>10, <1>13 DEF Edit
  <1>15. /\ Good(c) /\ Len(c.locs) = Len(cfg.locs)
         /\ Consistent(cfg) => Consistent(c)
    <2>1. CASE Shown(cfg) = i
      <3>1. c = ConfigUse(marked, i)
        BY <1>13, <2>1 DEF Reused
      <3> QED
        BY <1>3, <1>12, <3>1, UseKeeps
    <2>2. CASE Shown(cfg) # i
      <3>1. c = marked
        BY <1>13, <2>2 DEF Reused
      <3>2. ASSUME Consistent(cfg), c.active # None
            PROVE  /\ InRange(c, c.active)
                   /\ c.locs[c.active].place = cfg.locs[cfg.active].place
        <4>1. cfg.active # None /\ c.active = cfg.active
          BY <1>12, <3>1, <3>2
        <4>2. cfg.active # i
          BY <1>2, <2>2, <3>2, <4>1, ShownElements
        <4>3. cfg.active \in 1 .. Len(cfg.locs)
          BY <3>2, <4>1 DEF Consistent, ActiveIsCurrent, InRange
        <4>4. marked.locs[cfg.active].place = edited.locs[cfg.active].place
          BY <1>12, <4>3
        <4>5. edited.locs[cfg.active] = cfg.locs[cfg.active]
          BY <1>7, <4>2, <4>3
        <4> QED
          BY <1>12, <3>1, <4>1, <4>3, <4>4, <4>5 DEF InRange
      <3>3. Consistent(cfg) => Consistent(c)
        <4>1. CASE c.active = None
          BY <4>1 DEF Consistent, ActiveIsCurrent
        <4>2. CASE c.active # None
          BY <1>12, <3>1, <3>2, <4>2, StillCurrent
        <4> QED
          BY <4>1, <4>2
      <3> QED
        BY <1>12, <3>1, <3>3
    <2> QED
      BY <2>1, <2>2
  <1>16. /\ list' \in List /\ Valid(list', c)
         /\ list'.view # << >> /\ list'.view[list'.sel] = i
    BY <1>2, <1>3, <1>14, <1>15, RebuiltAndSelected DEF Good
  <1>17. Buffer'
    BY <1>14, <1>15, BufferStays DEF Inv
  <1>18. Selected' = i
    BY <1>16 DEF Selected
  <1> QED
    BY <1>1, <1>2, <1>14, <1>15, <1>16, <1>17, <1>18 DEF Inv, Screen, Keeps

\* action_units: the view is not rebuilt, and need not be.
LEMMA EditUnitsStep ==
    ASSUME Inv, NEW units \in Units, EditUnits(units)
    PROVE  Keeps
  <1>1. PICK i : i = Selected
    OBVIOUS
  <1>2. Good(cfg) /\ Screen
    BY DEF Inv, Screen
  <1>3. i \in 1 .. Len(cfg.locs)
    BY <1>1, <1>2, SelectedElements DEF EditUnits
  <1>4. PICK c : c = [cfg EXCEPT !.locs[i].units = units]
    OBVIOUS
  <1>5. /\ Good(c) /\ Len(c.locs) = Len(cfg.locs)
        /\ \A k \in 1 .. Len(cfg.locs) : c.locs[k].place = cfg.locs[k].place
        /\ Consistent(cfg) => Consistent(c)
    BY <1>2, <1>3, <1>4, UnitsKeep
  <1>6. /\ cfg' = IF Shown(c) = i THEN ConfigUse(c, i) ELSE c
        /\ KeepsUndo /\ UNCHANGED <<list, filtering>>
    BY <1>1, <1>4 DEF EditUnits, Reused
  <1>7. CASE Shown(c) = i
    <2>1. cfg' = ConfigUse(c, i) /\ i \in 1 .. Len(c.locs)
      BY <1>3, <1>5, <1>6, <1>7
    <2>2. Good(cfg') /\ cfg'.locs = c.locs /\ Consistent(cfg')
      BY <1>5, <2>1, UseKeeps
    <2> QED
      BY <1>5, <1>6, <2>2, KeepsOfSamePlaces
  <1>8. CASE Shown(c) # i
    BY <1>5, <1>6, <1>8, KeepsOfSamePlaces
  <1> QED
    BY <1>7, <1>8

\* action_default.
LEMMA DefaultStep ==
    ASSUME Inv, Default
    PROVE  Keeps
  <1>1. PICK i : i = IF cfg.locs[Selected].isDefault THEN None ELSE Selected
    OBVIOUS
  <1>2. /\ cfg' = ConfigSetDefault(cfg, i)
        /\ KeepsUndo /\ UNCHANGED <<list, filtering>>
    BY <1>1 DEF Default
  <1>3. Screen /\ Good(cfg)
    BY DEF Inv, Screen
  <1>4. Selected \in 1 .. Len(cfg.locs) /\ Len(cfg.locs) \in Nat
    BY <1>3, SelectedElements DEF Default
  <1>5. i \in Nat
    BY <1>1, <1>4 DEF None
  <1>6. /\ Good(cfg') /\ Len(cfg'.locs) = Len(cfg.locs)
        /\ \A k \in 1 .. Len(cfg.locs) : cfg'.locs[k].place = cfg.locs[k].place
        /\ Consistent(cfg) => Consistent(cfg')
    BY <1>2, <1>3, <1>5, SetDefaultKeeps DEF Good, WellFormed
  <1> QED
    BY <1>2, <1>6, KeepsOfSamePlaces

\* action_move: the entry moves and the selection with it.
LEMMA MoveStep ==
    ASSUME Inv, NEW dir \in {-1, 1}, Move(dir)
    PROVE  Keeps /\ Selected' = Selected + dir
  <1>1. PICK i : i = Selected
    OBVIOUS
  <1>2. PICK to : to = i + dir
    OBVIOUS
  <1>3. PICK c : c = ConfigMove(cfg, i, to)
    OBVIOUS
  <1>4. /\ to \in 1 .. Len(cfg.locs) /\ cfg' = c
        /\ undo' = NoUndo
        /\ origin' = IF undo'.has THEN Shift(origin, i, to) ELSE << >>
        /\ list' = SelectIndex(Rebuilt(list, c), c, to)
        /\ filtering' = filtering
    BY <1>1, <1>2, <1>3 DEF Move, InRange, AfterMoveUndo
  <1>5. Screen /\ Good(cfg) /\ list \in List /\ filtering \in BOOLEAN
    BY DEF Inv, Screen
  <1>6. i \in 1 .. Len(cfg.locs)
    BY <1>1, <1>5, SelectedElements DEF Move
  <1>7. /\ Good(c) /\ Len(c.locs) = Len(cfg.locs)
        /\ Consistent(cfg) => Consistent(c)
    BY <1>3, <1>4, <1>5, <1>6, MoveKeeps
  <1>8. /\ list' \in List /\ Valid(list', c)
        /\ list'.view # << >> /\ list'.view[list'.sel] = to
    BY <1>4, <1>5, <1>7, RebuiltAndSelected DEF Good
  <1>9. ~undo'.has
    BY <1>4, NoUndoElements, Zenon
  <1>10. Buffer'
    BY <1>4, <1>9, Forgotten
  <1>11. Selected' = to
    BY <1>8 DEF Selected
  <1> QED
    BY <1>1, <1>2, <1>4, <1>5, <1>7, <1>8, <1>10, <1>11 DEF Inv, Screen, Keeps

\* action_delete.
LEMMA DeleteStep ==
    ASSUME Inv, Delete
    PROVE  Keeps
  <1>1. PICK i : i = Selected
    OBVIOUS
  <1>2. PICK c : c = ConfigRemove(cfg, i)
    OBVIOUS
  <1>3. PICK n : n = Len(cfg.locs)
    OBVIOUS
  <1>4. /\ undo' = [has |-> TRUE, loc |-> cfg.locs[i], at |-> i, shown |-> Shown(cfg) = i]
        /\ cfg' = c /\ list' = Rebuilt(list, c)
        /\ origin' = RemoveAt([k \in DOMAIN cfg.locs |-> k], i)
        /\ filtering' = filtering
    BY <1>1, <1>2 DEF Delete, AfterDelete
  <1>5. /\ Screen /\ Good(cfg) /\ list \in List /\ filtering \in BOOLEAN
        /\ cfg.locs \in Seq(Location) /\ DOMAIN cfg.locs = 1 .. n
        /\ n \in Nat /\ n <= MaxLocations
    BY <1>3 DEF Inv, Screen, Good, Config, WellFormed
  <1>6. i \in 1 .. n
    BY <1>1, <1>3, <1>5, SelectedElements DEF Delete
  <1>7. /\ Good(c) /\ Len(c.locs) = n - 1
        /\ Consistent(cfg) => Consistent(c)
    BY <1>2, <1>3, <1>5, <1>6, RemoveKeeps
  <1>8. list' \in List /\ Valid(list', c)
    BY <1>4, <1>5, <1>7, RebuiltElements DEF Good
  <1>9. undo' \in Deletion /\ undo'.has /\ undo'.at = i
    <2>1. cfg.locs[i] \in Location /\ i \in 1 .. MaxLocations
      BY <1>3, <1>5, <1>6, LimitAssumption
    <2> QED
      BY <1>4, <2>1 DEF Deletion
  <1>10. /\ origin' \in Seq(0 .. MaxLocations) /\ Len(origin') = n - 1
         /\ \A k \in 1 .. n - 1 : origin'[k] = IF k < i THEN k ELSE k + 1
    <2>1. PICK S : S = 0 .. MaxLocations
      OBVIOUS
    <2>2. PICK all : all = [k \in 1 .. n |-> k]
      OBVIOUS
    <2>3. all \in Seq(S) /\ Len(all) = n /\ \A k \in 1 .. n : all[k] = k
      <3>1. \A k \in 1 .. n : k \in S
        BY <1>5, <2>1, LimitAssumption
      <3> QED
        BY <1>5, <2>2, <3>1
    <2>4. origin' = RemoveAt(all, i)
      BY <1>4, <1>5, <2>2
    <2>5. /\ RemoveAt(all, i) \in Seq(S)
          /\ Len(RemoveAt(all, i)) = n - 1
          /\ \A k \in 1 .. n - 1 : RemoveAt(all, i)[k] = all[IF k < i THEN k ELSE k + 1]
      BY <1>6, <2>3, RemoveAtIs
    <2>6. \A k \in 1 .. n - 1 : (IF k < i THEN k ELSE k + 1) \in 1 .. n
      BY <1>5, <1>6
    <2> QED
      BY <2>1, <2>3, <2>4, <2>5, <2>6
  <1>11. OriginIsOld'
    <2>1. n \in 1 .. Len(origin') + 1 /\ undo'.at <= n
      BY <1>5, <1>6, <1>9, <1>10
    <2>2. ASSUME NEW k \in 1 .. Len(origin')
          PROVE  origin'[k] = IF k < undo'.at THEN k ELSE IF k < n THEN k + 1 ELSE 0
      BY <1>5, <1>6, <1>9, <1>10
    <2>3. Len(origin') = Len(cfg'.locs)
      BY <1>4, <1>7, <1>10
    <2> QED
      BY <2>1, <2>2, <2>3 DEF OriginIsOld
  <1> QED
    BY <1>4, <1>5, <1>7, <1>8, <1>9, <1>10, <1>11 DEF Inv, Screen, Buffer, Keeps

\* The entry comes back, at the place it had or at the end.
LEMMA UndoneElements ==
    ASSUME NEW c, Good(c), ~Full(c), NEW u \in Deletion, NEW b, b = Undone(c, u)
    PROVE  /\ Target(c, u) \in 1 .. Len(c.locs) + 1
           /\ Good(b) /\ Len(b.locs) = Len(c.locs) + 1
           /\ \A k \in 1 .. Len(c.locs) + 1 :
                b.locs[k] = ConfigAdd(c, u.loc).locs[
                              Before(Len(c.locs) + 1, Target(c, u), k)]
           /\ b.current = c.current /\ b.geo = c.geo
           /\ b.active = IF u.shown /\ ~c.geo THEN Target(c, u)
                         ELSE AfterMove(c.active, Len(c.locs) + 1, Target(c, u))
           /\ Consistent(c) /\ ~Consistent(b) =>
                u.shown /\ ~SamePlace(u.loc, c.current)
  <1>1. u.loc \in Location /\ u.at \in Nat \ {0} /\ u.shown \in BOOLEAN
    BY LimitAssumption DEF Deletion
  <1>2. PICK n : n = Len(c.locs) + 1
    OBVIOUS
  <1>3. n \in Nat \ {0}
    BY <1>2 DEF Good, Config
  <1>4. PICK to : to = Target(c, u)
    OBVIOUS
  <1>5. to \in 1 .. n
    BY <1>1, <1>2, <1>3, <1>4 DEF Target
  <1>6. PICK added : added = ConfigAdd(c, u.loc)
    OBVIOUS
  <1>7. /\ Good(added) /\ Len(added.locs) = n
        /\ added.current = c.current /\ added.active = c.active /\ added.geo = c.geo
        /\ Consistent(c) => Consistent(added)
    BY <1>1, <1>2, <1>6, AddKeeps
  <1>8. PICK moved : moved = ConfigMove(added, n, to)
    OBVIOUS
  <1>9. n \in 1 .. Len(added.locs) /\ to \in 1 .. Len(added.locs)
    BY <1>3, <1>5, <1>7
  <1>10. /\ Good(moved) /\ Len(moved.locs) = n
         /\ \A k \in 1 .. n : moved.locs[k] = added.locs[Before(n, to, k)]
         /\ moved.current = c.current /\ moved.geo = c.geo
         /\ moved.active = AfterMove(c.active, n, to)
         /\ Consistent(c) => Consistent(moved)
    BY <1>7, <1>8, <1>9, MoveKeeps
  <1>11. b = IF u.shown /\ ~c.geo THEN [moved EXCEPT !.active = to] ELSE moved
    BY <1>2, <1>4, <1>6, <1>8 DEF Undone
  <1>12. CASE u.shown /\ ~c.geo
    <2>1. b = [moved EXCEPT !.active = to]
      BY <1>11, <1>12
    <2>2. /\ b \in Config /\ b.locs = moved.locs /\ b.active = to
          /\ b.current = moved.current /\ b.geo = moved.geo
      <3>1. moved \in Config /\ to \in Nat
        BY <1>5, <1>10 DEF Good
      <3> QED
        BY <2>1, <3>1 DEF Config
    <2>3. Good(b)
      <3>1. OneDefault(b) /\ Len(b.locs) <= MaxLocations
        BY <1>10, <2>2 DEF Good, WellFormed, OneDefault
      <3>2. InRange(b, b.active)
        BY <1>5, <1>10, <2>2 DEF InRange
      <3> QED
        BY <2>2, <3>1, <3>2 DEF Good, WellFormed
    <2>4. b.locs[to] = u.loc
      <3>1. Before(n, to, to) = n
        BY DEF Before
      <3>2. added.locs[n] = u.loc
        BY <1>1, <1>2, <1>6, AddElements
      <3> QED
        BY <1>5, <1>10, <2>2, <3>1, <3>2
    <2>5. SamePlace(u.loc, c.current) => Consistent(b)
      BY <1>5, <1>10, <1>12, <2>2, <2>4 DEF Consistent, ActiveIsCurrent, InRange
    <2> QED
      BY <1>2, <1>4, <1>5, <1>6, <1>10, <1>12, <2>2, <2>3, <2>5
  <1>13. CASE ~(u.shown /\ ~c.geo)
    <2>1. b = moved
      BY <1>11, <1>13
    <2> QED
      BY <1>2, <1>4, <1>5, <1>6, <1>10, <1>13, <2>1
  <1> QED
    BY <1>12, <1>13

\* action_undo, which may leave the active index where current is not.
LEMMA UndoStep ==
    ASSUME Inv, Undo
    PROVE  /\ Inv' /\ Selected' = Target(cfg, undo)
           /\ Consistent(cfg) /\ ~Consistent(cfg') =>
                undo.shown /\ ~SamePlace(undo.loc, cfg.current)
  <1>1. PICK c : c = Undone(cfg, undo)
    OBVIOUS
  <1>2. PICK to : to = Target(cfg, undo)
    OBVIOUS
  <1>3. /\ ~Full(cfg) /\ cfg' = c
        /\ list' = SelectIndex(Rebuilt(list, c), c, to)
        /\ undo' = NoUndo /\ origin' = << >> /\ filtering' = filtering
    BY <1>1, <1>2 DEF Undo
  <1>4. Good(cfg) /\ list \in List /\ filtering \in BOOLEAN /\ undo \in Deletion
    BY DEF Inv, Screen, Buffer
  <1>5. /\ Good(c) /\ to \in 1 .. Len(c.locs)
        /\ Consistent(cfg) /\ ~Consistent(c) =>
             undo.shown /\ ~SamePlace(undo.loc, cfg.current)
    BY <1>1, <1>2, <1>3, <1>4, UndoneElements
  <1>6. /\ list' \in List /\ Valid(list', c)
        /\ list'.view # << >> /\ list'.view[list'.sel] = to
    BY <1>3, <1>4, <1>5, RebuiltAndSelected DEF Good
  <1>7. Buffer'
    BY <1>3, Forgotten
  <1>8. Selected' = to
    BY <1>6 DEF Selected
  <1> QED
    BY <1>2, <1>3, <1>4, <1>5, <1>6, <1>7, <1>8 DEF Inv, Screen

LEMMA StepKeeps ==
    ASSUME Inv, Next, ~Undo, ~Reload
    PROVE  Keeps
  <1>1. EditsTheList => Keeps
    BY AddStep, EditStep, EditUnitsStep, DefaultStep, MoveStep, DeleteStep
       DEF EditsTheList
  <1> QED
    BY <1>1, EditsWhatIsShownKeeps, LooksKeeps DEF Next

LEMMA NextMaintainsInv == Inv /\ [Next]_vars => Inv'
  <1> SUFFICES ASSUME Inv, [Next]_vars PROVE Inv'
    OBVIOUS
  <1>1. CASE UNCHANGED vars
    BY <1>1 DEF vars, Inv, Screen, Buffer, OriginIsOld
  <1>2. CASE Undo
    BY <1>2, UndoStep
  <1>3. CASE Reload
    BY <1>3, ReloadKeeps
  <1>4. CASE Next /\ ~Undo /\ ~Reload
    BY <1>4, StepKeeps DEF Keeps
  <1> QED
    BY <1>1, <1>2, <1>3, <1>4

LEMMA InvIsInvariant == Spec => []Inv
  <1>1. Init => Inv
    BY InitEstablishesInv
  <1>2. Inv /\ [Next]_vars => Inv'
    BY NextMaintainsInv
  <1> QED
    BY <1>1, <1>2, PTL DEF Spec

----------------------------------------------------------------------------
(* What the module's runs check, for every value of the constants          *)

\* The record, the list, the undo buffer and the history have their types.
THEOREM TypeCorrect == Spec => []TypeOK
  BY InvIsInvariant, InvImplies, PTL

\* Whatever the TUI did to it, the record has one default at most, no more
\* entries than fit, and an active index inside the list (action_edit,
\* action_undo, add_location).
THEOREM RecordsAreWellFormed == Spec => []RecordIsWellFormed
  BY InvIsInvariant, InvImplies, PTL

\* The screen lists what passes the filter, and the highlighted row is a row
\* of it: no key acts on an entry that is gone (rebuild_view after every
\* handler that needs it, and only after those).
THEOREM ViewsAreValid == Spec => []ViewIsValid
  BY InvIsInvariant, InvImplies, PTL

\* Whatever file it opened or reloaded, no key takes the active index of a
\* consistent record off current, except undoing the deletion of the location
\* that was shown once current is elsewhere (config.h:57, action_undo).
THEOREM EditsAreConsistent == Spec => EditsStayConsistent
  <1> DEFINE Exempt == \/ Reload
                       \/ Undo /\ undo.shown /\ ~SamePlace(undo.loc, cfg.current)
  <1>1. ASSUME Inv, [Next]_vars
        PROVE  [Consistent(cfg) /\ ~Consistent(cfg') => Exempt]_vars
    <2>1. CASE Undo
      BY <1>1, <2>1, UndoStep
    <2>2. CASE Next /\ ~Undo /\ ~Reload
      BY <1>1, <2>2, StepKeeps DEF Keeps
    <2> QED
      BY <1>1, <2>1, <2>2
  <1> QED
    BY <1>1, InvIsInvariant, PTL DEF Spec, EditsStayConsistent

\* The selection follows an entry that was edited, moved or restored, past any
\* filter (select_index).
THEOREM SelectionsFollow == Spec => SelectionFollows
  <1> DEFINE Follows ==
        /\ Selected' # Selected =>
             \A p \in Place, u \in Units, d \in BOOLEAN : ~Edit(p, u, d)
        /\ \A dir \in {-1, 1} : Move(dir) => Selected' = Selected + dir
        /\ Undo => Selected' = Target(cfg, undo)
  <1>1. ASSUME Inv
        PROVE  Follows
    BY <1>1, EditStep, MoveStep, UndoStep
  <1>2. Inv /\ [Next]_vars => [Follows]_vars
    BY <1>1
  <1> QED
    BY <1>2, InvIsInvariant, PTL DEF Spec, SelectionFollows

\* A deletion undone at once: the entry is appended and moved back, so list,
\* default and what is shown are as they were.
LEMMA DeletedAndUndone ==
    ASSUME Inv, Delete, NEW back, back = Undone(cfg', undo')
    PROVE  /\ back.locs = cfg.locs
           /\ back.current = cfg.current
           /\ Shown(back) = Shown(cfg)
  <1>1. PICK i : i = Selected
    OBVIOUS
  <1>2. PICK c : c = ConfigRemove(cfg, i)
    OBVIOUS
  <1>3. PICK n : n = Len(cfg.locs)
    OBVIOUS
  <1>4. PICK u : u = [has |-> TRUE, loc |-> cfg.locs[i], at |-> i,
                      shown |-> Shown(cfg) = i]
    OBVIOUS
  <1>5. back = Undone(c, u)
    BY <1>1, <1>2, <1>4 DEF Delete
  <1>6. /\ Screen /\ Good(cfg) /\ cfg \in Config /\ cfg.locs \in Seq(Location)
        /\ n \in Nat /\ n <= MaxLocations /\ cfg.active \in 0 .. n
    BY <1>3 DEF Inv, Screen, Good, Config, WellFormed, InRange, None
  <1>7. i \in 1 .. n
    BY <1>1, <1>3, <1>6, SelectedElements DEF Delete
  <1>8. /\ Good(c) /\ Len(c.locs) = n - 1
        /\ \A k \in 1 .. n - 1 : c.locs[k] = cfg.locs[IF k < i THEN k ELSE k + 1]
        /\ c.current = cfg.current /\ c.geo = cfg.geo
        /\ c.active = AfterRemoval(cfg.active, i)
    BY <1>2, <1>3, <1>6, <1>7, RemoveKeeps
  <1>9. /\ u \in Deletion /\ u.loc \in Location /\ u.loc = cfg.locs[i] /\ u.at = i
        /\ u.shown <=> Shown(cfg) = i
    <2>1. cfg.locs[i] \in Location /\ i \in 1 .. MaxLocations
      BY <1>3, <1>6, <1>7, LimitAssumption
    <2> QED
      BY <1>4, <2>1 DEF Deletion
  <1>10. ~Full(c) /\ Target(c, u) = i
    BY <1>6, <1>7, <1>8, <1>9, LimitAssumption DEF Full, Target
  <1>11. Len(c.locs) + 1 = n
    BY <1>6, <1>8
  <1>12. PICK added : added = ConfigAdd(c, u.loc)
    OBVIOUS
  <1>13. /\ \A k \in 1 .. n - 1 : added.locs[k] = c.locs[k]
         /\ added.locs[n] = cfg.locs[i]
    <2>1. \A j, k \in 1 .. n : cfg.locs[j].isDefault /\ cfg.locs[k].isDefault => j = k
      BY <1>3, <1>6, Zenon DEF Good, WellFormed, OneDefault
    <2>2. ASSUME NEW k \in 1 .. n - 1, c.locs[k].isDefault
          PROVE  ~u.loc.isDefault
      <3>1. PICK m : m = IF k < i THEN k ELSE k + 1
        OBVIOUS
      <3>2. m \in 1 .. n /\ m # i /\ c.locs[k] = cfg.locs[m]
        BY <1>6, <1>7, <1>8, <3>1
      <3> QED
        BY <1>7, <1>9, <2>1, <2>2, <3>2
    <2> QED
      BY <1>8, <1>9, <1>11, <1>12, <2>2, AddElements
  <1>14. /\ Good(back) /\ Len(back.locs) = n
         /\ \A k \in 1 .. n : back.locs[k] = added.locs[Before(n, i, k)]
         /\ back.current = cfg.current /\ back.geo = cfg.geo
         /\ back.active = IF u.shown /\ ~cfg.geo THEN i ELSE AfterMove(c.active, n, i)
    <2>1. Good(c) /\ ~Full(c) /\ u \in Deletion
      BY <1>8, <1>9, <1>10
    <2>2. /\ Good(back) /\ Len(back.locs) = Len(c.locs) + 1
          /\ \A k \in 1 .. Len(c.locs) + 1 :
               back.locs[k] = ConfigAdd(c, u.loc).locs[
                                Before(Len(c.locs) + 1, Target(c, u), k)]
          /\ back.current = c.current /\ back.geo = c.geo
          /\ back.active = IF u.shown /\ ~c.geo THEN Target(c, u)
                           ELSE AfterMove(c.active, Len(c.locs) + 1, Target(c, u))
      BY <1>5, <2>1, UndoneElements
    <2> QED
      BY <1>8, <1>10, <1>11, <1>12, <2>2
  <1>15. back.locs = cfg.locs
    <2>1. ASSUME NEW k \in 1 .. n
          PROVE  back.locs[k] = cfg.locs[k]
      <3>1. back.locs[k] = added.locs[Before(n, i, k)]
        BY <1>14
      <3>2. CASE k = i
        BY <1>13, <3>1, <3>2 DEF Before
      <3>3. CASE k < i
        <4>1. Before(n, i, k) = k /\ k \in 1 .. n - 1
          BY <1>6, <1>7, <3>3 DEF Before
        <4> QED
          BY <1>8, <1>13, <3>1, <3>3, <4>1
      <3>4. CASE k > i
        <4>1. Before(n, i, k) = k - 1 /\ k - 1 \in 1 .. n - 1 /\ ~(k - 1 < i)
          BY <1>6, <1>7, <3>4 DEF Before
        <4>2. added.locs[k - 1] = cfg.locs[k]
          BY <1>6, <1>8, <1>13, <4>1
        <4> QED
          BY <3>1, <4>1, <4>2
      <3> QED
        BY <1>6, <1>7, <3>2, <3>3, <3>4
    <2>2. back.locs \in Seq(Location)
      BY <1>14 DEF Good, Config
    <2> QED
      BY <1>3, <1>6, <1>14, <2>1, <2>2, SeqEqual
  <1>16. Shown(back) = Shown(cfg)
    <2>1. CASE cfg.geo
      BY <1>14, <2>1 DEF Shown
    <2>2. CASE ~cfg.geo /\ Shown(cfg) = i
      <3>1. i # None /\ SamePlace(cfg.locs[i], cfg.current)
        BY <1>6, <1>7, <2>2, MatchElements DEF Shown, None
      <3>2. back.active = i /\ ~back.geo
        BY <1>9, <1>14, <2>2
      <3>3. InRange(back, i)
        BY <1>7, <1>14 DEF InRange
      <3> QED
        BY <1>14, <1>15, <2>2, <3>1, <3>2, <3>3 DEF Shown, ConfigMatchCurrent
    <2>3. CASE ~cfg.geo /\ Shown(cfg) # i
      <3>1. back.active = AfterMove(AfterRemoval(cfg.active, i), n, i)
        BY <1>8, <1>9, <1>14, <2>3
      <3>2. CASE cfg.active # i
        <4>1. back.active = cfg.active
          BY <1>6, <1>7, <3>1, <3>2 DEF AfterMove, AfterRemoval, None
        <4> QED
          BY <1>14, <1>15, <4>1 DEF Shown, ConfigMatchCurrent, InRange
      <3>3. CASE cfg.active = i
        <4>1. back.active = None
          BY <1>6, <1>7, <3>1, <3>3 DEF AfterMove, AfterRemoval, None
        <4>2. InRange(cfg, i) /\ ~InRange(back, None)
          BY <1>3, <1>6, <1>7, <1>14 DEF InRange, None
        <4>3. ~SamePlace(cfg.locs[i], cfg.current)
          BY <2>3, <3>3, <4>2 DEF Shown, ConfigMatchCurrent
        <4> QED
          BY <1>14, <1>15, <2>3, <3>3, <4>1, <4>2, <4>3 DEF Shown, ConfigMatchCurrent
      <3> QED
        BY <3>2, <3>3
    <2> QED
      BY <2>1, <2>2, <2>3
  <1> QED
    BY <1>14, <1>15, <1>16

\* Deleting and undoing at once gives back the list, the default and what is
\* shown, from wherever the entry was deleted (action_undo).
THEOREM DeletionsAreUndone == Spec => DeleteIsUndone
  <1>1. ASSUME Inv, Delete
        PROVE  LET back == Undone(cfg', undo') IN
               /\ back.locs = cfg.locs
               /\ back.current = cfg.current
               /\ Shown(back) = Shown(cfg)
    BY <1>1, DeletedAndUndone
  <1>2. Inv /\ [Next]_vars =>
          [Delete => LET back == Undone(cfg', undo') IN
             /\ back.locs = cfg.locs
             /\ back.current = cfg.current
             /\ Shown(back) = Shown(cfg)]_vars
    BY <1>1
  <1> QED
    BY <1>2, InvIsInvariant, PTL DEF Spec, DeleteIsUndone

\* Undone later, the entry is between the neighbours it had: the old entries
\* are 1 to n in order, and the new ones follow (action_undo inserts at the
\* old position, and action_move forgets the deletion).
THEOREM UndoneInOrder == Spec => UndoRestoresOrder
  <1> DEFINE InOrder ==
        LET restored == InsertAt(origin, Target(cfg, undo), undo.at)
            old      == {k \in DOMAIN restored : restored[k] # 0}
        IN /\ \A j, k \in old : j < k => restored[j] < restored[k]
           /\ \E n \in 0 .. Len(restored) : {restored[k] : k \in old} = 1 .. n
  <1>1. ASSUME Inv, Undo
        PROVE  InOrder
    <2>1. /\ undo \in Deletion /\ undo.has /\ origin \in Seq(0 .. MaxLocations)
          /\ OriginIsOld /\ undo.at \in 1 .. MaxLocations
      BY <1>1 DEF Inv, Buffer, Undo, Deletion
    <2>2. PICK n \in 1 .. Len(origin) + 1 :
            /\ undo.at <= n
            /\ \A k \in 1 .. Len(origin) :
                 origin[k] = IF k < undo.at THEN k ELSE IF k < n THEN k + 1 ELSE 0
      BY <2>1 DEF OriginIsOld
    <2>3. PICK at : at = undo.at
      OBVIOUS
    <2>4. PICK m : m = Len(origin)
      OBVIOUS
    <2>5. m \in Nat /\ at \in 1 .. n /\ n \in 1 .. m + 1 /\ m = Len(cfg.locs)
      BY <2>1, <2>2, <2>3, <2>4 DEF OriginIsOld
    <2>6. Target(cfg, undo) = at
      BY <2>3, <2>5 DEF Target
    <2>7. PICK restored : restored = InsertAt(origin, at, at)
      OBVIOUS
    <2>8. /\ restored \in Seq(0 .. MaxLocations) /\ Len(restored) = m + 1
          /\ \A k \in 1 .. m + 1 :
               restored[k] = IF k < at THEN origin[k]
                             ELSE IF k = at THEN at ELSE origin[k - 1]
      <3>1. PICK S : S = 0 .. MaxLocations
        OBVIOUS
      <3>2. origin \in Seq(S) /\ at \in S /\ at \in 1 .. Len(origin) + 1
        BY <2>1, <2>3, <2>4, <2>5, <3>1
      <3>3. /\ InsertAt(origin, at, at) \in Seq(S)
            /\ Len(InsertAt(origin, at, at)) = Len(origin) + 1
            /\ \A k \in 1 .. Len(origin) + 1 :
                 InsertAt(origin, at, at)[k] =
                   IF k < at THEN origin[k] ELSE IF k = at THEN at ELSE origin[k - 1]
        BY <3>2, InsertAtElements
      <3> QED
        BY <2>4, <2>7, <3>1, <3>3
    <2>9. ASSUME NEW k \in 1 .. m + 1
          PROVE  restored[k] = IF k <= n THEN k ELSE 0
      <3>1. CASE k < at
        BY <2>2, <2>3, <2>4, <2>5, <2>8, <3>1
      <3>2. CASE k = at
        BY <2>5, <2>8, <3>2
      <3>3. CASE k > at
        <4>1. k - 1 \in 1 .. Len(origin) /\ restored[k] = origin[k - 1]
          BY <2>4, <2>5, <2>8, <3>3
        <4> QED
          BY <2>2, <2>3, <2>5, <3>3, <4>1
      <3> QED
        BY <2>5, <3>1, <3>2, <3>3
    <2>10. DOMAIN restored = 1 .. m + 1
      BY <2>5, <2>8
    <2>11. PICK old : old = {k \in DOMAIN restored : restored[k] # 0}
      OBVIOUS
    <2>12. old = 1 .. n
      BY <2>5, <2>9, <2>10, <2>11
    <2>13. \A k \in 1 .. n : restored[k] = k
      BY <2>5, <2>9
    <2>14. \A j, k \in old : j < k => restored[j] < restored[k]
      BY <2>12, <2>13
    <2>15. {restored[k] : k \in old} = 1 .. n
      BY <2>12, <2>13
    <2>16. n \in 0 .. Len(restored)
      BY <2>5, <2>8
    <2> QED
      BY <2>3, <2>6, <2>7, <2>11, <2>14, <2>15, <2>16
  <1>2. Inv /\ [Next]_vars => [Undo => InOrder]_vars
    BY <1>1
  <1> QED
    BY <1>2, InvIsInvariant, PTL DEF Spec, UndoRestoresOrder

=============================================================================
