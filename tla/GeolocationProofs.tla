-------------------------- MODULE GeolocationProofs --------------------------
(***************************************************************************)
(* Proofs about Geolocation, for every set of programs, every set of       *)
(* settings, both builds, every ttl and timeout and every bound on time.   *)
(*                                                                         *)
(* A call that is done got its position from a source, from the cached fix *)
(* or from the configuration; the inductive invariant says of each of the  *)
(* three, while the call is under way, what the properties say of its      *)
(* result: the sources still to be asked are allowed (Locating), what was  *)
(* found belongs to this call (Found), the fix in the file was found under *)
(* the setting it is filed under, at most a timeout before its stamp       *)
(* (FileInv), and the names cached for a cell are names of spots in it     *)
(* (PlacesInv).                                                            *)
(***************************************************************************)
EXTENDS Geolocation, TLAPS

\* What PositionIsAllowed asks of a position detected under a setting.
Permitted(provider, source) ==
    /\ source \in Source /\ provider \in {"auto", source}
    /\ source = "geoclue" => hasGeoclue

\* What NameIsOfPosition asks of the name of a detected position.
NameFits(name, pos) == name # Nothing => name \in Spot /\ CellOf(name) = CellOf(pos)

FileInv ==
    fixFile # Nothing => /\ Permitted(fixFile.provider, fixFile.source)
                         /\ NameFits(fixFile.name, fixFile.pos)
                         /\ fixFile.stamp <= fixFile.at + Timeout

PlacesInv == \A c \in Cell : places[c] # Nothing => CellOf(places[c]) = c

Timely(p) ==
    /\ run[p].pc # "idle" => run[p].provider \in Provider
    /\ run[p].began <= clock
    /\ Working(p) => clock <= run[p].began + Timeout

\* The configured location is all there is; only allowed sources are left.
Locating(p) ==
    run[p].pc = "locate" =>
      /\ run[p].pos = Nothing /\ run[p].name \in {Home, Nothing}
      /\ \A i \in DOMAIN run[p].chain : run[p].provider \in {"auto", run[p].chain[i]}

\* This call has detected a position.
Found(p) ==
    run[p].pc \in {"name", "ask", "store"} =>
      /\ run[p].pos \in Spot /\ Permitted(run[p].provider, run[p].source)
      /\ NameFits(run[p].name, run[p].pos)
      /\ run[p].at = run[p].began

\* What the three properties say of a call that is done.
Result(p) ==
    /\ Detected(p) => /\ Permitted(run[p].provider, run[p].source)
                      /\ NameFits(run[p].name, run[p].pos)
                      /\ \/ run[p].at = run[p].began
                         \/ /\ ~run[p].force
                            /\ run[p].began - run[p].at < GeoTtl + Timeout + back
    /\ run[p].pc = "done" /\ ~Detected(p) => run[p].name \in {run[p].pos, Nothing}

CallInv(p) == Timely(p) /\ Locating(p) /\ Found(p) /\ Result(p)

\* The inductive invariant.
Inv == TypeOK /\ FileInv /\ PlacesInv /\ \A p \in Procs : CallInv(p)

Call == [pc : {"idle", "locate", "name", "ask", "store", "done"},
         provider : Provider \cup {"auto"}, force : BOOLEAN,
         began : 0 .. MaxTime, chain : Seq(BuiltSources),
         source : Source \cup {Nothing},
         pos : Position \cup {Nothing},
         name : Position \cup {Nothing}, at : 0 .. MaxTime]

\* The sources of the build.
LEMMA SourcesOfTheBuild ==
    /\ Built \in Seq(BuiltSources) /\ BuiltSources \subseteq Source
    /\ "geoclue" \in BuiltSources => hasGeoclue
  <1>1. CASE hasGeoclue
    <2>1. Built = <<"gpsd", "geoclue", "ip">>
      BY <1>1 DEF Built
    <2>2. BuiltSources = {"gpsd", "geoclue", "ip"}
      BY <2>1 DEF BuiltSources
    <2> QED
      BY <1>1, <2>1, <2>2 DEF Source
  <1>2. CASE ~hasGeoclue
    <2>1. Built = <<"gpsd", "ip">>
      BY <1>2 DEF Built
    <2>2. BuiltSources = {"gpsd", "ip"}
      BY <2>1 DEF BuiltSources
    <2> QED
      BY <1>2, <2>1, <2>2 DEF Source
  <1> QED
    BY <1>1, <1>2

\* Only sources of the build are asked, and only those the setting names.
LEMMA AllowedIsAllowed ==
    ASSUME NEW provider
    PROVE  /\ Allowed(provider) \in Seq(BuiltSources)
           /\ \A i \in DOMAIN Allowed(provider) :
                provider \in {"auto", Allowed(provider)[i]}
  <1>1. CASE provider = "auto"
    BY <1>1, SourcesOfTheBuild DEF Allowed
  <1>2. CASE provider # "auto" /\ provider \in BuiltSources
    <2>1. Allowed(provider) = <<provider>>
      BY <1>2 DEF Allowed
    <2> QED
      BY <1>2, <2>1
  <1>3. CASE provider # "auto" /\ provider \notin BuiltSources
    <2>1. Allowed(provider) = << >>
      BY <1>3 DEF Allowed
    <2> QED
      BY <2>1
  <1> QED
    BY <1>1, <1>2, <1>3

LEMMA IdleIsACall ==
    Idle \in Call /\ Idle.pc = "idle" /\ Idle.began = 0 /\ Idle.pos = Nothing
  BY MaxTimeAssumption DEF Idle, Call

LEMMA InitEstablishesInv == Init => Inv
  <1> SUFFICES ASSUME Init PROVE Inv
    OBVIOUS
  <1>1. TypeOK
    <2>1. run \in [Procs -> Call]
      BY IdleIsACall DEF Init
    <2> QED
      BY <2>1, MaxTimeAssumption DEF Init, TimeInit, TypeOK, TimeType, Call
  <1>2. ASSUME NEW p \in Procs
        PROVE  CallInv(p)
    <2>1. run[p] = Idle /\ clock = 0
      BY DEF Init, TimeInit
    <2> QED
      BY <2>1, IdleIsACall DEF CallInv, Timely, Working, Locating, Found, Result, Detected
  <1>3. FileInv /\ PlacesInv
    BY DEF Init, FileInv, PlacesInv
  <1> QED
    BY <1>1, <1>2, <1>3 DEF Inv

\* The types, for the steps of the proofs below.
LEMMA Types ==
    ASSUME TypeOK
    PROVE  /\ clock \in 0 .. MaxTime /\ clock \in Int /\ back \in {0, Jump}
           /\ back \in Nat /\ MaxTime \in Nat /\ Jump \in Nat /\ Timeout \in Nat
           /\ GeoTtl \in Nat
           /\ run \in [Procs -> Call]
           /\ \A p \in Procs : /\ run[p] \in Call /\ run[p].began \in Int
                               /\ run[p].at \in Int
           /\ \A f \in Fix : f # Nothing /\ f.at \in Int /\ f.stamp \in Int
  <1>1. /\ clock \in 0 .. MaxTime /\ back \in {0, Jump} /\ run \in [Procs -> Call]
    BY DEF TypeOK, TimeType, Call
  <1>2. /\ MaxTime \in Nat /\ Jump \in Nat /\ Timeout \in Nat /\ GeoTtl \in Nat
    BY MaxTimeAssumption, JumpAssumption, TimesAssumption
  <1>3. ASSUME NEW p \in Procs
        PROVE  run[p] \in Call /\ run[p].began \in Int /\ run[p].at \in Int
    <2>1. run[p] \in Call
      BY <1>1
    <2> QED
      BY <1>2, <2>1 DEF Call
  <1>4. \A f \in Fix : f # Nothing /\ f.at \in Int /\ f.stamp \in Int
    BY <1>2, NothingAssumption DEF Fix
  <1> QED
    BY <1>1, <1>2, <1>3, <1>4

\* A step of one program, which leaves time and the calls of the others alone.
LEMMA StepOfOne ==
    ASSUME Inv, NEW p \in Procs, NEW r \in Call,
           run' = [run EXCEPT ![p] = r], TimeStays, hasGeoclue' = hasGeoclue,
           fixFile' \in Fix \cup {Nothing}, FileInv',
           places' \in [Cell -> Spot \cup {Nothing}], PlacesInv', CallInv(p)'
    PROVE  Inv'
  <1>1. clock' = clock /\ back' = back
    BY DEF TimeStays
  <1>2. /\ run \in [Procs -> Call] /\ BuiltSources' = BuiltSources
    BY Types DEF Inv, BuiltSources, Built
  <1>3. TypeOK'
    <2>1. run' \in [Procs -> Call]
      BY <1>2
    <2> QED
      BY <1>1, <1>2, <2>1 DEF Inv, TypeOK, TimeType, Call
  <1>4. ASSUME NEW q \in Procs
        PROVE  CallInv(q)'
    <2>1. CASE q = p
      BY <2>1
    <2>2. CASE q # p
      <3>1. run'[q] = run[q]
        BY <1>2, <2>2
      <3> QED
        BY <1>1, <3>1 DEF Inv, CallInv, Timely, Working, Locating, Found, Result,
                          Detected, Permitted, NameFits
    <2> QED
      BY <2>1, <2>2
  <1> QED
    BY <1>3, <1>4 DEF Inv

\* A step of one program that leaves the files alone.
LEMMA StepOfCall ==
    ASSUME Inv, NEW p \in Procs, NEW r \in Call,
           run' = [run EXCEPT ![p] = r], TimeStays,
           UNCHANGED <<hasGeoclue, fixFile, places>>, CallInv(p)'
    PROVE  Inv'
  <1>1. fixFile' \in Fix \cup {Nothing} /\ FileInv'
    BY DEF Inv, TypeOK, FileInv, Permitted, NameFits
  <1>2. places' \in [Cell -> Spot \cup {Nothing}] /\ PlacesInv'
    BY DEF Inv, TypeOK, PlacesInv
  <1> QED
    BY <1>1, <1>2, StepOfOne

\* geolocate begins: the cached fix is used, or the allowed sources are asked.
LEMMA BeginMaintainsInv ==
    ASSUME Inv, NEW p \in Procs, NEW provider \in Provider, NEW force \in BOOLEAN,
           NEW home \in {Home, Nothing}, Begin(p, provider, force, home)
    PROVE  Inv'
  <1> DEFINE call == [Idle EXCEPT !.provider = provider, !.force = force,
                                  !.began = clock, !.name = home]
             r == IF Usable(provider, force)
                  THEN [call EXCEPT !.pc = "done", !.source = fixFile.source,
                                    !.pos = fixFile.pos, !.name = fixFile.name,
                                    !.at = fixFile.at]
                  ELSE [call EXCEPT !.pc = "locate", !.force = FALSE,
                                    !.chain = Allowed(provider)]
  <1>1. /\ clock \in 0 .. MaxTime /\ clock \in Int /\ back \in Nat
        /\ Timeout \in Nat /\ GeoTtl \in Nat /\ run \in [Procs -> Call]
        /\ \A f \in Fix : f # Nothing /\ f.at \in Int /\ f.stamp \in Int
    BY Types DEF Inv
  <1>2. fixFile \in Fix \cup {Nothing} /\ FileInv
    BY DEF Inv, TypeOK
  <1>3. /\ run' = [run EXCEPT ![p] = r] /\ TimeStays /\ clock' = clock /\ back' = back
        /\ UNCHANGED <<hasGeoclue, fixFile, places>>
    BY DEF Begin, TimeStays
  <1>4. /\ call \in Call /\ call.provider = provider /\ call.force = force
        /\ call.began = clock /\ call.name = home /\ call.pos = Nothing
    BY <1>1, IdleIsACall DEF Call, Position, Idle
  <1> HIDE DEF call
  <1>5. CASE Usable(provider, force)
    <2>1. /\ fixFile \in Fix /\ ~force /\ fixFile.provider = provider
          /\ clock - back - fixFile.stamp < GeoTtl
      BY <1>2, <1>5 DEF Usable, Wall
    <2>2. /\ r \in Call /\ r.pc = "done" /\ r.provider = provider /\ r.force = force
          /\ r.began = clock /\ r.source = fixFile.source
          /\ r.pos = fixFile.pos /\ r.name = fixFile.name /\ r.at = fixFile.at
      BY <1>4, <1>5, <2>1 DEF Call, Fix, Position
    <2> HIDE DEF r
    <2>3. run'[p] = r
      BY <1>1, <1>3
    <2>4. /\ Permitted(provider, fixFile.source)
          /\ NameFits(fixFile.name, fixFile.pos) /\ fixFile.pos \in Spot
      BY <1>1, <1>2, <2>1 DEF FileInv, Fix
    <2>5. clock - fixFile.at < GeoTtl + Timeout + back
      BY <1>1, <1>2, <2>1 DEF FileInv
    <2>6. CallInv(p)'
      BY <1>1, <1>3, <2>1, <2>2, <2>3, <2>4, <2>5
         DEF CallInv, Timely, Working, Locating, Found, Result, Detected, Permitted,
             NameFits
    <2> QED
      BY <1>3, <2>2, <2>6, StepOfCall
  <1>6. CASE ~Usable(provider, force)
    <2>1. /\ r \in Call /\ r.pc = "locate" /\ r.provider = provider
          /\ r.began = clock /\ r.pos = Nothing /\ r.name = home
          /\ r.chain = Allowed(provider)
      BY <1>4, <1>6, AllowedIsAllowed DEF Call
    <2> HIDE DEF r
    <2>2. run'[p] = r
      BY <1>1, <1>3
    <2>3. CallInv(p)'
      BY <1>1, <1>3, <2>1, <2>2, AllowedIsAllowed
         DEF CallInv, Timely, Working, Locating, Found, Result, Detected
    <2> QED
      BY <1>3, <2>1, <2>3, StepOfCall
  <1> QED
    BY <1>5, <1>6

\* A source that was asked reports a position.
LEMMA LocatedMaintainsInv ==
    ASSUME Inv, NEW p \in Procs, NEW source \in Source, NEW named \in BOOLEAN,
           Located(p, source, named)
    PROVE  Inv'
  <1>1. /\ clock \in Int /\ run \in [Procs -> Call] /\ run[p] \in Call
        /\ Timely(p) /\ Locating(p)
    BY Types DEF Inv, CallInv
  <1>2. PICK pos \in Spot :
          run' = [run EXCEPT ![p].pc = IF named THEN "store" ELSE "name",
                             ![p].chain = << >>,
                             ![p].source = source, ![p].pos = pos,
                             ![p].name = NameOf(p, pos, named),
                             ![p].at = run[p].began]
    BY Zenon DEF Located
  <1> DEFINE r == [run[p] EXCEPT !.pc = IF named THEN "store" ELSE "name",
                     !.chain = << >>, !.source = source, !.pos = pos,
                     !.name = NameOf(p, pos, named), !.at = run[p].began]
  <1>3. /\ run' = [run EXCEPT ![p] = r] /\ TimeStays /\ clock' = clock
        /\ UNCHANGED <<hasGeoclue, fixFile, places>> /\ Asked(p, source)
    <2>1. run' = [run EXCEPT ![p] = r]
      BY <1>2
    <2>2. /\ TimeStays /\ UNCHANGED <<hasGeoclue, fixFile, places>> /\ Asked(p, source)
      BY DEF Located
    <2> QED
      BY <2>1, <2>2 DEF TimeStays
  <1>4. Permitted(run[p].provider, source)
    <2>1. /\ run[p].pc = "locate" /\ run[p].chain # << >>
          /\ run[p].chain \in Seq(BuiltSources) /\ source = Head(run[p].chain)
      BY <1>1, <1>3 DEF Asked, Call
    <2>2. source = run[p].chain[1] /\ 1 \in DOMAIN run[p].chain /\ source \in BuiltSources
      BY <2>1
    <2> QED
      BY <1>1, <2>1, <2>2, SourcesOfTheBuild DEF Locating, Permitted
  <1>5. /\ r \in Call /\ r.pc \in {"name", "store"} /\ r.source = source /\ r.pos = pos
        /\ NameFits(r.name, pos) /\ r.at = run[p].began
        /\ r.provider = run[p].provider /\ r.began = run[p].began
    <2>1. PICK pc \in {"name", "store"} : pc = IF named THEN "store" ELSE "name"
      OBVIOUS
    <2>2. PICK name \in {pos, Nothing} : name = NameOf(p, pos, named)
      BY DEF NameOf
    <2>3. PICK chain \in Seq(BuiltSources) : chain = << >>
      <3>1. << >> \in Seq(BuiltSources)
        OBVIOUS
      <3> QED
        BY <3>1
    <2>4. r = [run[p] EXCEPT !.pc = pc, !.chain = chain, !.source = source,
                             !.pos = pos, !.name = name, !.at = run[p].began]
      BY <2>1, <2>2, <2>3
    <2> HIDE DEF r
    <2>5. /\ run[p].began \in 0 .. MaxTime /\ pos \in Position
          /\ name \in Position \cup {Nothing} /\ NameFits(name, pos)
      BY <1>1 DEF Call, Position, NameFits
    <2>6. r \in Call
      BY <1>1, <2>4, <2>5 DEF Call
    <2> QED
      BY <1>1, <2>4, <2>5, <2>6 DEF Call
  <1> HIDE DEF r
  <1>6. run'[p] = r
    BY <1>1, <1>3
  <1>7. CallInv(p)'
    BY <1>1, <1>3, <1>4, <1>5, <1>6
       DEF CallInv, Timely, Working, Locating, Found, Result, Detected, Permitted,
           NameFits, Asked
  <1> QED
    BY <1>3, <1>5, <1>7, StepOfCall

\* A source fails, or none is left.
LEMMA NotLocatedMaintainsInv ==
    ASSUME Inv, NEW p \in Procs, SourceFails(p) \/ NotLocated(p)
    PROVE  Inv'
  <1>1. /\ run \in [Procs -> Call] /\ run[p] \in Call
        /\ Timely(p) /\ Locating(p)
    BY Types DEF Inv, CallInv
  <1>2. CASE SourceFails(p)
    <2> DEFINE r == [run[p] EXCEPT !.chain = Tail(@)]
    <2>1. /\ run' = [run EXCEPT ![p] = r] /\ TimeStays /\ clock' = clock
          /\ UNCHANGED <<hasGeoclue, fixFile, places>>
          /\ run[p].pc = "locate" /\ run[p].chain # << >>
      BY <1>2 DEF SourceFails, TimeStays
    <2>2. /\ Tail(run[p].chain) \in Seq(BuiltSources)
          /\ \A i \in DOMAIN Tail(run[p].chain) :
               /\ i + 1 \in DOMAIN run[p].chain
               /\ Tail(run[p].chain)[i] = run[p].chain[i + 1]
      BY <1>1, <2>1 DEF Call
    <2>3. /\ r \in Call /\ r.pc = "locate" /\ r.chain = Tail(run[p].chain)
          /\ r.provider = run[p].provider /\ r.began = run[p].began
          /\ r.pos = run[p].pos /\ r.name = run[p].name
      BY <1>1, <2>1, <2>2 DEF Call
    <2> HIDE DEF r
    <2>4. run'[p] = r
      BY <1>1, <2>1
    <2>5. Locating(p)'
      BY <1>1, <2>1, <2>2, <2>3, <2>4 DEF Locating
    <2>6. CallInv(p)'
      BY <1>1, <2>1, <2>3, <2>4, <2>5
         DEF CallInv, Timely, Working, Found, Result, Detected
    <2> QED
      BY <2>1, <2>3, <2>6, StepOfCall
  <1>3. CASE NotLocated(p)
    <2> DEFINE r == [run[p] EXCEPT !.pc = "done", !.pos = run[p].name]
    <2>1. /\ run' = [run EXCEPT ![p] = r] /\ TimeStays /\ clock' = clock
          /\ UNCHANGED <<hasGeoclue, fixFile, places>> /\ run[p].pc = "locate"
      BY <1>3 DEF NotLocated, TimeStays
    <2>2. /\ r \in Call /\ r.pc = "done" /\ r.pos = run[p].name /\ r.name = run[p].name
          /\ r.provider = run[p].provider /\ r.began = run[p].began
      BY <1>1 DEF Call
    <2> HIDE DEF r
    <2>3. run'[p] = r
      BY <1>1, <2>1
    <2>4. run[p].name \notin Spot
      BY <1>1, <2>1, NamesAssumption DEF Locating
    <2>5. CallInv(p)'
      BY <1>1, <2>1, <2>2, <2>3, <2>4
         DEF CallInv, Timely, Working, Locating, Found, Result, Detected
    <2> QED
      BY <2>1, <2>2, <2>5, StepOfCall
  <1> QED
    BY <1>2, <1>3

\* What a call under way does to its own record while the place is looked up.
LEMMA NamingCall ==
    ASSUME Inv, NEW p \in Procs, run[p].pc \in {"name", "ask"}, TimeStays,
           UNCHANGED hasGeoclue, NEW name \in Spot \cup {Nothing},
           NameFits(name, run[p].pos), NEW pc \in {"ask", "store"},
           run' = [run EXCEPT ![p].pc = pc, ![p].name = name]
    PROVE  \E r \in Call : run' = [run EXCEPT ![p] = r] /\ CallInv(p)'
  <1> DEFINE r == [run[p] EXCEPT !.pc = pc, !.name = name]
  <1>1. /\ run \in [Procs -> Call] /\ run[p] \in Call /\ Timely(p) /\ Found(p)
        /\ clock' = clock
    BY Types DEF Inv, CallInv, TimeStays
  <1>2. run' = [run EXCEPT ![p] = r]
    OBVIOUS
  <1>3. /\ r \in Call /\ r.pc = pc /\ r.name = name /\ r.pos = run[p].pos
        /\ r.source = run[p].source /\ r.provider = run[p].provider
        /\ r.began = run[p].began /\ r.at = run[p].at
    BY <1>1 DEF Call, Position
  <1> HIDE DEF r
  <1>4. run'[p] = r
    BY <1>1, <1>2
  <1>5. CallInv(p)'
    BY <1>1, <1>3, <1>4
       DEF CallInv, Timely, Working, Locating, Found, Result, Detected, Permitted, NameFits
  <1> QED
    BY <1>2, <1>3, <1>5

\* The place of the position is looked up.
LEMMA NamingMaintainsInv ==
    ASSUME Inv, NEW p \in Procs,
           NamedFromCache(p) \/ NamedByService(p) \/ NotNamed(p)
    PROVE  Inv'
  <1>1. /\ run \in [Procs -> Call] /\ run[p] \in Call /\ Found(p)
        /\ places \in [Cell -> Spot \cup {Nothing}] /\ PlacesInv
        /\ fixFile \in Fix \cup {Nothing} /\ FileInv
    BY Types DEF Inv, TypeOK, CallInv
  <1>2. /\ run[p].pc \in {"name", "ask"} /\ TimeStays
        /\ UNCHANGED <<hasGeoclue, fixFile>>
    BY DEF NamedFromCache, NamedByService, NotNamed
  <1>3. run[p].pos \in Spot /\ CellOf(run[p].pos) \in Cell
    BY <1>1, <1>2 DEF Found, Spot, CellOf
  <1>4. NameFits(run[p].name, run[p].pos) /\ run[p].name \in Spot \cup {Nothing}
    BY <1>1, <1>2 DEF Found, NameFits
  <1>5. PICK name \in Spot \cup {Nothing}, pc \in {"ask", "store"} :
          /\ NameFits(name, run[p].pos)
          /\ run' = [run EXCEPT ![p].pc = pc, ![p].name = name]
    <2>1. CASE NamedFromCache(p)
      <3>1. PICK cached \in Spot \cup {Nothing} : cached = places[CellOf(run[p].pos)]
        BY <1>1, <1>3
      <3>2. NameFits(cached, run[p].pos)
        BY <1>1, <1>3, <3>1 DEF PlacesInv, NameFits
      <3>3. CASE cached # Nothing
        BY <2>1, <3>1, <3>2, <3>3 DEF NamedFromCache, Names
      <3>4. CASE cached = Nothing
        <4>1. run' = [run EXCEPT ![p].pc = "ask"]
          BY <2>1, <3>1, <3>4 DEF NamedFromCache
        <4>2. [run EXCEPT ![p].pc = "ask"]
              = [run EXCEPT ![p].pc = "ask", ![p].name = run[p].name]
          BY <1>1 DEF Call
        <4> QED
          BY <1>4, <4>1, <4>2
      <3> QED
        BY <3>3, <3>4
    <2>2. CASE NamedByService(p)
      BY <1>3, <2>2 DEF NamedByService, Names, NameFits
    <2>3. CASE NotNamed(p)
      BY <1>4, <2>3 DEF NotNamed, Names
    <2> QED
      BY <2>1, <2>2, <2>3
  <1>6. /\ places' \in [Cell -> Spot \cup {Nothing}] /\ PlacesInv'
    <2>1. CASE places' = places
      BY <1>1, <2>1 DEF PlacesInv
    <2>2. CASE places' = [places EXCEPT ![CellOf(run[p].pos)] = run[p].pos]
      BY <1>1, <1>3, <2>2 DEF PlacesInv
    <2> QED
      BY <2>1, <2>2 DEF NamedFromCache, NamedByService, NotNamed
  <1>7. PICK r \in Call : run' = [run EXCEPT ![p] = r] /\ CallInv(p)'
    BY <1>2, <1>5, NamingCall
  <1>8. fixFile' \in Fix \cup {Nothing} /\ FileInv'
    BY <1>1, <1>2 DEF FileInv, Permitted
  <1> QED
    BY <1>2, <1>6, <1>7, <1>8, StepOfOne

\* What was found is stored, over whatever the file holds.
LEMMA StoreMaintainsInv ==
    ASSUME Inv, NEW p \in Procs, Store(p)
    PROVE  Inv'
  <1> DEFINE r == [run[p] EXCEPT !.pc = "done"]
  <1>1. /\ clock \in 0 .. MaxTime /\ clock \in Int /\ back \in {0, Jump}
        /\ back \in Nat /\ MaxTime \in Nat /\ Jump \in Nat /\ Timeout \in Nat
        /\ run \in [Procs -> Call] /\ run[p] \in Call /\ run[p].began \in Int
        /\ Timely(p) /\ Found(p)
    BY Types DEF Inv, CallInv
  <1>2. fixFile \in Fix \cup {Nothing} /\ FileInv
    BY DEF Inv, TypeOK
  <1>3. PICK new : new = [provider |-> run[p].provider, source |-> run[p].source,
                          pos |-> run[p].pos, name |-> run[p].name, at |-> run[p].at,
                          stamp |-> Wall]
    OBVIOUS
  <1>4. /\ run' = [run EXCEPT ![p] = r] /\ TimeStays /\ clock' = clock
        /\ UNCHANGED <<hasGeoclue, places>> /\ run[p].pc = "store"
        /\ fixFile' \in {fixFile, new}
    BY <1>3 DEF Store, TimeStays
  <1>5. /\ run[p].provider \in Provider /\ run[p].pos \in Spot
        /\ Permitted(run[p].provider, run[p].source)
        /\ NameFits(run[p].name, run[p].pos) /\ run[p].at = run[p].began
        /\ clock <= run[p].began + Timeout
    BY <1>1, <1>4 DEF Timely, Working, Found
  <1>6. new \in Fix /\ new.provider = run[p].provider /\ new.pos = run[p].pos
        /\ new.source = run[p].source /\ new.name = run[p].name /\ new.at = run[p].at /\ new.stamp = clock - back
    <2>1. clock - back \in -Jump .. MaxTime
      BY <1>1
    <2> QED
      BY <1>1, <1>3, <1>5, <2>1 DEF Fix, Call, Wall, Position, Permitted, NameFits
  <1>7. fixFile' \in Fix \cup {Nothing}
    BY <1>2, <1>4, <1>6
  <1>8. FileInv'
    <2>1. CASE fixFile' = new
      BY <1>1, <1>4, <1>5, <1>6, <2>1 DEF FileInv, Permitted
    <2>2. CASE fixFile' = fixFile
      BY <1>2, <1>4, <2>2 DEF FileInv, Permitted
    <2> QED
      BY <1>4, <2>1, <2>2
  <1>9. /\ r \in Call /\ r.pc = "done" /\ r.name = run[p].name /\ r.pos = run[p].pos
        /\ r.source = run[p].source /\ r.provider = run[p].provider
        /\ r.began = run[p].began /\ r.at = run[p].at
    BY <1>1 DEF Call
  <1> HIDE DEF r
  <1>10. run'[p] = r
    BY <1>1, <1>4
  <1>11. CallInv(p)'
    BY <1>1, <1>4, <1>5, <1>9, <1>10
       DEF CallInv, Timely, Working, Locating, Found, Result, Detected, Permitted, NameFits
  <1>12. places' \in [Cell -> Spot \cup {Nothing}] /\ PlacesInv'
    BY <1>4 DEF Inv, TypeOK, PlacesInv
  <1> QED
    BY <1>4, <1>7, <1>8, <1>9, <1>11, <1>12, StepOfOne

LEMMA FinishMaintainsInv ==
    ASSUME Inv, NEW p \in Procs, Finish(p)
    PROVE  Inv'
  <1>1. /\ clock \in Int /\ clock >= 0 /\ run \in [Procs -> Call]
    BY Types DEF Inv
  <1>2. /\ run' = [run EXCEPT ![p] = Idle] /\ TimeStays /\ clock' = clock
        /\ UNCHANGED <<hasGeoclue, fixFile, places>>
    BY DEF Finish, TimeStays
  <1>3. run'[p] = Idle
    BY <1>1, <1>2
  <1>4. CallInv(p)'
    BY <1>1, <1>2, <1>3, IdleIsACall
       DEF CallInv, Timely, Working, Locating, Found, Result, Detected
  <1> QED
    BY <1>2, <1>4, IdleIsACall, StepOfCall

\* Time passes, but no call looks for longer than its timeout; or the wall
\* clock is set back, and every age grows by as much.
LEMMA ClockMaintainsInv ==
    ASSUME Inv, TimePasses \/ ClockIsSetBack
    PROVE  Inv'
  <1>1. /\ clock \in Int /\ back \in Nat /\ Jump \in Nat /\ Timeout \in Nat
        /\ GeoTtl \in Nat /\ MaxTime \in Nat
        /\ \A p \in Procs : run[p].began \in Int /\ run[p].at \in Int
    BY Types DEF Inv
  <1>2. /\ UNCHANGED <<hasGeoclue, fixFile, places, run>>
        /\ clock' \in {clock, clock + 1} /\ back' \in {0, Jump} /\ back <= back'
        /\ clock' <= MaxTime
        /\ clock' # clock =>
             \A p \in Procs : Working(p) => clock < run[p].began + Timeout
    BY <1>1 DEF Inv, TypeOK, TimeType, TimePasses, ClockIsSetBack, Tick, SetBack
  <1>3. BuiltSources' = BuiltSources
    BY <1>2 DEF BuiltSources, Built
  <1>4. TypeOK'
    BY <1>1, <1>2, <1>3 DEF Inv, TypeOK, TimeType
  <1>5. FileInv' /\ PlacesInv'
    BY <1>2 DEF Inv, FileInv, PlacesInv, Permitted
  <1>6. ASSUME NEW p \in Procs
        PROVE  CallInv(p)'
    <2>1. CallInv(p)
      BY DEF Inv
    <2>2. Timely(p)'
      BY <1>1, <1>2, <2>1 DEF CallInv, Timely, Working
    <2>3. Locating(p)' /\ Found(p)'
      BY <1>2, <2>1 DEF CallInv, Locating, Found, Permitted
    <2>4. Result(p)'
      <3>1. back' \in Nat
        BY <1>1, <1>2
      <3> QED
        BY <1>1, <1>2, <2>1, <3>1 DEF CallInv, Result, Detected, Permitted
    <2> QED
      BY <2>2, <2>3, <2>4 DEF CallInv
  <1> QED
    BY <1>4, <1>5, <1>6 DEF Inv

\* Every step keeps the invariant.
LEMMA NextMaintainsInv ==
    ASSUME Inv, [Next]_vars
    PROVE  Inv'
  <1>1. ASSUME NEW p \in Procs,
               GpsdLocates(p) \/ GeoclueLocates(p) \/ IpLocates(p)
        PROVE  Inv'
    <2>1. PICK source \in Source, named \in BOOLEAN : Located(p, source, named)
      BY <1>1 DEF GpsdLocates, GeoclueLocates, IpLocates, Source
    <2> QED
      BY <2>1, LocatedMaintainsInv
  <1>2. CASE UNCHANGED vars
    <2>1. /\ clock' = clock /\ back' = back /\ hasGeoclue' = hasGeoclue
          /\ fixFile' = fixFile /\ places' = places /\ run' = run
      BY <1>2 DEF vars
    <2>2. BuiltSources' = BuiltSources
      BY <2>1 DEF Built, BuiltSources
    <2>3. TypeOK'
      BY <2>1, <2>2 DEF Inv, TypeOK, TimeType
    <2>4. FileInv' /\ PlacesInv'
      BY <2>1 DEF Inv, FileInv, PlacesInv, Permitted
    <2>5. \A p \in Procs : CallInv(p)'
      BY <2>1 DEF Inv, CallInv, Timely, Working, Locating, Found, Result, Detected, Permitted
    <2> QED
      BY <2>3, <2>4, <2>5 DEF Inv
  <1> QED
    BY <1>1, <1>2, BeginMaintainsInv, NotLocatedMaintainsInv, NamingMaintainsInv,
       StoreMaintainsInv, FinishMaintainsInv, ClockMaintainsInv DEF Next, Step

\* The inductive invariant holds in every reachable state.
LEMMA InvIsInvariant == Spec => []Inv
  BY InitEstablishesInv, NextMaintainsInv, PTL DEF Spec

----------------------------------------------------------------------------
(* The theorems                                                            *)

\* Type correctness; only sources of the build are asked.
THEOREM TypeCorrect == Spec => []TypeOK
  BY InvIsInvariant, PTL DEF Inv

\* A detected position comes from a source the caller's setting allows and
\* the build has, whoever overwrites the cache file.
THEOREM PositionsAreAllowed == Spec => []PositionIsAllowed
  <1>1. Inv => PositionIsAllowed
    BY DEF Inv, CallInv, Result, Permitted, PositionIsAllowed
  <1> QED
    BY <1>1, InvIsInvariant, PTL

\* A detected position is shown under the name of a place in its own cell or
\* none, whoever names places and stores fixes meanwhile.
THEOREM NamesFollowPositions == Spec => []NameIsOfPosition
  <1>1. Inv => NameIsOfPosition
    BY DEF Inv, CallInv, Result, NameFits, NameIsOfPosition
  <1> QED
    BY <1>1, InvIsInvariant, PTL

\* A detected position is the call's own, or was not forced and is younger
\* than the ttl, the time a fix takes and what the clock lost.
THEOREM FixesAreYoung == Spec => []FixIsYoung
  <1>1. Inv => FixIsYoung
    BY DEF Inv, CallInv, Result, FixIsYoung
  <1> QED
    BY <1>1, InvIsInvariant, PTL
=============================================================================
