\* Two programs; one setting allows every source, and one names the source that
\* a build may lack.  One spot: which source it came from and when is enough.
CONSTANTS
    Procs = {bar, command}
    Provider = {"auto", "geoclue"}
    Cell = {here}
    Point = {centre}
    Home = Home
    GeoTtl = 1
    Timeout = 1
    Nothing = Nothing
    MaxTime = 2
    Jump = 1
SPECIFICATION Spec
SYMMETRY Symmetry
INVARIANTS
    TypeOK
    PositionIsAllowed
    FixIsYoung
