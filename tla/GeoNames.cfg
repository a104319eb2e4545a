\* Two programs, two cells and two spots in each.  Names do not age, so time
\* stands still.
CONSTANTS
    Procs = {bar, command}
    Provider = {"auto", "geoclue"}
    Cell = {here, there}
    Point = {east, west}
    Home = Home
    GeoTtl = 1
    Timeout = 0
    Nothing = Nothing
    MaxTime = 0
    Jump = 0
SPECIFICATION Spec
SYMMETRY Symmetry
INVARIANTS
    NameIsOfPosition
