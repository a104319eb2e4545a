\* Three places in a row: the first and the last are close to the middle one
\* and not to each other, so "the same place" is not transitive; and a fourth
\* that a file cannot hold, close to the first until it is rounded.
CONSTANTS
    MaxLocations = 3
    Place = {0, 3, 5, 6}
    Origin = 0
    Tolerance = 6
    Grid = 3
    Units = {metric}
    DefaultUnits = metric
    LegacyEntries = 1
SPECIFICATION Spec
INVARIANTS
    TypeOK
    SavedIsWellFormed
    ActiveIsLoaded
    CycleIsARotation
PROPERTY
    RemovalKeepsTheRest
