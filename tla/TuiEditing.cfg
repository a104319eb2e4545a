SPECIFICATION Spec
CONSTANTS
    MaxLocations = 3
    Place = {0, 3}
    Origin = 0
    Tolerance = 2
    Grid = 1
    Files <- MCFiles
    Units = {metric}
    DefaultUnits = metric
    NoFilter = NoFilter
    Filter = {{0}}
INVARIANTS
    TypeOK
    RecordIsWellFormed
    ViewIsValid
PROPERTIES
    SelectionFollows
    DeleteIsUndone
    UndoRestoresOrder
    EditsStayConsistent
