\* Three keys for two slots, so that slots are given away.
CONSTANTS
    SavedKeys = {paris, oslo}
    GeoKey = geo
    SlotCount = 2
    MaxMoves = 2
    MaxRefreshes = 1
    MaxExpiries = 1
    MaxProviders = 2
SPECIFICATION Spec
INVARIANTS
    TypeOK
    NoRequestIsLost
    DataIsForKey
PROPERTIES
    PreviewSettles
    QuitEnds
CHECK_DEADLOCK FALSE
