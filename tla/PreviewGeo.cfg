\* Three keys for two slots, so that slots are given away.
CONSTANTS
    SavedKeys = {paris, oslo}
    GeoKey = geo
    SlotCount = 2
    MaxMoves = 2
    MaxRefreshes = 1
    MaxExpiries = 1
    MaxProviders = 2
SPECIFICATION Spec
INVARIANT
    GeoIsForgotten
CHECK_DEADLOCK FALSE
