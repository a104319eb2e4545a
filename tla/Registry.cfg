CONSTANTS
    Pid = {1, 2}
    Scanner = {refresh, another}
    MaxScans = 2
SPECIFICATION Spec
INVARIANTS
    TypeOK
    ScanIsComplete
    OnlyTheDeadAreUnlinked
PROPERTIES
    OnlyReusedPidsAreHit
