\* No file to begin with or one to upgrade, no lock to rely on, and a user who breaks the file.
CONSTANTS
    Editors = {command}
    Readers = {reader}
    Tuis = {tui}
    Asking = {}
    Nobody = Nobody
    TuiSaves = 0
    Starts = {"none", "legacy"}
    LockMayFail = TRUE
    UserBreaks = TRUE
SPECIFICATION Spec
INVARIANTS
    NoPartialLoad
CHECK_DEADLOCK FALSE
