\* One command and one TUI over an existing file.
CONSTANTS
    Editors = {command}
    Readers = {}
    Tuis = {tui}
    Asking = {}
    Nobody = Nobody
    TuiSaves = 1
    Starts = {"current"}
    LockMayFail = FALSE
    UserBreaks = FALSE
SPECIFICATION Spec
PROPERTIES
    CommandEditsSurvive
CHECK_DEADLOCK FALSE
