\* Two editors, a reader and a TUI that saves once, over an existing file.
CONSTANTS
    Editors = {command, daemon}
    Readers = {reader}
    Tuis = {tui}
    Asking = {command}
    Nobody = Nobody
    TuiSaves = 1
    Starts = {"current"}
    LockMayFail = FALSE
    UserBreaks = FALSE
SPECIFICATION Spec
INVARIANTS
    TypeOK
PROPERTIES
    EditsAreAtomic
    CommandsEnd
    TuiNoticesChanges
CHECK_DEADLOCK FALSE
