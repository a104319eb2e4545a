\* Three versions of the file.  With these times the retries are 30 s and the
\* interval, so two failures show them all.
CONSTANTS
    MaxSaves = 3
    FailureBound = 2
    Interval = 50
    RetryMin = 30
SPECIFICATION Spec
INVARIANTS
    TypeOK
    BarIsCurrent
PROPERTIES
    ChangesAreShown
    RefreshIsForced
    TermEnds
CHECK_DEADLOCK FALSE
