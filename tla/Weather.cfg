\* A bar and a command; the interval less its margin is below cache_ttl
\* and, as in the code, the margin below the timeout.
CONSTANTS
    Bars = {bar}
    Commands = {command}
    Interval = 2
    Margin = 1
    CacheTtl = 3
    Retry = 1
    Timeout = 2
    Nothing = Nothing
    MaxTime = 3
    Jump = 1
SPECIFICATION Spec
INVARIANTS
    TypeOK
    FreshIsYoung
    NoWorseThanCache
    TickRefetches
