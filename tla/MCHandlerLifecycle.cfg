SPECIFICATION FairSpec
CONSTANTS
    a = a
    b = b
    k1 = k1
    k2 = k2
    r1 = r1
    r2 = r2
    First = First
    NoConfig = NoConfig
    Loggers = {a, b}
    Closers = {k1}
    Reloaders = {r1, r2}
    AsyncModes = {TRUE, FALSE}
    MaxSets = 1
INVARIANTS CurrentStaysOpen NothingStaysOpen CloseDrains
PROPERTIES CallsReturn
CHECK_DEADLOCK FALSE
