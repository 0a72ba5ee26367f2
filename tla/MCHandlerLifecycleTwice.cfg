SPECIFICATION Spec
CONSTANTS
    a = a
    b = b
    k1 = k1
    k2 = k2
    r1 = r1
    r2 = r2
    First = First
    NoConfig = NoConfig
    Loggers = {a, b}
    Closers = {k1, k2}
    Reloaders = {}
    AsyncModes = {TRUE}
    MaxSets = 0
INVARIANT CloseReturnsDrained
