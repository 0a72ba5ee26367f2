SPECIFICATION Spec
CONSTANTS
    k1 = k1
    k2 = k2
    MaxVersion = 3
    BadVersions = {2}
    MaxFailures = 1
    MaxCalls = 2
    MaxRuntimes = 4
    Closers = {k1}
INVARIANT FailedReloadKeepsRuntime
