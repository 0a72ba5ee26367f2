SPECIFICATION FairSpec
CONSTANTS
    k1 = k1
    k2 = k2
    MaxVersion = 3
    BadVersions = {2}
    MaxFailures = 0
    MaxCalls = 0
    MaxRuntimes = 7
    Closers = {k1}
PROPERTY MonitorCatchesUp
