SPECIFICATION FairSpec
CONSTANTS
    k1 = k1
    k2 = k2
    MaxVersion = 3
    BadVersions = {2}
    MaxFailures = 1
    MaxCalls = 2
    MaxRuntimes = 7
    Closers = {k1, k2}
INVARIANTS ActiveIsOpen NothingLeaks ClosedForGood
PROPERTIES MonitorAnswers
