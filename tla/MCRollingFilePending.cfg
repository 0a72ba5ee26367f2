SPECIFICATION Spec
CONSTANTS
    MaxEvents = 5
    MaxFile = 1
    MaxBackups = 2
    MaxIndex = 8
    QueueSize = 2
    Setups <- MinGzipBackground
    Padded = TRUE
    OldArchives = {}
    TimePolicy = FALSE
    MaxFailures = 0
    MaxCrashes = 0
INVARIANT PendingArchiveIntact
