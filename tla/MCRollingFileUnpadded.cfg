SPECIFICATION Spec
CONSTANTS
    MaxEvents = 4
    MaxFile = 1
    MaxBackups = 2
    MaxIndex = 14
    QueueSize = 1
    Setups <- PlainSync
    Padded = FALSE
    OldArchives = {8, 9}
    TimePolicy = FALSE
    MaxFailures = 0
    MaxCrashes = 0
PROPERTY RetentionKeepsNewest
