SPECIFICATION FairSpec
CONSTANTS
    MaxEvents = 4
    MaxFile = 1
    MaxBackups = 2
    MaxIndex = 10
    QueueSize = 1
    Setups <- MostSetups
    Padded = TRUE
    OldArchives = {2}
    TimePolicy = TRUE
    MaxFailures = 1
    MaxCrashes = 1
INVARIANTS NothingLost ArchivesInOrder ActionsDoneAtClose
PROPERTIES RetentionKeepsNewest CallsReturn
CHECK_DEADLOCK FALSE
