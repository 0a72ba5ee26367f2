SPECIFICATION FairSpec
CONSTANTS
    a = a
    b = b
    k1 = k1
    k2 = k2
    Callers = {a, b}
    Closers = {k1, k2}
    Strategies = {"block", "drop", "drop-debug", "sync-fallback"}
    Capacity = 2
    BatchSize = 2
    MaxPerCaller = 2
    DebugEvents <- FirstIsDebug
    CloseAppenders = TRUE
    FailingEvents <- FirstOfOneFails
INVARIANTS CloseDrains EveryEventAccounted CallerOrder
PROPERTIES NoWriteAfterClose CallsReturn AcceptedIsHanded
CHECK_DEADLOCK FALSE
