SPECIFICATION PartsSpec
CONSTANTS
    \* FileSink
    Sinks = {"a", "b", "c", "d", "e", "f", "g", "h"}
    Paths <- MCPaths
    Option <- MCOption
    Shared = {"both"}
    MaxSinks = 2
    MaxAppends = 3
    MaxFaults = 1
    Plenty = 100
    \* FilterChain
    Callers = {c1, c2}
    Configs <- MCConfigs
    Arrivals <- MCEvents
    Unset = 99
    Garbled = 98
    Warn = 4
    Error = 8
    Day = 4
    Unit = 2
    MaxTime = 3
    MaxEvents = 3
    \* ConfigLoad
    Documents <- MCDocuments
    Reloads <- MCReloads
    MaxLoads = 2
    Environment <- MCEnvironment
    Numerals = {"5", "7"}
    BuiltIn <- MCBuiltIn
    Kind <- MCKind
    \* AppenderGraph
    Names <- MCNames
    Unknown = 0
    Keys = {1, 2}
    RewrittenKey = 2
    Events = {"e1", "e2"}
    KeyOf <- MCKeyOf
    Graphs <- MCGraphs
    CodeGraphs <- MCCodeGraphs
    Titles <- MCTitles
    \* RollingHelpers
    Policies <- MCPolicies
    Minute = 3
    DayLength = 6
    Week = 2
    Horizon = 30
    MaxTick = 30
    Listing <- MCListing
    Sweeps <- MCSweeps
    MaxSize = 2
    MaxSweeps = 2
    MaxTouches = 1
INVARIANTS FilesTellSessions AcceptedIsKept
           BucketIsExact VerdictIsMeant
           
           BuildsWhatItCan NothingStaysOpen AcceptedIsWritten
           BoundaryRolls
PROPERTIES LevelsAreKept SweepIsMeant
CHECK_DEADLOCK FALSE
