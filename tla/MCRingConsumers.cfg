SPECIFICATION ConsumersSpec
CONSTANTS
    p1 = p1
    p2 = p2
    Producers = {p1, p2}
    Capacity = 2
    BatchSize = 2
    MaxPerProducer = 2
    NoItem = NoItem
    Parking = FALSE
    MaxAlerts = 1
    MaxOffered = 2
INVARIANTS RingInvariant NoDataRace NobodyStranded HaltDrains
PROPERTIES FullIsTrue ImplementsFifo WaitsEnd
CHECK_DEADLOCK FALSE
