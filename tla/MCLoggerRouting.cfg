SPECIFICATION RoutingSpec
CONSTANTS
    Names <- MCNames
    Levels = {1, 2}
    Appenders = {"file", "console"}
    JSONAppenders = {"file"}
    Filters = {"g", "f"}
    Configs <- MCConfigs
    MaxOverrides = 2
INVARIANTS PlanIsNearest OutputsKept DeliveredOnce
