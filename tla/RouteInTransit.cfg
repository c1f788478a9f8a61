CONSTANTS
    NRobots = 2
    Map <- Ring
    MsPerCostUnit = 1
    RetryMs = 1
    Scenarios <- PlainScenario
    LastTick = 2
SPECIFICATION Spec
INVARIANT
    RouteStartsAhead
