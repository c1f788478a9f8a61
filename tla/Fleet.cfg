CONSTANTS
    NRobots = 2
    Map <- Ring
    MsPerCostUnit = 1
    RetryMs = 1
    Scenarios <- TestScenarios
    LastTick = 2
SPECIFICATION Spec
INVARIANTS
    TypeOK
    OneChainPerRobot
    RouteAheadIsCurrent
    TrajectoryIsDriven
PROPERTIES
    SensedIsBelieved
    EveryCallReturns
