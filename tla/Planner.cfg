CONSTANTS
    MaxCost = 3
    MaxEstimate = 3
    Queries <- SmallQueries
SPECIFICATION Spec
INVARIANTS
    ResultIsARoute
    ResultIsOptimal
    ResultIsCanonical
    OffRouteBlocksChangeNothing
    NothingPushedTwice
PROPERTIES
    Terminates
CHECK_DEADLOCK FALSE
