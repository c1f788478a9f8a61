CONSTANT
    Files <- TestFiles
    Far = 1000
SPECIFICATION Spec
INVARIANTS
    BuildersNeverRefuse
    RoutesAreRoads
    ImportIsOrderFree
CHECK_DEADLOCK FALSE
