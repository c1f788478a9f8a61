CONSTANTS
    MaxTick = 2
    MaxEvents = 6
    MaxFanout = 2
SPECIFICATION Spec
INVARIANTS
    ExecutionIsOrdered
    NothingOverdue
    NothingLostOrRepeated
PROPERTIES
    HorizonHonoured
    DriversAddNothing
