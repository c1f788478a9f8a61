CONSTANTS
    Absent = Absent
    Malformed = Malformed
    MaxTick = 4
    MaxByte = 3
    MaxPpm = 2
    NodeNames = {"A", "B", "C"}
    Roads <- SmallRoads
    CostScale = 2
    Geometries <- SomeGeometries
    Exception = Exception
    Pole = 9
    Domain = 8
    MaxMotion = 5
    MaxReal = 10
    MaxNoise = 2
    Networks <- SomeNetworks
    Movements <- SomeMovements
    Sensings = {Absent, "none", "perfect_local", "lidar"}
    Localizations <- SomeLocalizations
    Durations = {Absent, Malformed, 2}
    Stations = {Absent, 2, 4}
    RobotLists <- SomeRobotLists
    EventLists <- SomeEventLists
SPECIFICATION FairSpec
INVARIANTS
    TypeOK
    ReasonableRunsDoNotThrow
    ExecutesInFileOrder
PROPERTIES
    AcceptedRunsFinish
CHECK_DEADLOCK FALSE
