CONSTANTS
    Absent = Absent
    Malformed = Malformed
    MaxTick = 4
    MaxByte = 3
    MaxPpm = 2
    NodeNames = {"A", "B", "C"}
    Roads <- SmallRoads
    CostScale = 2
    Geometries <- PlainGeometries
    Exception = Exception
    Pole = 9
    Domain = 8
    MaxMotion = 5
    MaxReal = 10
    MaxNoise = 2
    Networks <- PlainNetworks
    Movements <- PlainMovements
    Sensings = {Absent, "none", "perfect_local", "lidar"}
    Localizations <- PlainLocalizations
    Durations = {Absent, Malformed, 2}
    Stations = {Absent, 2, 4}
    RobotLists <- SomeRobotLists
    EventLists <- SomeEventLists
SPECIFICATION Spec
INVARIANT
    LoadedRunsDoNotThrow
CHECK_DEADLOCK FALSE
