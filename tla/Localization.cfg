CONSTANTS
    Itinerary <- Bends
    Scenarios <- BothKinds
    Injections <- OnOff
    Offsets <- Nudge
    Turns <- QuarterTurn
    MaxInjections = 1
    Horizons = {3, 7}
SPECIFICATION Spec
INVARIANTS
    BeliefIsRigid
    NoHandlerThrows
    UndriftedBeliefIsTheFix
    LoadedSwitchesComeFirst
    ReacquisitionEndsAnOutage
    RestsAsItTravelled
