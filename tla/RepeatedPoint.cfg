CONSTANTS
    Itinerary <- RepeatedEnd
    Scenarios <- NoSwitch
    Injections <- OnOff
    Offsets <- Nudge
    Turns <- QuarterTurn
    MaxInjections = 1
    Horizons = {4}
SPECIFICATION Spec
INVARIANT
    RestsAsItTravelled
