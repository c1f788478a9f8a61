CONSTANTS
    NRobots = 2
    NEdges = 1
    MaxTick = 1
    MaxSequence = 2
    MaxObservations = 3
    Lossy = FALSE
    CutLinks <- NoCuts
    SameTickReopen = FALSE
SPECIFICATION Spec
INVARIANTS
    TypeOK
    WinnerIsBestHeard
    ProgressionIsLatestHeard
    SameHeardSameBelief
    ReofferChangesNothing
    DeliveriesAreWellFormed
PROPERTIES
    KnowledgeNeverRollsBack
