CONSTANTS
    NRobots = 2
    NEdges = 1
    MaxTick = 1
    MaxSequence = 2
    MaxObservations = 2
    Lossy = TRUE
    CutLinks <- CutStation
    SameTickReopen = FALSE
SPECIFICATION FairSpec
INVARIANTS
    AgreedWhenAnnounced
PROPERTIES
    ImplementsMapKnowledge
    AnnouncementLeadsToAgreement
