SPECIFICATION FairSpec
CONSTANTS
    Bodies <- MCBodies
    Targets <- MCTargets
    Readers <- MCReaders
    Location = "ok"
    BUFFER_SIZE = 7
CHECK_DEADLOCK FALSE
INVARIANTS
    TakenIsSent
    OkMeansTaken
    FailsOnlyWhenCut
PROPERTIES
    ThreadEnds
    PeerReturns
