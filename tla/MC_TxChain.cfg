SPECIFICATION FairSpec
CONSTANTS
    Configs <- MCConfigs
    Cap = 2
INVARIANTS
    PriorityOrder
    UpdatesPerCycle
    BurstOncePerMark
PROPERTIES
    MarkedBurstIsSent
    StopsOnRequest
