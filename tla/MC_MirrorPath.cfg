SPECIFICATION FairSpec
CONSTANTS
    Configs <- MCConfigs
    MaxFrame = 4
    Fpc = 2
    SocketLimit = 3
    MaxSeq = 4
INVARIANTS
    TransmitsWholeFrames
    TailIsWholeFrames
    MirrorsInOrder
    SentIsExact
    ErrorsBoundedByLosses
PROPERTIES
    BufferDrains
    StopsOnRequest
