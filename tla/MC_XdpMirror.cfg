SPECIFICATION FairSpec
CONSTANTS
    RingSize = 3
    Batch = 2
    Configs <- MCConfigs
INVARIANTS
    UmemConserved
    OutstandingIsExact
    MirrorsInOrder
    BatchNumberedByItsFrames
PROPERTY
    EveryPacketMirrored
