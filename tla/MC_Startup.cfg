SPECIFICATION FairSpec
CONSTANT
    Configs <- MCConfigs
INVARIANTS
    ChainCoversUsualProfiles
    EverythingIsReleased
    ProgramAttachedInUse
    NothingReleasedInUse
    SuccessorIsReady
PROPERTY
    SigtermEndsProgram
