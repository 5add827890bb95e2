SPECIFICATION FairSpec
CONSTANTS
    Workers = {1}
    PeriodMod = 2
    Configs <- MCConfigs
INVARIANTS
    LostActivationsAreSeen
    PeriodsAddUp
    ReadsOneUpdate
    ResetIsComplete
PROPERTIES
    ResetHappens
    AllThreadsEnd
