SPECIFICATION Spec
CONSTANTS
    Fpc = 2
    Periods = 3
    CounterMod = 6
    TxFrames = 4
    MaxCycle = 7
    MaxSlips = 1
    Configs <- PassConfigs
INVARIANTS
    RttOfOwnFrame
    LatencyOfOwnCycle
    ProcOfOwnCycle
    NoSampleMissed
    ReusesCompletedFrames
