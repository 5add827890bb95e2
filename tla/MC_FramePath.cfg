SPECIFICATION Spec
CONSTANTS
    Configs <- MCConfigs
    Fpc = 2
    CycleMod = 2
    MaxSeq = 5
INVARIANTS
    EchoIsAccepted
    DamageIsNoticed
    EchoCarriesMirrorTime
