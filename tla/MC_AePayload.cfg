SPECIFICATION Spec
CONSTANTS
    Configs <- EncryptedConfigs
    Fpc = 2
    CycleMod = 2
    MaxSeq = 5
INVARIANT
    PatternIsEncrypted
