SPECIFICATION Spec
CONSTANTS
    RingSize = 3
    Batch = 2
    Configs <- OverrunOnly
INVARIANT
    CommitsWholeTxRing
