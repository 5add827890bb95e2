SPECIFICATION Spec
CONSTANTS
    Byte <- MCByte
    Zero = 0
    Size = 3
    Inputs <- MCInputs
    Lengths <- MCLengths
INVARIANTS
    TypeOK
    PointersAgree
PROPERTY
    ImplementsKeepNewest
