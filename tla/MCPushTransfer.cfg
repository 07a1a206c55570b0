SPECIFICATION Spec
CONSTANTS
    MaxLen = 5
    Block = 2
    U32Max = 3
    MaxVersion = 2
CHECK_DEADLOCK FALSE
INVARIANTS
    RemoteIsPrefix
    DoneMeansExact
