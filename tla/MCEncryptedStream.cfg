SPECIFICATION StreamSpec
CONSTANTS
    Lengths <- SomeLengths
    Garbage <- SomeBytes
    MaxSends = 2
    MaxLost = 1
CHECK_DEADLOCK FALSE
INVARIANTS
    NoSilentGap
    ExactDelivery
