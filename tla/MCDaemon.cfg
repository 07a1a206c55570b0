SPECIFICATION Spec
CONSTANTS
    Clients = {c1, c2}
    Commands = {"Exec", "Shell", "Push", "Query", "Connect", "Disconnect", "Status", "Displays", "Input"}
    ServiceIds = {s1}
    MaxAttempts = 2
    None = None
SYMMETRY ClientSymmetry
CHECK_DEADLOCK FALSE
INVARIANTS
    StreamMatchesCommand
    AnsweredExactlyOnce
    SentAtMostTwice
    AckedDisconnectIsFinal
PROPERTIES
    ImplementsCommandServer
