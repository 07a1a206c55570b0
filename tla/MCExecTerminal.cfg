SPECIFICATION Spec
CONSTANTS
    NumJobs = 2
    Kinds = {"exec", "shell"}
    Outputs <- LineOutputs
    Codes <- TwoDigits
    MaxChatter = 1
CHECK_DEADLOCK FALSE
INVARIANTS
    TypeOK
    CompletionIsOwn
    
