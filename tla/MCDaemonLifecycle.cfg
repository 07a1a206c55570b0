SPECIFICATION LifecycleLiveSpec
CONSTANTS
    Starts = {i1, i2}
    MaxCrashes = 1
    Absent = Absent
CHECK_DEADLOCK FALSE
INVARIANTS
    ExitLeavesNothing
    LockSignalsReadiness
    

    
