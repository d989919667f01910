SPECIFICATION Spec
CONSTANTS
    MaxOps = 4
    MaxKicks = 3
    MaxSpurious = 1
    CanKill = TRUE
INVARIANTS
    
    RunningImpliesEvent
PROPERTIES
    RequestServed
    ReaderServedWhileRunning
    ReaderGetsFrame
    LaunchReturns
    IoTerminates
CHECK_DEADLOCK FALSE
