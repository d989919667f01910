SPECIFICATION Spec
CONSTANTS
    MaxKicks = 3
    MaxSpurious = 0
    CanKill = TRUE
INVARIANT NoUseAfterFree
CHECK_DEADLOCK FALSE
