SPECIFICATION Spec
CONSTANTS
    MaxOps = 2
    MaxSpurious = 0
    CanKill = TRUE
PROPERTY ReaderServed
CHECK_DEADLOCK FALSE
