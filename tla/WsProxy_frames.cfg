SPECIFICATION ReadingSpec
CONSTANTS
    Cap = 1
    MaxFrames = 2
INVARIANTS
    TypeOK
PROPERTIES
    ImplementsDuplex
    CloseEndsSession
CHECK_DEADLOCK FALSE
