SPECIFICATION MCSpec
CHECK_DEADLOCK FALSE
CONSTANTS
    OneByte = 256
    TwoBytes = 65536
    StackSize = 5
    MaxFrames = 4
INVARIANTS
    TypeOK
    OperandsAboveLocals
    NoUnderflow
    FramesAbut
    EndsClean
    LocalsBeyondStackOnlyAtEntry
