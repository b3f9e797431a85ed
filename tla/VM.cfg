SPECIFICATION Spec
CHECK_DEADLOCK FALSE
CONSTANTS
    OneByte = 256
    TwoBytes = 65536
    StackSize = 12
    MaxFrames = 4
    GlobalSize = 3
    IntLimit = 8
    BuiltinCount = 1
    BuiltinResults <- MCBuiltinResults
    Programs <- MCPrograms
INVARIANTS
    TypeOK
    FrameSitsOnCallee
PROPERTIES
    CallersValuesKept
    KeepsDiscipline
