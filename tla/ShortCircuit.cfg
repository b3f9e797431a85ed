SPECIFICATION Spec
CHECK_DEADLOCK FALSE
CONSTANTS
    OneByte = 256
    TwoBytes = 65536
    Names <- MCNames
    Builtins <- MCBuiltins
    BaseDir = "/"
    FullPath <- NoFullPath
    DirOf <- NoDirOf
    Files <- NoFiles
    StackSize = 12
    MaxFrames = 4
    GlobalSize = 4
    IntLimit = 8
    BuiltinCount = 1
    BuiltinResults <- MCBuiltinResults
    Lines <- ShortCircuitLines
    Nodes <- MCNodes
    MaxLines = 1
INVARIANT
    ShortCircuits
