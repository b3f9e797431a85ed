SPECIFICATION FairSpec
CHECK_DEADLOCK FALSE
CONSTANTS
    OneByte = 256
    TwoBytes = 65536
    Names <- MCNames
    Builtins <- MCBuiltins
    BaseDir = "/"
    FullPath <- NoFullPath
    DirOf <- NoDirOf
    Files <- NoFiles
    StackSize = 12
    MaxFrames = 4
    GlobalSize = 4
    IntLimit = 4
    BuiltinCount = 1
    BuiltinResults <- MCBuiltinResults
    Lines <- MCLines
    Nodes <- MCNodes
    MaxLines = 4
INVARIANTS
    TypeOK
    RunsVerifiedCode
    StoredIsDeclared
PROPERTIES
    ConstantsStay
    LineAnswered
