SPECIFICATION Spec
CHECK_DEADLOCK FALSE
CONSTANTS
    OneByte = 256
    TwoBytes = 65536
    Names <- MCNames
    Builtins <- MCBuiltins
    Trees <- MCTrees
    Nodes <- MCNodes
    BaseDir = "/"
    FullPath <- MCFullPath
    DirOf <- MCDirOf
    Files <- MCFiles
INVARIANTS
    TypeOK
    EmittedCodeVerifies
    LastInstructionAccurate
    PendingJumpsIntact
    ImportsRelative
    NoImportInsideItself
