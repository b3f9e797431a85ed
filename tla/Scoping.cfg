SPECIFICATION Spec
CONSTANTS
    NoName = NoName
    Names <- MCNames
    Builtins <- MCBuiltins
    Params <- MCParams
    MaxDepth = 4
    MaxDefinitions = 2
INVARIANTS
    TypeOK
    CapturesLoadable
    CapturedOnce
    SymbolsLoadable
    SlotsDistinct
PROPERTY
    ResolvesLexically
