SPECIFICATION Spec
CONSTANTS
    Values <- MCValues
    Backings = {1, 2, 3}
    MantissaBits = 3
    MaxObjects = 2
    MaxLength = 3
INVARIANTS
    TypeOK
    OwnBacking
    ReadsRight
PROPERTY
    ImplementsCollections
CHECK_DEADLOCK FALSE
