SPECIFICATION ReaderSpec
CONSTANTS
    Letters = {"a", "c", "d", "e", "f", "h", "i", "l", "m", "n", "o", "p", "r", "s", "t", "u", "v", "w"}
    Digits = {"0", "1"}
    Texts <- MCTexts
    Programs <- MCPrograms
    IntegerOf <- MCIntegerOf
    NoFloats <- MCNoFloats
    Cautious = {"<=", ">=", "."}
INVARIANTS
    LongestMatch
    NothingLost
    NothingMissing
    BracketsMatch
    ReadsWhatIsWritten
CHECK_DEADLOCK FALSE
