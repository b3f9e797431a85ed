SPECIFICATION Spec
CONSTANTS
    Letters = {"a", "c", "d", "e", "f", "h", "i", "l", "m", "n", "o", "p", "r", "s", "t", "u", "v", "w"}
    Digits = {"0", "1"}
    Texts <- MCTexts
    Programs <- MCPrograms
    IntegerOf <- MCIntegerOf
    NoFloats = {}
    Cautious = {}
INVARIANTS
    AsDocumented
CHECK_DEADLOCK FALSE
