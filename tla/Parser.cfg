SPECIFICATION Spec
CONSTANTS
    ID_LENGTH = 2
    META_DATA_LENGTH = 1
    META_DATA_KP_PAIRS = 1
    TEXT_MAX_LENGTH = 4
    DIMENSIONS = 2
    DIMENSIONS_NO_OF_DIGITS = 1
    MAX_K_SIMILAR = 3
    Uint16 = 8
    NaN = NaN
    Tokens <- Alphabet
    Requests <- All
    MaxEdits = 2
    MaxLine = 9
INVARIANTS
    RoundTrip
    NothingIsIgnored
CHECK_DEADLOCK FALSE
