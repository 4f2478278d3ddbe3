SPECIFICATION Spec
CONSTANTS
    MAX_TESTS = 2
    IP_ADDR_LEN = 4
    IP_ADDR_GP = 2
    IP_ADDR_MIN = 0
    IP_ADDR_MAX = 2
    MASK_MIN = 0
    MASK_MAX = 2
    INT_MIN <- MCIntMin
    INT_MAX = 21
    LONG_MIN <- MCLongMin
    LONG_MAX = 219
    INT_BUFFER = 4
    MAX_LEN = 6
    Alphabet = {"0", "2", ".", "/", "-", " ", "x"}
    Texts <- MCTexts
    NoText = NoText
    UNITY_INT_WIDTH = 4
    UNITY_BITS = 4
    ELEMENTS = 3
    Values = {0, 1}
    Strings <- MCStrings
    PRINTED_BITS = 8
INVARIANTS
    NumbersRead
    AddressGrammar
    SubnetsRead
    RepositoryTests
    AssertionsExact
PROPERTIES
    VerdictIsFirst
CHECK_DEADLOCK FALSE
