SPECIFICATION LegacySpec
CONSTANTS
    WordSize = 8
    FloatSize = 4
    Numerals = {0, 1, 2, 3, 5, 6, 7}
    MaxRequests = 1
    ThrottleUris = {"a", "b", "c"}
    ThrottleRules <- MCRules
    TopRate = 3
    WriteSizes = {1, 3, 6}
    MaxWrites = 3
    MaxSeconds = 3
INVARIANTS
    VertexInv
    ThrottleInv
PROPERTIES
    RefusalExact
    Answered
