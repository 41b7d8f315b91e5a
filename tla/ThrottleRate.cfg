SPECIFICATION LegacySpec
CONSTANTS
    WordSize = 8
    FloatSize = 4
    Numerals = {0, 1}
    MaxRequests = 1
    ThrottleUris = {"a", "b", "c"}
    ThrottleRules <- MCRules
    TopRate = 3
    WriteSizes = {6}
    MaxWrites = 1
    MaxSeconds = 1
INVARIANTS
    RateKept
