SPECIFICATION JsonSpec
CONSTANTS
    NodeCount = 4
    BlockCount = 2
    Texts = {0, 1}
    Kinds = {"number", "array", "object"}
    MaxCalls = 5
    Numbers <- MCNumbers
    StringValues <- MCStrings
    Noise <- MCNoise
    NestingLimit = 2
    NumberLimit = 3
    DefaultSize = 4
    IntMax = 24
    BufferSizes = {0, 1, 8, 14, 20}
INVARIANTS
    TreeInv
    EverythingFreed
    CopyEqual
    RoundTrip
    PrintInv
    ParseInv
