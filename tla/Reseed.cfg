SPECIFICATION FairSpec
CONSTANTS
    Requests = {r1, r2, r3}
    NoRequest = NoRequest
    Clients = 2
    DrawCounts = {0, 2}
    IntervalOutputs = 2
    IntervalSeconds = 1
    SampleSize = 1
    EntropyCanFail = TRUE
    MaxRejects = 1
    MaxTime = 1
    MaxSelfTests = 1
INVARIANTS
    ReseedInv
    ReseedsApart
PROPERTIES
    EveryItemFinishes
