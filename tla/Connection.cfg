SPECIFICATION FairFormSpec
CONSTANTS
    Cases <- MCCases
    BufSize = 5
    MaxHeaders = 3
    ReadSizes = {1, 3}
    Int64Max = 1000
    FormBuf = 6
    Policies <- MCPolicies
INVARIANTS
    ConnectionInv
    BodyExact
    FormInv
PROPERTIES
    ConnectionHeaderExact
    EventuallyClosed
CHECK_DEADLOCK FALSE
