SPECIFICATION ServiceSpec
CONSTANTS
    Probes = {p1}
    DevBuild = FALSE
    MaxRuns = 2
    MaxChanges = 2
    Tenants = {t1, t2}
    TokenParts = 2
    Rate = 1
    TicksPerSecond = 2
    MaxTime = 6
    MaxCalls = 4
    WordSize = 16
    Counts = {1, 2}
    DeckSizes = {1, 2, 3, 4}
INVARIANTS
    MonitorInv
    RateInv
    RefusedOnlyForOwnUse
    ScalingInv
    DrawsUnbiased
PROPERTIES
    ChangesSeen
