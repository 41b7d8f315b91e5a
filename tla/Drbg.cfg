SPECIFICATION DrbgFairSpec
CONSTANTS
    Callers = {c1, c2, c3}
    NoCaller = NoCaller
    BlockLen = 2
    Sizes = {1, 3, 4}
    Seeds = {s1}
    NoSeed = NoSeed
    MaxUpdates = 3
INVARIANTS
    KeystreamUsedOnce
    ForwardSecrecy
PROPERTIES
    EveryCallReturns
    ImplementsSource
