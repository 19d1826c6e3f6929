CONSTANTS
    Caller = {c1, c2, c3}
    Key = {k1}
    NoKey = NoKey
    kMaxFaults = 3
    kMaxConcurrentCalls = 2
SPECIFICATION FairSpec
INVARIANTS TypeOK ActiveExact FaultsBounded
PROPERTIES BreakerSettles ShutdownQuiesces
