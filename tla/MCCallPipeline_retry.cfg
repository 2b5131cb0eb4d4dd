\* One call of each kind, up to two retries, one credential rotation; every call ends.
SPECIFICATION FairSpec
CONSTANTS
    c1 = c1
    Calls <- OneCall
    Kinds <- AllKinds
    CanRefresh = TRUE
    MaxRetries = 2
    HandlerThrows <- SomeThrows
    MaxKey = 2
INVARIANTS
    TrafficBounded
    MutationAtMostOnce
    QuietAfterMutation
    NoEarlyGiveUp
    IInv
PROPERTIES
    CallSettles
    ImplementsRemoteCall
CHECK_DEADLOCK FALSE
