\* One call of each kind with each kind of credentials, two retries.
SPECIFICATION FairSpec
CONSTANTS
    c1 = c1
    Calls <- OneCall
    Kinds <- AllKinds
    Providers <- AllProviders
    MaxRetries = 2
    HandlerThrows <- SomeThrows
    MaxKey = 2
INVARIANTS
    IInv
PROPERTIES
    ImplementsRemoteCall
    CallSettles
CHECK_DEADLOCK FALSE
