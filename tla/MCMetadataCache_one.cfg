\* One service at two possible URLs, calls that overlap.
SPECIFICATION FairSpec
CONSTANTS
    c1 = c1
    c2 = c2
    c3 = c3
    s1 = s1
    u1 = u1
    u2 = u2
    NoCaller = NoCaller
    NoUrl = NoUrl
    Callers <- ThreeCallers
    Services <- OneService
    Urls <- TwoUrls
    MaxVersion = 2
    Understood <- FirstTwo
    Ttl = 1
INVARIANTS
    IInv
    SingleOutstanding
    WaitersServed
    ExistingIsCurrent
    StaleIfError
    ServedPair
PROPERTIES
    NoRegress
    YoungOnlyByAnswer
    ImplementsSingleFlight
    EveryCallSettles
