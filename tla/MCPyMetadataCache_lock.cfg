CONSTANTS
    t1 = t1  t2 = t2  t3 = t3
    s1 = s1  u1 = u1  u2 = u2
    NoThread = NoThread
    NoUrl = NoUrl
    Threads <- ThreeThreads
    Services <- OneService
    Urls <- TwoUrls
    MaxVersion = 3
    Understood <- FirstTwo
    Ttl = 1
    MaxCalls = 1
SPECIFICATION FairSpec
CHECK_DEADLOCK FALSE
INVARIANTS IInv OneFetchPerService
PROPERTIES StaleIfError NoRegress EveryCallSettles
