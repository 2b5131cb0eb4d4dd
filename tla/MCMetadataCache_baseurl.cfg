\* The cached base URL after a 304.
SPECIFICATION Spec
CONSTANTS
    c1 = c1
    c2 = c2
    c3 = c3
    s1 = s1
    u1 = u1
    u2 = u2
    NoCaller = NoCaller
    NoUrl = NoUrl
    Callers <- TwoCallers
    Services <- OneService
    Urls <- TwoUrls
    MaxVersion = 2
    Understood <- FirstTwo
    Ttl = 1
PROPERTIES
    BaseUrlOfLastFetch
