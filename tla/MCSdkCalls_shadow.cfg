\* A plugin's namespace named like a service.
SPECIFICATION SdkSpec
CONSTANTS
    c1 = c1
    c2 = c2
    s1 = s1
    u1 = u1
    NoCaller = NoCaller
    NoUrl = NoUrl
    Callers <- TwoCallers
    Services <- OneService
    Urls <- OneUrl
    MaxVersion = 2
    Understood <- FirstTwo
    Ttl = 1
    NPlugins = 1
    Namespaces <- OneService
    Eager <- OneService
INVARIANTS
    NoServiceHidden
CHECK_DEADLOCK FALSE
