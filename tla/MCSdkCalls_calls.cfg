\* A plugin, a warm-up, and overlapping calls of a service that is upgraded.
SPECIFICATION SdkFairSpec
CONSTANTS
    c1 = c1
    c2 = c2
    s1 = s1
    u1 = u1
    NoCaller = NoCaller
    NoUrl = NoUrl
    Callers <- TwoCallers
    Services <- OneService
    Urls <- OneUrl
    MaxVersion = 2
    Understood <- FirstTwo
    Ttl = 1
    NPlugins = 1
    Namespaces <- OneService
    Eager <- OneService
INVARIANTS
    SdkTypeOK
    DispatchedWasAnnounced
    FailsOnlyWithoutManifest
PROPERTIES
    PluginsHearInOrder
    CallsSettle
CHECK_DEADLOCK FALSE
