CONSTANTS
    r1 = r1  r2 = r2  p1 = p1  p2 = p2
    none = none  stranger = stranger  inherited = inherited  reader = reader  root = root
    Requests <- TwoRequests
    Probes <- TwoProbes
    Method = "POST"
    HasSchema = TRUE
    AuthRequired = TRUE
    RequiredScopes <- Writers
    ApiKeys <- Keys
    InheritedNames <- Inherited
    Wildcards <- AnyScope
    NoKey = none
    UnknownKey = stranger
    PluginCount = 2
    MayThrow <- BothHooks
    Thrown <- OddErrors
SPECIFICATION HealthSpec
CHECK_DEADLOCK FALSE
SYMMETRY Symmetric
INVARIANTS HealthTypeOK RefusedForGood PluginsHearTheAnswer CountersMatchPlugins FailuresAreContained
