CONSTANTS
    r1 = r1  r2 = r2
    none = none  stranger = stranger  inherited = inherited  reader = reader  root = root
    Requests <- TwoRequests
    Method = "POST"
    HasSchema = TRUE
    AuthRequired = TRUE
    RequiredScopes <- Writers
    ApiKeys <- Keys
    InheritedNames <- Inherited
    Wildcards <- AnyScope
    NoKey = none
    UnknownKey = stranger
    PluginCount = 2
    MayThrow <- BothHooks
    Thrown <- UsualErrors
SPECIFICATION FairSpec
CHECK_DEADLOCK FALSE
PROPERTY EveryRequestAnswered
