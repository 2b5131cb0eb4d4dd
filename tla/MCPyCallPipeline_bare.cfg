\* Credentials with get_header alone.
SPECIFICATION Spec
CONSTANTS
    c1 = c1
    Calls <- OneCall
    Kinds <- Gets
    Providers <- Bare
    MaxRetries = 0
    HandlerThrows <- SomeThrows
    MaxKey = 1
INVARIANTS
    RefreshIsOptional
CHECK_DEADLOCK FALSE
