\* As retry, but nothing makes a response body arrive.
SPECIFICATION ClientFairSpec
CONSTANTS
    c1 = c1
    Calls <- OneCall
    Kinds <- Gets
    CanRefresh = FALSE
    MaxRetries = 0
    HandlerThrows <- FewThrows
    MaxKey = 1
PROPERTIES
    CallSettles
CHECK_DEADLOCK FALSE
