SPECIFICATION FairSpec
CONSTANTS
    Requests = {r1, r2}
    SavedIds = {i1}
    Kinds = {"initialize", "oneshot", "call", "delete"}
    Keys = {k1}
    Hello = Hello
    Nobody = Nobody
    MaxSessions = 1
    MaxTroubles = 1
CHECK_DEADLOCK FALSE
PROPERTIES
    EveryRequestReturns
