SPECIFICATION Spec
CONSTANTS
    Requests = {r1, r2, r3}
    SavedIds = {i1}
    Kinds = {"initialize", "call", "delete"}
    Keys = {k1}
    Hello = Hello
    Nobody = Nobody
    MaxSessions = 2
    MaxTroubles = 1
SYMMETRY Symmetry
CHECK_DEADLOCK FALSE
INVARIANTS
    SlotsAccounted
    AnswersReachTheirRequest
    NobodyWaitsOnTheDead
    OneProcessPerSession
    EndedStaysEnded
