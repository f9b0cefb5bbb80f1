SPECIFICATION FairSpec
CONSTANTS
    Requests = {r1}
    NoRequest = NoRequest
    Workers = {w1, w2}
    Links = {l1}
    NoLink = NoLink
    Processes = {"daemon", "cli"}
    MaxAttempts = 2
    MaxPending = 1
    PendingTTL = 1
    CodeTTL = 1
    MaxTime = 2
CHECK_DEADLOCK FALSE
INVARIANTS
    TypeOK
    GuessesBounded
    OneConnectionPerRequest
    ApprovedInTime
    RevocationIsComplete
PROPERTIES
    OnlyAskerSpendsTries
    ImplementsConsent
    EveryRequestEnds
    EveryTryIsAnswered
