SPECIFICATION Spec
CONSTANTS
    Grants = {g1}
    NoGrant = NoGrant
    Links = {l1}
    NoLink = NoLink
    Workers = {w1, w2}
    Streams = {s1}
    NoToken = NoToken
    AccessTTL = 1
    RefreshTTL = 2
    StaticTTL = 2
    PruneAge = 1
    MaxIssued = 6
    MaxTime = 3
SYMMETRY Symmetry
CHECK_DEADLOCK FALSE
INVARIANTS
    NoStreamOutlivesRevocation
    OneRefreshToken
    ReuseIsNoticed
    SweepSparesLiveGrants
PROPERTIES
    RevokedIsLockedOut
