SPECIFICATION Spec
CONSTANTS
    Daemons = {d1, d2}
    Requests = {r1, r2}
    Ports = {p1, p2, p3}
    FirstPort = p1
    OwnUrls <- MCOwnUrls
    Nobody = Nobody
    NoPort = NoPort
    MaxFailures = 1
    MaxKills = 1
    MaxCancels = 1
    MaxForeign = 1
SYMMETRY MCSymmetry
INVARIANTS
    SoleDaemonIsReached
    AddressIsServed
CHECK_DEADLOCK FALSE
