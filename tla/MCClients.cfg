SPECIFICATION Spec
CONSTANTS
    Ids = {i1, i2, i3}
    Documents = {d1}
    Redirects = {"here"}
    Sources = {s1, s2}
    Handlers = {h1, h2}
    PerSource = 1
    Global = 2
    Hour = 1
    MaxDownloads = 2
    Minute = 1
    MaxCached = 1
    CacheFor = 1
    FetchTime = 1
    StaleAge = 1
    RequestTTL = 1
    CodeTTL = 1
    MaxTime = 2
    MaxChanges = 1
    MaxStarts = 3
ACTION_CONSTRAINT OneKind
SYMMETRY Symmetry
CHECK_DEADLOCK FALSE
INVARIANTS
    LimitsHoldInEveryWindow
    RedirectsAreRecent
    ClientsInUseAreRegistered
