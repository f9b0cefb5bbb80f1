SPECIFICATION FairSpec
CONSTANTS
    Links = {l1}
    Memberships = {m1, m2}
    Absent = Absent
    Broken = Broken
    Unreadable = Unreadable
    Never = Never
    Requests = {r1}
    MaxEdits = 2
    MaxTroubles = 1
CHECK_DEADLOCK FALSE
INVARIANTS
    ConsentMatchesLink
PROPERTIES
    UnchangedLinksKeepClients
    EveryEditIsApplied
