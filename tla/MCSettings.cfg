SPECIFICATION FileSpec
CONSTANTS
    Procs = {p1, p2}
    Nobody = Nobody
    Initially <- MCInitially
    Jobs <- MCJobs
    SplitNames <- MCSplitNames
    MaxJobs = 3
    MaxCrashes = 1
SYMMETRY MCSymmetry
INVARIANTS
    NoEditIsLost
    UndisturbedActionsAreAtomic
    HalfDoneIsSafe
CHECK_DEADLOCK FALSE
