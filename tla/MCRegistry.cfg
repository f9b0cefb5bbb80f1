SPECIFICATION FairSpec
CONSTANTS
    web = web
    read = read
    shell = shell
    odd = odd
    Apps = {web}
    Tools = {read, shell, odd}
    Invalid = {odd}
    RunsCode = {shell}
    Specs <- MCSpecs
    NoSpec = NoSpec
    Offers <- MCOffers
    Down = Down
    MaxSlots = 3
    MaxTasks = 3
    Watchers = {w1}
    Settings <- MCSettings
    MaxReloads = 2
    MaxMarks = 1
    MaxChanges = 1
CHECK_DEADLOCK FALSE
INVARIANTS
    LiveFollowsRules
    WatchersAreTold
PROPERTY
    HealthyAppsAreServed
CONSTRAINT OneKind
