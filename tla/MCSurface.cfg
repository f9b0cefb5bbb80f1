SPECIFICATION Spec
CONSTANTS
    tool = tool
    other = other
    odd = odd
    Tools = {tool, other, odd}
    Invalid = {odd}
    Exchanges = {x1, x2}
    Batches <- MCBatches
    Ids = {1, 2}
    Questions = {2}
    Offers <- MCOffers
    Settings <- MCSettings
    NoTool = NoTool
    MaxRequests = 3
    MaxChanges = 2
    MaxReloads = 1
    MaxTroubles = 1
SYMMETRY MCSymmetry
ACTION_CONSTRAINT OneKind
INVARIANTS
    LoneListsAreExact
    
PROPERTIES
    NewDangerIsRefused
CHECK_DEADLOCK FALSE
