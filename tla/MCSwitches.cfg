SPECIFICATION Spec
CONSTANTS
    Commands <- MCCommands
    Servers <- MCServers
    Dangerous <- MCDangerous
    Exposed <- MCExposed
    Switchers = {"screen"}
    Handwritten <- MCHandwritten
    MaxSwitches = 5
CHECK_DEADLOCK FALSE
INVARIANT SwitchedOffIsOff
