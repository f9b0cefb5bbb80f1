SPECIFICATION ScreenSpec
CONSTANTS
    Names = {"a", "d"}
    LinkNames = {"l", "m"}
    Discovered = {"d", "m"}
    Words = {"df", "say {text}", "rm {name}", "sh {code}"}
    Code = {"sh {code}"}
    Open = {"say {text}", "rm {name}", "sh {code}"}
    Effects = {"rm {name}"}
    NoRun = none
    Clients = {c1, c2}
    Token = token
    Initially <- MCInitially
    MaxSaves = 1
    MaxOthers = 1
    MaxAsks = 2
CHECK_DEADLOCK FALSE
INVARIANTS
    AnswersDoWhatWasTicked
    DangerIsConfirmed
    CodeIsOfARequest
CONSTRAINT OneKind
