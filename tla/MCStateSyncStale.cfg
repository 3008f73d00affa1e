SPECIFICATION Spec
CONSTANTS
    p1 = p1
    p2 = p2
    c1 = c1
    Polls = {p1}
    Commanders = {c1}
    FanAllowed <- FanTriggers
    OffReportsMode = FALSE
    RevertOnRejection = TRUE
    MaxCommands = 1
    MaxDisturbances = 1
    None = None
PROPERTIES
    DelayKeepsFeedback
