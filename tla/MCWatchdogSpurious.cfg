SPECIFICATION Spec
CONSTANTS
    a1 = a1
    a2 = a2
    Appliances = {a1}
    Refresh = 2
    Delay = 3
    Threshold = 4
    healthCheckEnabled = TRUE
    MaxPolls = 2
    MaxCommands = 2
INVARIANT RestartMeansApiFailure
CHECK_DEADLOCK FALSE
