SPECIFICATION FairSpec
CONSTANTS
    a1 = a1
    a2 = a2
    Appliances = {a1, a2}
    Refresh = 1
    Delay = 2
    Threshold = 3
    healthCheckEnabled = TRUE
    MaxPolls = 1
    MaxCommands = 1
INVARIANTS
    TypeOK
    NoRestartWhileAnswered
    HealthyWhenCalm
PROPERTIES
    OutageEndsInRestart
CHECK_DEADLOCK FALSE
