SPECIFICATION FairSpec
CONSTANTS
    r1 = r1
    r2 = r2
    f1 = f1
    f2 = f2
    Requests = {r1, r2}
    Main = Main
    Flows = {f1, f2}
    None = None
INVARIANTS
    TypeOK
    NoOrphanWaiter
    WaitersAreBlocked
    OpenGateHasSession
    ReloginPending
    RetryUsesNewToken
PROPERTIES
    WaitersLeaveOnlyByLogin
    EveryCallReturns
    ImplementsLoginGate
